---------------------------- MODULE LaddersProofs ----------------------------
(***************************************************************************)
(* Proofs about Ladders and, for any set of callers, any arguments of      *)
(* SETLED and any number of calls, about Blinkplus, the module of Ladders  *)
(* whose timer, work and ioctls have a specification of their own.         *)
(***************************************************************************)
EXTENDS Blinkplus, Ladders, SequenceTheorems, TLAPS

(***************************************************************************)
(* Blinkplus                                                               *)
(***************************************************************************)

(* Types.  Zenon is for the Boolean variables, SMT for the numbers.        *)

LEMMA InitType == Init => TypeOK
<1> SUFFICES ASSUME Init PROVE TypeOK
  OBVIOUS
<1>1. /\ kbledstatus \in LedArgs \cup {0} /\ status \in 0..7 \cup {RESTORE_LEDS}
      /\ sets \in 0..MaxSets /\ shown \in 0..7 \cup {RESTORE_LEDS}
  BY BoundAssumption, SMT DEF Init, RESTORE_LEDS
<1>2. QED
  BY <1>1, Zenon DEF Init, TypeOK

\* A number modulo 8 is what three LEDs can show.
LEMMA ThreeBits ==
  ASSUME NEW n \in Nat
  PROVE  n % 8 \in 0..7
BY SMT

\* The Boolean variables, and the others.
Flags   == /\ queued \in BOOLEAN /\ overlap \in BOOLEAN
           /\ early \in BOOLEAN /\ overtaken \in BOOLEAN
Control == /\ mpc \in {"device", "loaded", "cancel", "destroy", "unloaded"} \cup Setting
           /\ timer \in {"unset", "idle", "pending"}
           /\ hpc \in {"idle", "queue", "add"} /\ wpc \in {"idle", "show"}
           /\ wq \in {"null", "live", "destroyed"}
           /\ kbledstatus \in LedArgs \cup {0} /\ status \in 0..7 \cup {RESTORE_LEDS}
           /\ shown \in 0..7 \cup {RESTORE_LEDS}
           /\ cpc \in [Callers -> {"closed", "open", "del", "add"}]
           /\ sets \in 0..MaxSets
           /\ oops \in {"none", "no_function", "added_twice", "no_queue", "unloaded"}

LEMMA TypeParts == (TypeOK <=> Flags /\ Control) /\ (TypeOK' <=> Flags' /\ Control')
BY Zenon DEF TypeOK, Flags, Control

LEMMA NextFlags ==
  ASSUME Flags, [Next]_vars
  PROVE  Flags'
<1> USE DEF Flags, alarm, work, leds, ioctls, ghosts
<1>1. CASE Module
  BY <1>1, Zenon DEF Module, InitDevice, InitTimer, InitArm, InitQueue,
                     InitQueueRefused, CleanTimer, CleanWork, CleanQueue
<1>2. CASE TimerFires \/ Handler \/ Worker \/ RunsFreedCode
  BY <1>2, Zenon DEF TimerFires, Handler, TimerQueues, TimerAdds, Worker,
                     WorkBegins, WorkShows, RunsFreedCode
<1>3. ASSUME NEW c \in Callers, Caller(c) \/ SetInv(c)
      PROVE  Flags'
  BY <1>3, Zenon DEF Caller, Open, Release, SetLed, SetInvCall, SetInv, SetInvDel,
                     SetInvAdd
<1>4. CASE UNCHANGED vars
  BY <1>4, Zenon DEF vars
<1>5. QED
  BY <1>1, <1>2, <1>3, <1>4, Zenon DEF Next

LEMMA NextControl ==
  ASSUME Control, [Next]_vars
  PROVE  Control'
<1> USE DEF Control, alarm, work, leds, ioctls
<1>1. CASE Module
  <2>1. CASE InitDevice \/ InitTimer \/ InitArm \/ InitQueue \/ InitQueueRefused
    BY <2>1, SMT DEF InitDevice, InitTimer, InitArm, InitQueue, InitQueueRefused,
                     Setting
  <2>2. CASE CleanTimer \/ CleanWork \/ CleanQueue
    BY <2>2, SMT DEF CleanTimer, CleanWork, CleanQueue, Setting
  <2>3. QED
    BY <1>1, <2>1, <2>2, Zenon DEF Module
<1>2. CASE TimerFires
  BY <1>2, SMT DEF TimerFires
<1>3. CASE TimerQueues
  BY <1>3, SMT DEF TimerQueues
<1>4. CASE TimerAdds
  BY <1>4, SMT DEF TimerAdds, AddTimer
<1>5. CASE WorkBegins
  <2>1. kbledstatus \in Nat
    BY LedAssumption, SMT
  <2>2. status' \in 0..7 \cup {RESTORE_LEDS}
    BY <1>5, <2>1, ThreeBits, Zenon DEF WorkBegins
  <2>3. QED
    BY <1>5, <2>2, SMT DEF WorkBegins
<1>6. CASE WorkShows \/ RunsFreedCode
  BY <1>6, SMT DEF WorkShows, RunsFreedCode
<1>7. ASSUME NEW c \in Callers, Caller(c)
      PROVE  Control'
  BY <1>7, BoundAssumption, SMT DEF Caller, Open, Release, SetLed, SetInvCall
<1>8. ASSUME NEW c \in Callers, SetInv(c)
      PROVE  Control'
  BY <1>8, SMT DEF SetInv, SetInvDel, SetInvAdd, AddTimer
<1>9. CASE UNCHANGED vars
  BY <1>9, SMT DEF vars
<1>10. QED
  BY <1>1, <1>2, <1>3, <1>4, <1>5, <1>6, <1>7, <1>8, <1>9, Zenon
     DEF Next, Handler, Worker

LEMMA NextType ==
  ASSUME TypeOK, [Next]_vars
  PROVE  TypeOK'
BY TypeParts, NextFlags, NextControl, Zenon

\* Every variable keeps its type; in particular no LED beyond the three is set.
THEOREM TypeCorrect == Spec => []TypeOK
BY InitType, NextType, PTL DEF Spec

(* The timer and what it needs                                             *)

LEMMA InitTimerInv == Init => TimerInv
BY InitType, Zenon DEF Init, TimerInv, SetUpInv, AloneInv, AddedTwiceExplained,
                       RestExplained, Calling, Setting

LEMMA ModuleKeeps ==
  ASSUME TimerInv, oops = "none", Module
  PROVE  SetUpInv' /\ AloneInv' /\ AddedTwiceExplained' /\ RestExplained'
<1> USE DEF TimerInv, SetUpInv, AloneInv, AddedTwiceExplained, RestExplained,
            Calling, Setting, alarm, work, leds, ioctls, ghosts
<1>1. CASE InitDevice
  BY <1>1, Zenon DEF InitDevice
<1>2. CASE InitTimer
  BY <1>2, Zenon DEF InitTimer
<1>3. CASE InitArm
  BY <1>3, Zenon DEF InitArm
<1>4. CASE InitQueue
  BY <1>4, Zenon DEF InitQueue
<1>5. CASE InitQueueRefused
  BY <1>5, Zenon DEF InitQueueRefused
<1>6. CASE CleanTimer
  BY <1>6, Zenon DEF CleanTimer
<1>7. CASE CleanWork
  BY <1>7, Zenon DEF CleanWork
<1>8. CASE CleanQueue
  BY <1>8, Zenon DEF CleanQueue
<1>9. QED
  BY <1>1, <1>2, <1>3, <1>4, <1>5, <1>6, <1>7, <1>8, Zenon DEF Module

LEMMA HandlerKeeps ==
  ASSUME TimerInv, oops = "none", TimerFires \/ Handler \/ Worker \/ RunsFreedCode
  PROVE  SetUpInv' /\ AloneInv' /\ AddedTwiceExplained' /\ RestExplained'
<1> USE DEF TimerInv, SetUpInv, AloneInv, AddedTwiceExplained, RestExplained,
            Calling, Setting, alarm, work, leds, ioctls, ghosts
<1>1. CASE TimerFires
  BY <1>1, Zenon DEF TimerFires
<1>2. CASE TimerQueues
  <2>1. SetUpInv'
    BY <1>2, SMT DEF TimerQueues
  <2>2. AloneInv'
    BY <1>2, Zenon DEF TimerQueues
  <2>3. AddedTwiceExplained' /\ RestExplained'
    BY <1>2, Zenon DEF TimerQueues, TypeOK
  <2>4. QED
    BY <2>1, <2>2, <2>3
<1>3. CASE TimerAdds
  BY <1>3, Zenon DEF TimerAdds, AddTimer
<1>4. CASE Worker
  BY <1>4, Zenon DEF Worker, WorkBegins, WorkShows
<1>5. CASE RunsFreedCode
  BY <1>5, Zenon DEF RunsFreedCode
<1>6. QED
  BY <1>1, <1>2, <1>3, <1>4, <1>5, Zenon DEF Handler

LEMMA CallerKeeps ==
  ASSUME TimerInv, oops = "none", mpc # "unloaded",
         NEW c \in Callers, Caller(c) \/ SetInv(c)
  PROVE  SetUpInv' /\ AloneInv' /\ AddedTwiceExplained' /\ RestExplained'
<1> USE DEF TimerInv, SetUpInv, AloneInv, AddedTwiceExplained, RestExplained,
            Calling, Setting, alarm, work, leds, ioctls, ghosts
<1>0. cpc \in [Callers -> {"closed", "open", "del", "add"}]
  BY Zenon DEF TypeOK
<1>1. CASE Open(c)
  BY <1>0, <1>1, Zenon DEF Open
<1>2. CASE Release(c)
  BY <1>0, <1>2, Zenon DEF Release
<1>3. CASE SetLed(c)
  BY <1>3, Zenon DEF SetLed
<1>4. CASE SetInvCall(c)
  <2>1. mpc \in {"device"} \cup Setting \cup {"loaded", "cancel", "destroy"}
    BY Zenon DEF TypeOK
  <2>2. ~ early' => ~ early /\ mpc = "loaded"
    BY <1>4, <2>1, Zenon DEF SetInvCall
  <2>3. SetUpInv'
    BY <1>0, <1>4, <2>2, Zenon DEF SetInvCall
  <2>4. AloneInv'
    BY <1>0, <1>4, <2>2, Zenon DEF SetInvCall
  <2>5. AddedTwiceExplained' /\ RestExplained'
    BY <1>4, <2>2, Zenon DEF SetInvCall
  <2>6. QED
    BY <2>3, <2>4, <2>5
<1>5. CASE SetInvDel(c)
  <2>1. SetUpInv'
    BY <1>0, <1>5, SMT DEF SetInvDel
  <2>2. AloneInv'
    BY <1>0, <1>5, Zenon DEF SetInvDel, TypeOK
  <2>3. AddedTwiceExplained' /\ RestExplained'
    BY <1>5, Zenon DEF SetInvDel
  <2>4. QED
    BY <2>1, <2>2, <2>3
<1>6. CASE SetInvAdd(c)
  BY <1>0, <1>6, Zenon DEF SetInvAdd, AddTimer
<1>7. QED
  BY <1>1, <1>2, <1>3, <1>4, <1>5, <1>6, Zenon DEF Caller, SetInv

\* What the set-up has made, who is on the timer, and what may stop the kernel.
THEOREM TimerCorrect == Spec => []TimerInv
<1>1. TimerInv /\ [Next]_vars => TimerInv'
  <2> SUFFICES ASSUME TimerInv, [Next]_vars PROVE TimerInv'
    OBVIOUS
  <2>1. TypeOK'
    BY NextType DEF TimerInv
  <2>2. SetUpInv' /\ AloneInv' /\ AddedTwiceExplained' /\ RestExplained'
    <3>1. CASE Next
      BY <3>1, ModuleKeeps, HandlerKeeps, CallerKeeps, Zenon DEF Next
    <3>2. CASE UNCHANGED vars
      BY <3>2, Zenon
         DEF vars, alarm, work, leds, ioctls, ghosts, TimerInv, SetUpInv, AloneInv,
             AddedTwiceExplained, RestExplained, Calling
    <3>3. QED
      BY <3>1, <3>2
  <2>3. QED
    BY <2>1, <2>2, Zenon DEF TimerInv
<1>2. QED
  BY <1>1, InitTimerInv, PTL DEF Spec

\* The timer is added twice only by two calls of SETINV that overlap, or by one
\* that overtakes the set-up.
THEOREM AddedTwiceCauses == Spec => []AddedTwiceExplained
<1>1. TimerInv => AddedTwiceExplained
  BY DEF TimerInv
<1>2. QED
  BY <1>1, TimerCorrect, PTL

\* Nothing else stops the kernel but a set-up overtaken or refused half-way and
\* a clean-up that passes a running handler.
THEOREM RestCauses == Spec => []RestExplained
<1>1. TimerInv => RestExplained
  BY DEF TimerInv
<1>2. QED
  BY <1>1, TimerCorrect, PTL

\* The timer is never without somebody who keeps it going.
THEOREM TimerKeptGoing == Spec => []SomebodyAdds
<1>1. Init => SomebodyAdds
  BY Zenon DEF Init, SomebodyAdds
<1>2. TimerInv /\ SomebodyAdds /\ [Next]_vars => SomebodyAdds'
  <2> SUFFICES ASSUME TimerInv, SomebodyAdds, [Next]_vars PROVE SomebodyAdds'
    OBVIOUS
  <2> USE DEF SomebodyAdds, alarm, work, leds, ioctls, ghosts
  <2>1. CASE Module
    BY <2>1, Zenon DEF Module, InitDevice, InitTimer, InitArm, InitQueue,
                       InitQueueRefused, CleanTimer, CleanWork, CleanQueue
  <2>2. CASE TimerFires \/ TimerQueues
    BY <2>2, Zenon DEF TimerFires, TimerQueues
  <2>3. CASE TimerAdds
    BY <2>3, Zenon DEF TimerAdds, AddTimer
  <2>4. CASE Worker \/ RunsFreedCode
    BY <2>4, Zenon DEF Worker, WorkBegins, WorkShows, RunsFreedCode
  <2>5. ASSUME NEW c \in Callers, oops = "none", Caller(c) \/ SetInv(c)
        PROVE  SomebodyAdds'
    <3>1. cpc \in [Callers -> {"closed", "open", "del", "add"}]
      BY Zenon DEF TimerInv, TypeOK
    <3>2. CASE Caller(c)
      BY <3>1, <3>2, Zenon DEF Caller, Open, Release, SetLed, SetInvCall
    <3>3. CASE SetInvDel(c)
      BY <3>1, <3>3, Zenon DEF SetInvDel
    <3>4. CASE SetInvAdd(c)
      BY <3>4, Zenon DEF SetInvAdd, AddTimer
    <3>5. QED
      BY <2>5, <3>2, <3>3, <3>4, Zenon DEF SetInv
  <2>6. CASE UNCHANGED vars
    BY <2>6, Zenon DEF vars
  <2>7. QED
    BY <2>1, <2>2, <2>3, <2>4, <2>5, <2>6, Zenon DEF Next, Handler
<1>3. QED
  BY <1>1, <1>2, TimerCorrect, PTL DEF Spec

(* The LEDs                                                                *)

LEMMA LedStep ==
  ASSUME LedInv, [Next]_vars
  PROVE  /\ LedInv'
         /\ wpc = "show" /\ wpc' = "idle" /\ shown = ALL_LEDS_ON =>
              shown' = RESTORE_LEDS
<1> USE DEF LedInv, alarm, work, leds, ioctls, ghosts, ALL_LEDS_ON, RESTORE_LEDS
<1>1. CASE WorkBegins
  BY <1>1, SMT DEF WorkBegins
<1>2. CASE WorkShows
  BY <1>2, SMT DEF WorkShows
<1>3. CASE CleanQueue
  BY <1>3, SMT DEF CleanQueue
<1>4. CASE UNCHANGED <<wpc, shown, status>>
  BY <1>4, SMT
<1>5. [Next]_vars => WorkBegins \/ WorkShows \/ CleanQueue
                     \/ UNCHANGED <<wpc, shown, status>>
  BY Zenon DEF Next, Module, InitDevice, InitTimer, InitArm, InitQueue,
     InitQueueRefused, CleanTimer, CleanWork, TimerFires, Handler, TimerQueues,
     TimerAdds, Worker, RunsFreedCode, Caller, Open, Release, SetLed, SetInvCall,
     SetInv, SetInvDel, SetInvAdd, vars
<1>6. QED
  BY <1>1, <1>2, <1>3, <1>4, <1>5, Zenon

\* All LEDs on never last longer than to the next blink.
THEOREM AllOnEnds == Spec => AllOnIsTakenBack
<1>1. Init => LedInv
  BY SMT DEF Init, LedInv, ALL_LEDS_ON, RESTORE_LEDS
<1>2. LedInv /\ [Next]_vars => LedInv'
  BY LedStep
<1>3. LedInv /\ [Next]_vars =>
        [wpc = "show" /\ wpc' = "idle" /\ shown = ALL_LEDS_ON
           => shown' = RESTORE_LEDS]_vars
  BY LedStep
<1>4. QED
  BY <1>1, <1>2, <1>3, PTL DEF Spec, AllOnIsTakenBack

(***************************************************************************)
(* Ladders                                                                 *)
(*                                                                         *)
(* What init and exit of a module do is in tables, so the proof has two    *)
(* halves: the tables of each module fit together (TablesFit), and a walk  *)
(* through tables that fit keeps LadderInv.                                *)
(***************************************************************************)

\* With the steps before k made and R refused, giving back the list t leaves
\* nothing but what is explained, and finds what it gives back.
Covers(k, t, R) ==
  /\ InOrder(t)
  /\ Before(k) \subseteq
       Listed(t) \cup Lasting \cup LeftAnyway \cup LeftOut(R)
         \cup (IF "netdev" \in Listed(t) THEN {"registered"} ELSE {})
  /\ Listed(t) \cap Must \subseteq Before(k) \cup R
  /\ "device" \in Listed(t) => "class" \in Before(k)
  /\ "netdev" \in Listed(t) => \E j \in 1..(k - 1):
       "netdev" \in Setup[drv][j].takes /\ Setup[drv][j].refusal # "unseen"
  /\ "ioport" \in Listed(t) => drv = "pci_template"

\* It gives back nothing before what stands on it, but for what is excused.
Ordered(k, t, R) ==
  \A r \in Listed(t): \A s \in Before(k):
    <<s, r>> \in OnTop => Excused(r, R, {}) \/ Precedes(s, r, t)

\* What the calls need is there once init is through, and what they add sets off
\* nothing more.
CallsFit ==
  /\ "pending" \notin Before(Len(Setup[drv]) + 1)
  /\ "registered" \in Before(Len(Setup[drv]) + 1) =>
       "netdev" \in Before(Len(Setup[drv]) + 1)
  /\ \A c \in CallsOf(drv):
       /\ c.uses \subseteq Before(Len(Setup[drv]) + 1)
       /\ \/ c.by \in Pinning \/ c.uses = {}
          \/ drv = "dynamic_tasklet" /\ c.uses = {"tasklet"}
          \/ drv = "blinkplus" /\ c.uses = {"queue"}
          \/ c.by = "registered" /\ c.uses = {"netdev"}
       /\ c.adds = {} \/ ({c.by} \cup c.uses) \cap Added = {}

\* The list of each step that may be refused gives back what the steps before have
\* taken, before any call can add to it; the list of exit, what calls have added too.
Fits ==
  /\ \A k \in 1..Len(Setup[drv]): Setup[drv][k].refusal = "seen" =>
       /\ Covers(k, Setup[drv][k].unwind, Setup[drv][k].takes)
       /\ Ordered(k, Setup[drv][k].unwind, Setup[drv][k].takes)
       /\ Addable(k) = {}
  /\ Covers(Len(Setup[drv]) + 1, Teardown[drv], {})
  /\ Ordered(Len(Setup[drv]) + 1, Teardown[drv], {})
  /\ Added \subseteq Listed(Teardown[drv]) \cap {"armed", "pending"}
  /\ CallsFit

(* What the steps before one have taken.                                   *)

LEMMA NothingBefore == Before(1) = {}
BY SMT DEF Before

LEMMA OneMore ==
  ASSUME NEW k \in Nat \ {0}
  PROVE  Before(k + 1) = Before(k) \cup Setup[drv][k].takes
BY SMT DEF Before

LEMMA BeforeSteps ==
  /\ Before(1) = {}
  /\ Before(2) = Before(1) \cup Setup[drv][1].takes
  /\ Before(3) = Before(2) \cup Setup[drv][2].takes
  /\ Before(4) = Before(3) \cup Setup[drv][3].takes
  /\ Before(5) = Before(4) \cup Setup[drv][4].takes
  /\ Before(6) = Before(5) \cup Setup[drv][5].takes
  /\ Before(7) = Before(6) \cup Setup[drv][6].takes
  /\ Before(8) = Before(7) \cup Setup[drv][7].takes
  /\ Before(9) = Before(8) \cup Setup[drv][8].takes
<1>1. \A k \in 1..8: Before(k + 1) = Before(k) \cup Setup[drv][k].takes
  BY OneMore, SMT
<1>2. QED
  BY <1>1, NothingBefore, SMT

LEMMA CallsAdd ==
  /\ UNION {c.adds: c \in {}} = {}
  /\ UNION {c.adds: c \in SimpleCalls} = {}
  /\ UNION {c.adds: c \in HelloCalls} = {"armed"}
  /\ UNION {c.adds: c \in BlinkCalls} = {}
  /\ UNION {c.adds: c \in MmapCalls} = {}
  /\ UNION {c.adds: c \in StaticCalls} = {"pending"}
  /\ UNION {c.adds: c \in DynamicCalls} = {"pending"}
  /\ UNION {c.adds: c \in Block5Calls} = {}
  /\ UNION {c.adds: c \in Block26Calls} = {}
  /\ UNION {c.adds: c \in PciNetCalls} = {}
  /\ UNION {c.adds: c \in UsbNetCalls} = {}
  /\ UNION {c.adds: c \in RegsCalls} = {}
<1>0. UNION {c.adds: c \in {}} = {}
  BY SMT
<1>1. UNION {c.adds: c \in SimpleCalls} = {}
  BY SMT DEF SimpleCalls, Call
<1>2. UNION {c.adds: c \in HelloCalls} = {"armed"}
  BY SMT DEF HelloCalls, Call
<1>3. UNION {c.adds: c \in BlinkCalls} = {}
  BY SMT DEF BlinkCalls, Call
<1>4. UNION {c.adds: c \in MmapCalls} = {}
  BY SMT DEF MmapCalls, Call, KmallocCall, VmallocCall
<1>5. UNION {c.adds: c \in StaticCalls} = {"pending"}
  BY SMT DEF StaticCalls, Call
<1>6. UNION {c.adds: c \in DynamicCalls} = {"pending"}
  BY SMT DEF DynamicCalls, Call
<1>7. UNION {c.adds: c \in Block5Calls} = {}
  BY SMT DEF Block5Calls, Call
<1>8. UNION {c.adds: c \in Block26Calls} = {}
  BY SMT DEF Block26Calls, Call
<1>9. UNION {c.adds: c \in PciNetCalls} = {}
  BY SMT DEF PciNetCalls, Call
<1>10. UNION {c.adds: c \in UsbNetCalls} = {}
  BY SMT DEF UsbNetCalls, Call
<1>11. UNION {c.adds: c \in RegsCalls} = {}
  BY SMT DEF RegsCalls, Call
<1>12. QED
  BY <1>0, <1>1, <1>2, <1>3, <1>4, <1>5, <1>6, <1>7, <1>8, <1>9, <1>10, <1>11

LEMMA PciSequences ==
  /\ PciBars = <<"mwi", "enabled">>
  /\ PciReleased = <<"ioport", "iomem", "mwi", "enabled">>
  /\ PciUnmapped = <<"iomap", "ioport", "iomem", "mwi", "enabled">>
  /\ <<"netdev">> \o PciUnmapped = <<"netdev", "iomap", "ioport", "iomem", "mwi", "enabled">>
<1>1. PciBars = <<"mwi", "enabled">>
  BY DEF PciBars
<1> DEFINE S == {"netdev", "iomap", "ioport", "iomem", "mwi", "enabled"}
<1>2. PciReleased = <<"ioport", "iomem", "mwi", "enabled">>
  <2>1. PciReleased \in Seq(S) /\ <<"ioport", "iomem", "mwi", "enabled">> \in Seq(S)
    BY <1>1, SMT DEF PciReleased
  <2>2. Len(PciReleased) = 4 /\ \A i \in 1..4:
          PciReleased[i] = <<"ioport", "iomem", "mwi", "enabled">>[i]
    BY <1>1, SMT DEF PciReleased
  <2>3. QED
    BY <2>1, <2>2, SeqEqual
<1>3. PciUnmapped = <<"iomap", "ioport", "iomem", "mwi", "enabled">>
  <2>1. PciUnmapped \in Seq(S) /\ <<"iomap", "ioport", "iomem", "mwi", "enabled">> \in Seq(S)
    BY <1>2, SMT DEF PciUnmapped
  <2>2. Len(PciUnmapped) = 5
        /\ \A i \in 1..5: PciUnmapped[i] = <<"iomap", "ioport", "iomem", "mwi", "enabled">>[i]
    BY <1>2, SMT DEF PciUnmapped
  <2>3. QED
    BY <2>1, <2>2, SeqEqual
<1>4. <<"netdev">> \o PciUnmapped = <<"netdev", "iomap", "ioport", "iomem", "mwi", "enabled">>
  <2>1. /\ <<"netdev">> \o PciUnmapped \in Seq(S)
       /\ <<"netdev", "iomap", "ioport", "iomem", "mwi", "enabled">> \in Seq(S)
    BY <1>3, SMT
  <2>2. Len(<<"netdev">> \o PciUnmapped) = 6
        /\ \A i \in 1..6: (<<"netdev">> \o PciUnmapped)[i]
                            = <<"netdev", "iomap", "ioport", "iomem", "mwi", "enabled">>[i]
    BY <1>3, SMT
  <2>3. QED
    BY <2>1, <2>2, SeqEqual
<1>5. QED
  BY <1>1, <1>2, <1>3, <1>4

LEMMA ExitSequences ==
  /\ MmapExit = <<"cdev", "device", "class", "proc", "kmem", "vmem">>
  /\ AtomicExit = <<"thread1", "thread2", "device", "class", "cdev", "region">>
  /\ HrtimerExit = <<"hrtimer", "device", "class", "cdev", "region">>
  /\ IrqExit = <<"irq", "device", "class", "cdev", "region">>
  /\ StaticExit = <<"pending", "irq", "device", "class", "cdev", "region">>
  /\ DynamicExit = <<"pending", "tasklet", "irq", "device", "class", "cdev", "region">>
  /\ PciTemplateExit = <<"registered", "netdev", "iomap", "ioport", "iomem", "mwi", "enabled">>
<1>1. MmapExit = <<"cdev", "device", "class", "proc", "kmem", "vmem">>
  <2>1. /\ MmapExit \in Seq(Things)
       /\ <<"cdev", "device", "class", "proc", "kmem", "vmem">> \in Seq(Things)
    BY SMT DEF MmapExit, KmallocGivesBack, VmallocGivesBack, Things
  <2>2. Len(MmapExit) = 6 /\ \A i \in 1..6:
          MmapExit[i] = <<"cdev", "device", "class", "proc", "kmem", "vmem">>[i]
    BY SMT DEF MmapExit, KmallocGivesBack, VmallocGivesBack, Things
  <2>3. QED
    BY <2>1, <2>2, SeqEqual
<1>2. AtomicExit = <<"thread1", "thread2", "device", "class", "cdev", "region">>
  <2>1. /\ AtomicExit \in Seq(Things)
       /\ <<"thread1", "thread2", "device", "class", "cdev", "region">> \in Seq(Things)
    BY SMT DEF AtomicExit, EtxExit, Things
  <2>2. Len(AtomicExit) = 6 /\ \A i \in 1..6:
          AtomicExit[i] = <<"thread1", "thread2", "device", "class", "cdev", "region">>[i]
    BY SMT DEF AtomicExit, EtxExit, Things
  <2>3. QED
    BY <2>1, <2>2, SeqEqual
<1>3. HrtimerExit = <<"hrtimer", "device", "class", "cdev", "region">>
  <2>1. /\ HrtimerExit \in Seq(Things)
       /\ <<"hrtimer", "device", "class", "cdev", "region">> \in Seq(Things)
    BY SMT DEF HrtimerExit, EtxExit, Things
  <2>2. Len(HrtimerExit) = 5 /\ \A i \in 1..5:
          HrtimerExit[i] = <<"hrtimer", "device", "class", "cdev", "region">>[i]
    BY SMT DEF HrtimerExit, EtxExit, Things
  <2>3. QED
    BY <2>1, <2>2, SeqEqual
<1>4. IrqExit = <<"irq", "device", "class", "cdev", "region">>
  <2>1. /\ IrqExit \in Seq(Things)
       /\ <<"irq", "device", "class", "cdev", "region">> \in Seq(Things)
    BY SMT DEF IrqExit, EtxExit, Things
  <2>2. Len(IrqExit) = 5 /\ \A i \in 1..5:
          IrqExit[i] = <<"irq", "device", "class", "cdev", "region">>[i]
    BY SMT DEF IrqExit, EtxExit, Things
  <2>3. QED
    BY <2>1, <2>2, SeqEqual
<1>5. StaticExit = <<"pending", "irq", "device", "class", "cdev", "region">>
  <2>1. /\ StaticExit \in Seq(Things)
       /\ <<"pending", "irq", "device", "class", "cdev", "region">> \in Seq(Things)
    BY SMT DEF StaticExit, EtxExit, Things
  <2>2. Len(StaticExit) = 6 /\ \A i \in 1..6:
          StaticExit[i] = <<"pending", "irq", "device", "class", "cdev", "region">>[i]
    BY SMT DEF StaticExit, EtxExit, Things
  <2>3. QED
    BY <2>1, <2>2, SeqEqual
<1>6. DynamicExit = <<"pending", "tasklet", "irq", "device", "class", "cdev", "region">>
  <2>1. /\ DynamicExit \in Seq(Things)
       /\ <<"pending", "tasklet", "irq", "device", "class", "cdev", "region">> \in Seq(Things)
    BY SMT DEF DynamicExit, EtxExit, Things
  <2>2. Len(DynamicExit) = 7 /\ \A i \in 1..7:
          DynamicExit[i] = <<"pending", "tasklet", "irq", "device", "class", "cdev", "region">>[i]
    BY SMT DEF DynamicExit, EtxExit, Things
  <2>3. QED
    BY <2>1, <2>2, SeqEqual
<1>7. PciTemplateExit = <<"registered", "netdev", "iomap", "ioport", "iomem", "mwi", "enabled">>
  <2>1. /\ PciTemplateExit \in Seq(Things)
       /\ <<"registered", "netdev", "iomap", "ioport", "iomem", "mwi", "enabled">> \in Seq(Things)
    BY PciSequences, SMT DEF PciTemplateExit, Things
  <2>2. Len(PciTemplateExit) = 7 /\ \A i \in 1..7:
          PciTemplateExit[i] =
            <<"registered", "netdev", "iomap", "ioport", "iomem", "mwi", "enabled">>[i]
    BY PciSequences, SMT DEF PciTemplateExit, Things
  <2>3. QED
    BY <2>1, <2>2, SeqEqual
<1>8. QED
  BY <1>1, <1>2, <1>3, <1>4, <1>5, <1>6, <1>7

LEMMA AddableAdded ==
  /\ \A k: Addable(k) \subseteq Added
  /\ Added = {} => \A k: Addable(k) = {}
<1>1. \A k: Addable(k) \subseteq Added
  BY Zenon DEF Addable, Added
<1>2. QED
  BY <1>1, Zenon

LEMMA OnTopPairs ==
  \A s, r: <<s, r>> \in OnTop <=>
    \/ s = "cdev" /\ r = "region"
    \/ s = "device" /\ r = "region"
    \/ s = "device" /\ r = "class"
    \/ s = "disk" /\ r = "gendisk"
    \/ s = "registered" /\ r = "netdev"
    \/ s = "iomap" /\ r = "iomem"
BY SMT DEF OnTop

LEMMA Lists ==
  /\ InOrder(<<>>)
  /\ Listed(<<>>) = {}
  /\ InOrder(<<"region">>)
  /\ Listed(<<"region">>) = {"region"}
  /\ InOrder(<<"cdev">>)
  /\ Listed(<<"cdev">>) = {"cdev"}
  /\ InOrder(<<"misc">>)
  /\ Listed(<<"misc">>) = {"misc"}
  /\ InOrder(<<"major">>)
  /\ Listed(<<"major">>) = {"major"}
  /\ InOrder(<<"enabled">>)
  /\ Listed(<<"enabled">>) = {"enabled"}
  /\ InOrder(<<"netdev">>)
  /\ Listed(<<"netdev">>) = {"netdev"}
  /\ InOrder(<<"proc">>)
  /\ Listed(<<"proc">>) = {"proc"}
  /\ InOrder(<<"cdev", "region">>)
  /\ Listed(<<"cdev", "region">>) = {"cdev", "region"}
  /\ InOrder(<<"cdev", "device">>)
  /\ Listed(<<"cdev", "device">>) = {"cdev", "device"}
  /\ InOrder(<<"region", "cdev">>)
  /\ Listed(<<"region", "cdev">>) = {"region", "cdev"}
  /\ InOrder(<<"major", "dev">>)
  /\ Listed(<<"major", "dev">>) = {"major", "dev"}
  /\ InOrder(<<"mwi", "enabled">>)
  /\ Listed(<<"mwi", "enabled">>) = {"mwi", "enabled"}
  /\ InOrder(<<"ioport", "iomem", "mwi", "enabled">>)
  /\ Listed(<<"ioport", "iomem", "mwi", "enabled">>) = {"ioport", "iomem", "mwi", "enabled"}
  /\ InOrder(<<"cdev", "region", "device", "class">>)
  /\ Listed(<<"cdev", "region", "device", "class">>) = {"cdev", "region", "device", "class"}
  /\ InOrder(<<"irq", "class", "region", "cdev">>)
  /\ Listed(<<"irq", "class", "region", "cdev">>) = {"irq", "class", "region", "cdev"}
  /\ InOrder(<<"iomap", "ioport", "iomem", "mwi", "enabled">>)
  /\ Listed(<<"iomap", "ioport", "iomem", "mwi", "enabled">>) =
       {"iomap", "ioport", "iomem", "mwi", "enabled"}
  /\ InOrder(<<"kbuffer", "cdev", "region", "device", "class">>)
  /\ Listed(<<"kbuffer", "cdev", "region", "device", "class">>) =
       {"kbuffer", "cdev", "region", "device", "class"}
  /\ InOrder(<<"armed", "cdev", "device", "class", "region">>)
  /\ Listed(<<"armed", "cdev", "device", "class", "region">>) =
       {"armed", "cdev", "device", "class", "region"}
  /\ InOrder(<<"hrtimer", "device", "class", "cdev", "region">>)
  /\ Listed(<<"hrtimer", "device", "class", "cdev", "region">>) =
       {"hrtimer", "device", "class", "cdev", "region"}
  /\ InOrder(<<"irq", "device", "class", "cdev", "region">>)
  /\ Listed(<<"irq", "device", "class", "cdev", "region">>) =
       {"irq", "device", "class", "cdev", "region"}
  /\ InOrder(<<"gendisk", "disk", "data", "queue", "major">>)
  /\ Listed(<<"gendisk", "disk", "data", "queue", "major">>) =
       {"gendisk", "disk", "data", "queue", "major"}
  /\ InOrder(<<"netdev", "iomap", "ioport", "iomem", "mwi", "enabled">>)
  /\ Listed(<<"netdev", "iomap", "ioport", "iomem", "mwi", "enabled">>) =
       {"netdev", "iomap", "ioport", "iomem", "mwi", "enabled"}
  /\ InOrder(<<"armed", "queue", "cdev", "device", "class", "region">>)
  /\ Listed(<<"armed", "queue", "cdev", "device", "class", "region">>) =
       {"armed", "queue", "cdev", "device", "class", "region"}
  /\ InOrder(<<"cdev", "device", "class", "proc", "kmem", "vmem">>)
  /\ Listed(<<"cdev", "device", "class", "proc", "kmem", "vmem">>) =
       {"cdev", "device", "class", "proc", "kmem", "vmem"}
  /\ InOrder(<<"thread1", "thread2", "device", "class", "cdev", "region">>)
  /\ Listed(<<"thread1", "thread2", "device", "class", "cdev", "region">>) =
       {"thread1", "thread2", "device", "class", "cdev", "region"}
  /\ InOrder(<<"pending", "irq", "device", "class", "cdev", "region">>)
  /\ Listed(<<"pending", "irq", "device", "class", "cdev", "region">>) =
       {"pending", "irq", "device", "class", "cdev", "region"}
  /\ InOrder(<<"disk", "gendisk", "queue", "data", "major", "dev">>)
  /\ Listed(<<"disk", "gendisk", "queue", "data", "major", "dev">>) =
       {"disk", "gendisk", "queue", "data", "major", "dev"}
  /\ InOrder(<<"registered", "netdev", "iomap", "ioport", "iomem", "mwi", "enabled">>)
  /\ Listed(<<"registered", "netdev", "iomap", "ioport", "iomem", "mwi", "enabled">>) =
       {"registered", "netdev", "iomap", "ioport", "iomem", "mwi", "enabled"}
  /\ InOrder(<<"pending", "tasklet", "irq", "device", "class", "cdev", "region">>)
  /\ Listed(<<"pending", "tasklet", "irq", "device", "class", "cdev", "region">>) =
       {"pending", "tasklet", "irq", "device", "class", "cdev", "region"}
<1>1. InOrder(<<>>)
  BY SMT DEF InOrder, Things
<1>2. Listed(<<>>) = {}
  BY SMT DEF Listed
<1>3. InOrder(<<"region">>)
  BY SMT DEF InOrder, Things
<1>4. Listed(<<"region">>) = {"region"}
  BY SMT DEF Listed
<1>5. InOrder(<<"cdev">>)
  BY SMT DEF InOrder, Things
<1>6. Listed(<<"cdev">>) = {"cdev"}
  BY SMT DEF Listed
<1>7. InOrder(<<"misc">>)
  BY SMT DEF InOrder, Things
<1>8. Listed(<<"misc">>) = {"misc"}
  BY SMT DEF Listed
<1>9. InOrder(<<"major">>)
  BY SMT DEF InOrder, Things
<1>10. Listed(<<"major">>) = {"major"}
  BY SMT DEF Listed
<1>11. InOrder(<<"enabled">>)
  BY SMT DEF InOrder, Things
<1>12. Listed(<<"enabled">>) = {"enabled"}
  BY SMT DEF Listed
<1>13. InOrder(<<"netdev">>)
  BY SMT DEF InOrder, Things
<1>14. Listed(<<"netdev">>) = {"netdev"}
  BY SMT DEF Listed
<1>15. InOrder(<<"proc">>)
  BY SMT DEF InOrder, Things
<1>16. Listed(<<"proc">>) = {"proc"}
  BY SMT DEF Listed
<1>17. InOrder(<<"cdev", "region">>)
  BY SMT DEF InOrder, Things
<1>18. Listed(<<"cdev", "region">>) = {"cdev", "region"}
  BY SMT DEF Listed
<1>19. InOrder(<<"cdev", "device">>)
  BY SMT DEF InOrder, Things
<1>20. Listed(<<"cdev", "device">>) = {"cdev", "device"}
  BY SMT DEF Listed
<1>21. InOrder(<<"region", "cdev">>)
  BY SMT DEF InOrder, Things
<1>22. Listed(<<"region", "cdev">>) = {"region", "cdev"}
  BY SMT DEF Listed
<1>23. InOrder(<<"major", "dev">>)
  BY SMT DEF InOrder, Things
<1>24. Listed(<<"major", "dev">>) = {"major", "dev"}
  BY SMT DEF Listed
<1>25. InOrder(<<"mwi", "enabled">>)
  BY SMT DEF InOrder, Things
<1>26. Listed(<<"mwi", "enabled">>) = {"mwi", "enabled"}
  BY SMT DEF Listed
<1>27. InOrder(<<"ioport", "iomem", "mwi", "enabled">>)
  BY SMT DEF InOrder, Things
<1>28. Listed(<<"ioport", "iomem", "mwi", "enabled">>) = {"ioport", "iomem", "mwi", "enabled"}
  BY SMT DEF Listed
<1>29. InOrder(<<"cdev", "region", "device", "class">>)
  BY SMT DEF InOrder, Things
<1>30. Listed(<<"cdev", "region", "device", "class">>) = {"cdev", "region", "device", "class"}
  BY SMT DEF Listed
<1>31. InOrder(<<"irq", "class", "region", "cdev">>)
  BY SMT DEF InOrder, Things
<1>32. Listed(<<"irq", "class", "region", "cdev">>) = {"irq", "class", "region", "cdev"}
  BY SMT DEF Listed
<1>33. InOrder(<<"iomap", "ioport", "iomem", "mwi", "enabled">>)
  BY SMT DEF InOrder, Things
<1>34. Listed(<<"iomap", "ioport", "iomem", "mwi", "enabled">>) =
         {"iomap", "ioport", "iomem", "mwi", "enabled"}
  BY SMT DEF Listed
<1>35. InOrder(<<"kbuffer", "cdev", "region", "device", "class">>)
  BY SMT DEF InOrder, Things
<1>36. Listed(<<"kbuffer", "cdev", "region", "device", "class">>) =
         {"kbuffer", "cdev", "region", "device", "class"}
  BY SMT DEF Listed
<1>37. InOrder(<<"armed", "cdev", "device", "class", "region">>)
  BY SMT DEF InOrder, Things
<1>38. Listed(<<"armed", "cdev", "device", "class", "region">>) =
         {"armed", "cdev", "device", "class", "region"}
  BY SMT DEF Listed
<1>39. InOrder(<<"hrtimer", "device", "class", "cdev", "region">>)
  BY SMT DEF InOrder, Things
<1>40. Listed(<<"hrtimer", "device", "class", "cdev", "region">>) =
         {"hrtimer", "device", "class", "cdev", "region"}
  BY SMT DEF Listed
<1>41. InOrder(<<"irq", "device", "class", "cdev", "region">>)
  BY SMT DEF InOrder, Things
<1>42. Listed(<<"irq", "device", "class", "cdev", "region">>) =
         {"irq", "device", "class", "cdev", "region"}
  BY SMT DEF Listed
<1>43. InOrder(<<"gendisk", "disk", "data", "queue", "major">>)
  BY SMT DEF InOrder, Things
<1>44. Listed(<<"gendisk", "disk", "data", "queue", "major">>) =
         {"gendisk", "disk", "data", "queue", "major"}
  BY SMT DEF Listed
<1>45. InOrder(<<"netdev", "iomap", "ioport", "iomem", "mwi", "enabled">>)
  BY SMT DEF InOrder, Things
<1>46. Listed(<<"netdev", "iomap", "ioport", "iomem", "mwi", "enabled">>) =
         {"netdev", "iomap", "ioport", "iomem", "mwi", "enabled"}
  BY SMT DEF Listed
<1>47. InOrder(<<"armed", "queue", "cdev", "device", "class", "region">>)
  BY SMT DEF InOrder, Things
<1>48. Listed(<<"armed", "queue", "cdev", "device", "class", "region">>) =
         {"armed", "queue", "cdev", "device", "class", "region"}
  BY SMT DEF Listed
<1>49. InOrder(<<"cdev", "device", "class", "proc", "kmem", "vmem">>)
  BY SMT DEF InOrder, Things
<1>50. Listed(<<"cdev", "device", "class", "proc", "kmem", "vmem">>) =
         {"cdev", "device", "class", "proc", "kmem", "vmem"}
  BY SMT DEF Listed
<1>51. InOrder(<<"thread1", "thread2", "device", "class", "cdev", "region">>)
  BY SMT DEF InOrder, Things
<1>52. Listed(<<"thread1", "thread2", "device", "class", "cdev", "region">>) =
         {"thread1", "thread2", "device", "class", "cdev", "region"}
  BY SMT DEF Listed
<1>53. InOrder(<<"pending", "irq", "device", "class", "cdev", "region">>)
  BY SMT DEF InOrder, Things
<1>54. Listed(<<"pending", "irq", "device", "class", "cdev", "region">>) =
         {"pending", "irq", "device", "class", "cdev", "region"}
  BY SMT DEF Listed
<1>55. InOrder(<<"disk", "gendisk", "queue", "data", "major", "dev">>)
  BY SMT DEF InOrder, Things
<1>56. Listed(<<"disk", "gendisk", "queue", "data", "major", "dev">>) =
         {"disk", "gendisk", "queue", "data", "major", "dev"}
  BY SMT DEF Listed
<1>57. InOrder(<<"registered", "netdev", "iomap", "ioport", "iomem", "mwi", "enabled">>)
  BY SMT DEF InOrder, Things
<1>58. Listed(<<"registered", "netdev", "iomap", "ioport", "iomem", "mwi", "enabled">>) =
         {"registered", "netdev", "iomap", "ioport", "iomem", "mwi", "enabled"}
  BY SMT DEF Listed
<1>59. InOrder(<<"pending", "tasklet", "irq", "device", "class", "cdev", "region">>)
  BY SMT DEF InOrder, Things
<1>60. Listed(<<"pending", "tasklet", "irq", "device", "class", "cdev", "region">>) =
         {"pending", "tasklet", "irq", "device", "class", "cdev", "region"}
  BY SMT DEF Listed
<1>61. QED
  BY <1>1, <1>2, <1>3, <1>4, <1>5, <1>6, <1>7, <1>8, <1>9, <1>10, <1>11, <1>12,
     <1>13, <1>14, <1>15, <1>16, <1>17, <1>18, <1>19, <1>20, <1>21, <1>22, <1>23, <1>24,
     <1>25, <1>26, <1>27, <1>28, <1>29, <1>30, <1>31, <1>32, <1>33, <1>34, <1>35, <1>36,
     <1>37, <1>38, <1>39, <1>40, <1>41, <1>42, <1>43, <1>44, <1>45, <1>46, <1>47, <1>48,
     <1>49, <1>50, <1>51, <1>52, <1>53, <1>54, <1>55, <1>56, <1>57, <1>58, <1>59, <1>60

\* In the lists, what stands on something goes before it.
LEMMA Orders ==
  /\ Precedes("cdev", "region", <<"cdev", "region">>)
  /\ Precedes("device", "class", <<"cdev", "region", "device", "class">>)
  /\ Precedes("cdev", "region", <<"armed", "cdev", "device", "class", "region">>)
  /\ Precedes("device", "class", <<"armed", "cdev", "device", "class", "region">>)
  /\ Precedes("device", "region", <<"armed", "cdev", "device", "class", "region">>)
  /\ Precedes("cdev", "region", <<"hrtimer", "device", "class", "cdev", "region">>)
  /\ Precedes("device", "class", <<"hrtimer", "device", "class", "cdev", "region">>)
  /\ Precedes("device", "region", <<"hrtimer", "device", "class", "cdev", "region">>)
  /\ Precedes("iomap", "iomem", <<"iomap", "ioport", "iomem", "mwi", "enabled">>)
  /\ Precedes("cdev", "region", <<"irq", "device", "class", "cdev", "region">>)
  /\ Precedes("device", "class", <<"irq", "device", "class", "cdev", "region">>)
  /\ Precedes("device", "region", <<"irq", "device", "class", "cdev", "region">>)
  /\ Precedes("device", "class", <<"kbuffer", "cdev", "region", "device", "class">>)
  /\ Precedes("cdev", "region", <<"armed", "queue", "cdev", "device", "class", "region">>)
  /\ Precedes("device", "class", <<"armed", "queue", "cdev", "device", "class", "region">>)
  /\ Precedes("device", "region", <<"armed", "queue", "cdev", "device", "class", "region">>)
  /\ Precedes("device", "class", <<"cdev", "device", "class", "proc", "kmem", "vmem">>)
  /\ Precedes("disk", "gendisk", <<"disk", "gendisk", "queue", "data", "major", "dev">>)
  /\ Precedes("iomap", "iomem", <<"netdev", "iomap", "ioport", "iomem", "mwi", "enabled">>)
  /\ Precedes("cdev", "region", <<"pending", "irq", "device", "class", "cdev", "region">>)
  /\ Precedes("device", "class", <<"pending", "irq", "device", "class", "cdev", "region">>)
  /\ Precedes("device", "region", <<"pending", "irq", "device", "class", "cdev", "region">>)
  /\ Precedes("cdev", "region", <<"thread1", "thread2", "device", "class", "cdev", "region">>)
  /\ Precedes("device", "class", <<"thread1", "thread2", "device", "class", "cdev", "region">>)
  /\ Precedes("device", "region", <<"thread1", "thread2", "device", "class", "cdev", "region">>)
  /\ Precedes("cdev", "region",
         <<"pending", "tasklet", "irq", "device", "class", "cdev", "region">>)
  /\ Precedes("device", "class",
         <<"pending", "tasklet", "irq", "device", "class", "cdev", "region">>)
  /\ Precedes("device", "region",
         <<"pending", "tasklet", "irq", "device", "class", "cdev", "region">>)
  /\ Precedes("iomap", "iomem",
         <<"registered", "netdev", "iomap", "ioport", "iomem", "mwi", "enabled">>)
  /\ Precedes("registered", "netdev",
         <<"registered", "netdev", "iomap", "ioport", "iomem", "mwi", "enabled">>)
<1>1. Precedes("cdev", "region", <<"cdev", "region">>)
  BY 1 \in 1..(2 - 1), SMT DEF Precedes
<1>2. Precedes("device", "class", <<"cdev", "region", "device", "class">>)
  BY 3 \in 1..(4 - 1), SMT DEF Precedes
<1>3. Precedes("cdev", "region", <<"armed", "cdev", "device", "class", "region">>)
  BY 2 \in 1..(5 - 1), SMT DEF Precedes
<1>4. Precedes("device", "class", <<"armed", "cdev", "device", "class", "region">>)
  BY 3 \in 1..(4 - 1), SMT DEF Precedes
<1>5. Precedes("device", "region", <<"armed", "cdev", "device", "class", "region">>)
  BY 3 \in 1..(5 - 1), SMT DEF Precedes
<1>6. Precedes("cdev", "region", <<"hrtimer", "device", "class", "cdev", "region">>)
  BY 4 \in 1..(5 - 1), SMT DEF Precedes
<1>7. Precedes("device", "class", <<"hrtimer", "device", "class", "cdev", "region">>)
  BY 2 \in 1..(3 - 1), SMT DEF Precedes
<1>8. Precedes("device", "region", <<"hrtimer", "device", "class", "cdev", "region">>)
  BY 2 \in 1..(5 - 1), SMT DEF Precedes
<1>9. Precedes("iomap", "iomem", <<"iomap", "ioport", "iomem", "mwi", "enabled">>)
  BY 1 \in 1..(3 - 1), SMT DEF Precedes
<1>10. Precedes("cdev", "region", <<"irq", "device", "class", "cdev", "region">>)
  BY 4 \in 1..(5 - 1), SMT DEF Precedes
<1>11. Precedes("device", "class", <<"irq", "device", "class", "cdev", "region">>)
  BY 2 \in 1..(3 - 1), SMT DEF Precedes
<1>12. Precedes("device", "region", <<"irq", "device", "class", "cdev", "region">>)
  BY 2 \in 1..(5 - 1), SMT DEF Precedes
<1>13. Precedes("device", "class", <<"kbuffer", "cdev", "region", "device", "class">>)
  BY 4 \in 1..(5 - 1), SMT DEF Precedes
<1>14. Precedes("cdev", "region", <<"armed", "queue", "cdev", "device", "class", "region">>)
  BY 3 \in 1..(6 - 1), SMT DEF Precedes
<1>15. Precedes("device", "class", <<"armed", "queue", "cdev", "device", "class", "region">>)
  BY 4 \in 1..(5 - 1), SMT DEF Precedes
<1>16. Precedes("device", "region", <<"armed", "queue", "cdev", "device", "class", "region">>)
  BY 4 \in 1..(6 - 1), SMT DEF Precedes
<1>17. Precedes("device", "class", <<"cdev", "device", "class", "proc", "kmem", "vmem">>)
  BY 2 \in 1..(3 - 1), SMT DEF Precedes
<1>18. Precedes("disk", "gendisk", <<"disk", "gendisk", "queue", "data", "major", "dev">>)
  BY 1 \in 1..(2 - 1), SMT DEF Precedes
<1>19. Precedes("iomap", "iomem", <<"netdev", "iomap", "ioport", "iomem", "mwi", "enabled">>)
  BY 2 \in 1..(4 - 1), SMT DEF Precedes
<1>20. Precedes("cdev", "region", <<"pending", "irq", "device", "class", "cdev", "region">>)
  BY 5 \in 1..(6 - 1), SMT DEF Precedes
<1>21. Precedes("device", "class", <<"pending", "irq", "device", "class", "cdev", "region">>)
  BY 3 \in 1..(4 - 1), SMT DEF Precedes
<1>22. Precedes("device", "region", <<"pending", "irq", "device", "class", "cdev", "region">>)
  BY 3 \in 1..(6 - 1), SMT DEF Precedes
<1>23. Precedes("cdev", "region", <<"thread1", "thread2", "device", "class", "cdev", "region">>)
  BY 5 \in 1..(6 - 1), SMT DEF Precedes
<1>24. Precedes("device", "class",
           <<"thread1", "thread2", "device", "class", "cdev", "region">>)
  BY 3 \in 1..(4 - 1), SMT DEF Precedes
<1>25. Precedes("device", "region",
           <<"thread1", "thread2", "device", "class", "cdev", "region">>)
  BY 3 \in 1..(6 - 1), SMT DEF Precedes
<1>26. Precedes("cdev", "region",
           <<"pending", "tasklet", "irq", "device", "class", "cdev", "region">>)
  BY 6 \in 1..(7 - 1), SMT DEF Precedes
<1>27. Precedes("device", "class",
           <<"pending", "tasklet", "irq", "device", "class", "cdev", "region">>)
  BY 4 \in 1..(5 - 1), SMT DEF Precedes
<1>28. Precedes("device", "region",
           <<"pending", "tasklet", "irq", "device", "class", "cdev", "region">>)
  BY 4 \in 1..(7 - 1), SMT DEF Precedes
<1>29. Precedes("iomap", "iomem",
           <<"registered", "netdev", "iomap", "ioport", "iomem", "mwi", "enabled">>)
  BY 3 \in 1..(5 - 1), SMT DEF Precedes
<1>30. Precedes("registered", "netdev",
           <<"registered", "netdev", "iomap", "ioport", "iomem", "mwi", "enabled">>)
  BY 1 \in 1..(2 - 1), SMT DEF Precedes
<1>31. QED
  BY <1>1, <1>2, <1>3, <1>4, <1>5, <1>6, <1>7, <1>8, <1>9, <1>10, <1>11, <1>12, <1>13,
     <1>14, <1>15, <1>16, <1>17, <1>18, <1>19, <1>20, <1>21, <1>22, <1>23, <1>24, <1>25,
     <1>26, <1>27, <1>28, <1>29, <1>30

(* The tables, module by module.                                           *)

LEMMA PollFits ==
  ASSUME drv = "poll"
  PROVE  Fits
<1>1. /\ Len(PollInit) = 4
      /\ PollInit[1] = Tested({"region"}, <<>>)
      /\ PollInit[2] = Tested({"cdev"}, <<"region">>)
      /\ PollInit[3] = Tested({"class"}, <<"cdev", "region">>)
      /\ PollInit[4] = Hoped({"device"})
  BY SMT DEF PollInit, CharInit
<1>2. /\ Setup[drv] = PollInit
      /\ Teardown[drv] = <<"cdev", "region", "device", "class">>
      /\ CallsOf(drv) = {}
      /\ LeftAnyway = {}
  BY SMT DEF Setup, Teardown, PollExit, CallsOf, Calls, LeftAnyway
<1>3. /\ Setup[drv][1].takes = {"region"} /\ Setup[drv][1].refusal = "seen"
      /\ Setup[drv][1].unwind = <<>>
      /\ LeftOut(Setup[drv][1].takes) = {}
  BY <1>1, <1>2, SMT DEF Tested, LeftOut, LeftOutFor
<1>4. /\ Setup[drv][2].takes = {"cdev"} /\ Setup[drv][2].refusal = "seen"
      /\ Setup[drv][2].unwind = <<"region">>
      /\ LeftOut(Setup[drv][2].takes) = {}
  BY <1>1, <1>2, SMT DEF Tested, LeftOut, LeftOutFor
<1>5. /\ Setup[drv][3].takes = {"class"} /\ Setup[drv][3].refusal = "seen"
      /\ Setup[drv][3].unwind = <<"cdev", "region">>
      /\ LeftOut(Setup[drv][3].takes) = {}
  BY <1>1, <1>2, SMT DEF Tested, LeftOut, LeftOutFor
<1>6. Setup[drv][4].takes = {"device"} /\ Setup[drv][4].refusal = "unseen"
  BY <1>1, <1>2, SMT DEF Hoped
<1>7. /\ Before(1) = {}
      /\ Before(2) = {"region"}
      /\ Before(3) = {"region", "cdev"}
      /\ Before(4) = {"region", "cdev", "class"}
      /\ Before(5) = {"region", "cdev", "class", "device"}
  BY <1>3, <1>4, <1>5, <1>6, BeforeSteps, SMT
<1>8. Added = {}
  BY <1>2, CallsAdd, Zenon DEF Added
<1>9. /\ InOrder(<<>>) /\ Listed(<<>>) = {}
      /\ InOrder(<<"region">>) /\ Listed(<<"region">>) = {"region"}
      /\ InOrder(<<"cdev", "region">>) /\ Listed(<<"cdev", "region">>) = {"cdev", "region"}
      /\ InOrder(<<"cdev", "region", "device", "class">>)
      /\ Listed(<<"cdev", "region", "device", "class">>) =
           {"cdev", "region", "device", "class"}
  BY Lists, Zenon
<1>10. Covers(1, Setup[drv][1].unwind, Setup[drv][1].takes)
  BY <1>2, <1>3, <1>7, <1>9, SMTT(30) DEF Covers, Lasting, Must, Follow, Complain
<1>11. Ordered(1, Setup[drv][1].unwind, Setup[drv][1].takes)
  BY <1>2, <1>7, <1>9, <1>3, OnTopPairs, SMTT(30) DEF Ordered
<1>12. Covers(2, Setup[drv][2].unwind, Setup[drv][2].takes)
  BY <1>2, <1>4, <1>7, <1>9, SMTT(30) DEF Covers, Lasting, Must, Follow, Complain
<1>13. Ordered(2, Setup[drv][2].unwind, Setup[drv][2].takes)
  BY <1>2, <1>7, <1>9, <1>4, OnTopPairs, SMTT(30) DEF Ordered
<1>14. Covers(3, Setup[drv][3].unwind, Setup[drv][3].takes)
  BY <1>2, <1>5, <1>7, <1>9, SMTT(30) DEF Covers, Lasting, Must, Follow, Complain
<1>15. Ordered(3, Setup[drv][3].unwind, Setup[drv][3].takes)
  BY <1>2, <1>7, <1>9, <1>5, OnTopPairs, SMTT(30) DEF Ordered, Excused
<1>16. LeftOut({}) = {}
  BY SMT DEF LeftOut
<1>17. Covers(5, Teardown[drv], {})
  BY <1>2, <1>7, <1>9, <1>16, SMTT(30) DEF Covers, Lasting, Must, Follow, Complain
<1>18. Ordered(5, Teardown[drv], {})
  <2>1. Precedes("device", "class", <<"cdev", "region", "device", "class">>)
    BY Orders, Zenon
  <2>2. QED
    BY <1>2, <1>7, <1>9, <2>1, OnTopPairs, SMTT(30) DEF Ordered, Excused
<1>19. Len(Setup[drv]) = 4
  BY <1>1, <1>2, Zenon
<1>20. Len(Setup[drv]) + 1 = 5
  BY <1>19, SMT
<1>21. CallsFit
  BY <1>20, <1>2, <1>7, <1>8, SMTT(30) DEF CallsFit, Pinning
<1>22. \A k: Addable(k) = {}
  BY <1>8, AddableAdded, Zenon
<1>23. Added \subseteq Listed(Teardown[drv]) \cap {"armed", "pending"}
  BY <1>2, <1>8, <1>9, SMT
<1>24. ASSUME NEW k \in 1..4, Setup[drv][k].refusal = "seen"
      PROVE  /\ Covers(k, Setup[drv][k].unwind, Setup[drv][k].takes)
             /\ Ordered(k, Setup[drv][k].unwind, Setup[drv][k].takes)
             /\ Addable(k) = {}
  <2>1. k = 1 \/ k = 2 \/ k = 3 \/ k = 4
    BY SMT
  <2>2. QED
    BY <2>1, <1>24, <1>6, <1>10, <1>12, <1>14, <1>11, <1>13, <1>15, <1>22, SMT
<1>25. QED
  BY <1>19, <1>20, <1>17, <1>21, <1>24, <1>18, <1>23, Zenon DEF Fits

LEMMA SimpleFits ==
  ASSUME drv = "simple"
  PROVE  Fits
<1>1. /\ Len(SimpleInit) = 5
      /\ SimpleInit[1] = Trusted({"kbuffer"})
      /\ SimpleInit[2] = Tested({"region"}, <<>>)
      /\ SimpleInit[3] = Tested({"cdev"}, <<"region">>)
      /\ SimpleInit[4] = Tested({"class"}, <<"cdev", "region">>)
      /\ SimpleInit[5] = Hoped({"device"})
  BY SMT DEF SimpleInit, CharInit
<1>2. /\ Setup[drv] = SimpleInit
      /\ Teardown[drv] = <<"kbuffer", "cdev", "region", "device", "class">>
      /\ CallsOf(drv) = SimpleCalls
      /\ LeftAnyway = {}
  BY SMT DEF Setup, Teardown, SimpleExit, CallsOf, Calls, LeftAnyway
<1>3. Setup[drv][1].takes = {"kbuffer"} /\ Setup[drv][1].refusal = "fatal"
  BY <1>1, <1>2, SMT DEF Trusted
<1>4. /\ Setup[drv][2].takes = {"region"} /\ Setup[drv][2].refusal = "seen"
      /\ Setup[drv][2].unwind = <<>>
  BY <1>1, <1>2, SMT DEF Tested
<1>5. /\ Setup[drv][3].takes = {"cdev"} /\ Setup[drv][3].refusal = "seen"
      /\ Setup[drv][3].unwind = <<"region">>
  BY <1>1, <1>2, SMT DEF Tested
<1>6. /\ Setup[drv][4].takes = {"class"} /\ Setup[drv][4].refusal = "seen"
      /\ Setup[drv][4].unwind = <<"cdev", "region">>
  BY <1>1, <1>2, SMT DEF Tested
<1>7. Setup[drv][5].takes = {"device"} /\ Setup[drv][5].refusal = "unseen"
  BY <1>1, <1>2, SMT DEF Hoped
<1>8. LeftOut(Setup[drv][2].takes) = {"kbuffer"}
  BY <1>4, SMT DEF LeftOut, LeftOutFor
<1>9. LeftOut(Setup[drv][3].takes) = {"kbuffer"}
  BY <1>5, SMT DEF LeftOut, LeftOutFor
<1>10. LeftOut(Setup[drv][4].takes) = {"kbuffer"}
  BY <1>6, SMT DEF LeftOut, LeftOutFor
<1>11. /\ Before(1) = {}
       /\ Before(2) = {"kbuffer"}
       /\ Before(3) = {"kbuffer", "region"}
       /\ Before(4) = {"kbuffer", "region", "cdev"}
       /\ Before(5) = {"kbuffer", "region", "cdev", "class"}
       /\ Before(6) = {"kbuffer", "region", "cdev", "class", "device"}
  BY <1>3, <1>4, <1>8, <1>5, <1>9, <1>6, <1>10, <1>7, BeforeSteps, SMT
<1>12. Added = {}
  BY <1>2, CallsAdd, Zenon DEF Added
<1>13. /\ InOrder(<<>>) /\ Listed(<<>>) = {}
       /\ InOrder(<<"region">>) /\ Listed(<<"region">>) = {"region"}
       /\ InOrder(<<"cdev", "region">>) /\ Listed(<<"cdev", "region">>) = {"cdev", "region"}
       /\ InOrder(<<"kbuffer", "cdev", "region", "device", "class">>)
       /\ Listed(<<"kbuffer", "cdev", "region", "device", "class">>) =
            {"kbuffer", "cdev", "region", "device", "class"}
  BY Lists, Zenon
<1>14. Covers(2, Setup[drv][2].unwind, Setup[drv][2].takes)
  BY <1>2, <1>4, <1>8, <1>11, <1>13, SMTT(30) DEF Covers, Lasting, Must, Follow, Complain
<1>15. Ordered(2, Setup[drv][2].unwind, Setup[drv][2].takes)
  BY <1>2, <1>11, <1>13, <1>4, OnTopPairs, SMTT(30) DEF Ordered
<1>16. Covers(3, Setup[drv][3].unwind, Setup[drv][3].takes)
  BY <1>2, <1>5, <1>9, <1>11, <1>13, SMTT(30) DEF Covers, Lasting, Must, Follow, Complain
<1>17. Ordered(3, Setup[drv][3].unwind, Setup[drv][3].takes)
  BY <1>2, <1>11, <1>13, <1>5, OnTopPairs, SMTT(30) DEF Ordered
<1>18. Covers(4, Setup[drv][4].unwind, Setup[drv][4].takes)
  BY <1>2, <1>6, <1>10, <1>11, <1>13, SMTT(30) DEF Covers, Lasting, Must, Follow, Complain
<1>19. Ordered(4, Setup[drv][4].unwind, Setup[drv][4].takes)
  BY <1>2, <1>11, <1>13, <1>6, OnTopPairs, SMTT(30) DEF Ordered, Excused
<1>20. LeftOut({}) = {}
  BY SMT DEF LeftOut
<1>21. Covers(6, Teardown[drv], {})
  BY <1>2, <1>11, <1>13, <1>20, SMTT(30) DEF Covers, Lasting, Must, Follow, Complain
<1>22. Ordered(6, Teardown[drv], {})
  <2>1. Precedes("device", "class", <<"kbuffer", "cdev", "region", "device", "class">>)
    BY Orders, Zenon
  <2>2. QED
    BY <1>2, <1>11, <1>13, <2>1, OnTopPairs, SMTT(30) DEF Ordered, Excused
<1>23. Len(Setup[drv]) = 5
  BY <1>1, <1>2, Zenon
<1>24. Len(Setup[drv]) + 1 = 6
  BY <1>23, SMT
<1>25. CallsFit
  BY <1>24, <1>2, <1>11, <1>12, SMTT(30) DEF CallsFit, SimpleCalls, Call, Pinning
<1>26. \A k: Addable(k) = {}
  BY <1>12, AddableAdded, Zenon
<1>27. Added \subseteq Listed(Teardown[drv]) \cap {"armed", "pending"}
  BY <1>2, <1>12, <1>13, SMT
<1>28. ASSUME NEW k \in 1..5, Setup[drv][k].refusal = "seen"
      PROVE  /\ Covers(k, Setup[drv][k].unwind, Setup[drv][k].takes)
             /\ Ordered(k, Setup[drv][k].unwind, Setup[drv][k].takes)
             /\ Addable(k) = {}
  <2>1. k = 1 \/ k = 2 \/ k = 3 \/ k = 4 \/ k = 5
    BY SMT
  <2>2. QED
    BY <2>1, <1>28, <1>3, <1>7, <1>14, <1>16, <1>18, <1>15, <1>17, <1>19, <1>26, SMT
<1>29. QED
  BY <1>23, <1>24, <1>21, <1>25, <1>28, <1>22, <1>27, Zenon DEF Fits

LEMMA HelloplusFits ==
  ASSUME drv = "helloplus"
  PROVE  Fits
<1>1. /\ Len(HelloInit) = 5
      /\ HelloInit[1] = Tested({"region"}, <<>>)
      /\ HelloInit[2] = Tested({"cdev"}, <<"region">>)
      /\ HelloInit[3] = Tested({"class"}, <<"cdev", "region">>)
      /\ HelloInit[4] = Hoped({"device"})
      /\ HelloInit[5] = Sure({"timer"})
  BY SMT DEF HelloInit, CharInit
<1>2. /\ Setup[drv] = HelloInit
      /\ Teardown[drv] = <<"armed", "cdev", "device", "class", "region">>
      /\ CallsOf(drv) = HelloCalls
      /\ LeftAnyway = {}
  BY SMT DEF Setup, Teardown, HelloExit, CallsOf, Calls, LeftAnyway
<1>3. /\ Setup[drv][1].takes = {"region"} /\ Setup[drv][1].refusal = "seen"
      /\ Setup[drv][1].unwind = <<>>
      /\ LeftOut(Setup[drv][1].takes) = {}
  BY <1>1, <1>2, SMT DEF Tested, LeftOut, LeftOutFor
<1>4. /\ Setup[drv][2].takes = {"cdev"} /\ Setup[drv][2].refusal = "seen"
      /\ Setup[drv][2].unwind = <<"region">>
      /\ LeftOut(Setup[drv][2].takes) = {}
  BY <1>1, <1>2, SMT DEF Tested, LeftOut, LeftOutFor
<1>5. /\ Setup[drv][3].takes = {"class"} /\ Setup[drv][3].refusal = "seen"
      /\ Setup[drv][3].unwind = <<"cdev", "region">>
      /\ LeftOut(Setup[drv][3].takes) = {}
  BY <1>1, <1>2, SMT DEF Tested, LeftOut, LeftOutFor
<1>6. Setup[drv][4].takes = {"device"} /\ Setup[drv][4].refusal = "unseen"
  BY <1>1, <1>2, SMT DEF Hoped
<1>7. Setup[drv][5].takes = {"timer"} /\ Setup[drv][5].refusal = "none"
  BY <1>1, <1>2, SMT DEF Sure
<1>8. /\ Before(1) = {}
      /\ Before(2) = {"region"}
      /\ Before(3) = {"region", "cdev"}
      /\ Before(4) = {"region", "cdev", "class"}
      /\ Before(5) = {"region", "cdev", "class", "device"}
      /\ Before(6) = {"region", "cdev", "class", "device", "timer"}
  BY <1>3, <1>4, <1>5, <1>6, <1>7, BeforeSteps, SMT
<1>9. Added = {"armed"}
  BY <1>2, CallsAdd, Zenon DEF Added
<1>10. /\ InOrder(<<>>) /\ Listed(<<>>) = {}
       /\ InOrder(<<"region">>) /\ Listed(<<"region">>) = {"region"}
       /\ InOrder(<<"cdev", "region">>) /\ Listed(<<"cdev", "region">>) = {"cdev", "region"}
       /\ InOrder(<<"armed", "cdev", "device", "class", "region">>)
       /\ Listed(<<"armed", "cdev", "device", "class", "region">>) =
            {"armed", "cdev", "device", "class", "region"}
  BY Lists, Zenon
<1>11. Covers(1, Setup[drv][1].unwind, Setup[drv][1].takes)
  BY <1>2, <1>3, <1>8, <1>10, SMTT(30) DEF Covers, Lasting, Must, Follow, Complain
<1>12. Ordered(1, Setup[drv][1].unwind, Setup[drv][1].takes)
  BY <1>2, <1>8, <1>10, <1>3, OnTopPairs, SMTT(30) DEF Ordered
<1>13. Covers(2, Setup[drv][2].unwind, Setup[drv][2].takes)
  BY <1>2, <1>4, <1>8, <1>10, SMTT(30) DEF Covers, Lasting, Must, Follow, Complain
<1>14. Ordered(2, Setup[drv][2].unwind, Setup[drv][2].takes)
  BY <1>2, <1>8, <1>10, <1>4, OnTopPairs, SMTT(30) DEF Ordered
<1>15. Covers(3, Setup[drv][3].unwind, Setup[drv][3].takes)
  BY <1>2, <1>5, <1>8, <1>10, SMTT(30) DEF Covers, Lasting, Must, Follow, Complain
<1>16. Ordered(3, Setup[drv][3].unwind, Setup[drv][3].takes)
  <2>1. Precedes("cdev", "region", <<"cdev", "region">>)
    BY Orders, Zenon
  <2>2. QED
    BY <1>2, <1>8, <1>10, <1>5, <2>1, OnTopPairs, SMTT(30) DEF Ordered
<1>17. LeftOut({}) = {}
  BY SMT DEF LeftOut
<1>18. Covers(6, Teardown[drv], {})
  BY <1>2, <1>8, <1>10, <1>17, SMTT(30) DEF Covers, Lasting, Must, Follow, Complain
<1>19. Ordered(6, Teardown[drv], {})
  <2>1. /\ Precedes("cdev", "region", <<"armed", "cdev", "device", "class", "region">>)
       /\ Precedes("device", "region", <<"armed", "cdev", "device", "class", "region">>)
       /\ Precedes("device", "class", <<"armed", "cdev", "device", "class", "region">>)
    BY Orders, Zenon
  <2>2. QED
    BY <1>2, <1>8, <1>10, <2>1, OnTopPairs, SMTT(30) DEF Ordered
<1>20. Len(Setup[drv]) = 5
  BY <1>1, <1>2, Zenon
<1>21. Len(Setup[drv]) + 1 = 6
  BY <1>20, SMT
<1>22. CallsFit
  BY <1>21, <1>2, <1>8, <1>9, SMTT(30) DEF CallsFit, HelloCalls, Call, Pinning
<1>23. \A k \in {1, 2, 3}: Addable(k) = {}
  <2>1. \A k \in {1, 2, 3}: "timer" \notin Before(k)
    BY <1>8, SMT
  <2>2. \A c \in HelloCalls: c.adds = {} \/ "timer" \in {c.by} \cup c.uses
    BY SMT DEF HelloCalls, Call
  <2>3. ASSUME NEW k \in {1, 2, 3}, NEW x \in Addable(k) PROVE FALSE
    <3>1. PICK c \in HelloCalls: {c.by} \cup c.uses \subseteq Before(k) /\ x \in c.adds
      BY <1>2, Zenon DEF Addable
    <3>2. QED
      BY <2>1, <2>2, <3>1, Zenon
  <2>4. QED
    BY <2>3, Zenon
<1>24. Added \subseteq Listed(Teardown[drv]) \cap {"armed", "pending"}
  <2>1. Listed(Teardown[drv]) = {"armed", "cdev", "device", "class", "region"}
    BY <1>2, <1>10, Zenon
  <2>2. QED
    BY <1>9, <2>1, SMT
<1>25. ASSUME NEW k \in 1..5, Setup[drv][k].refusal = "seen"
      PROVE  /\ Covers(k, Setup[drv][k].unwind, Setup[drv][k].takes)
             /\ Ordered(k, Setup[drv][k].unwind, Setup[drv][k].takes)
             /\ Addable(k) = {}
  <2>1. k = 1 \/ k = 2 \/ k = 3 \/ k = 4 \/ k = 5
    BY SMT
  <2>2. QED
    BY <2>1, <1>25, <1>6, <1>7, <1>11, <1>13, <1>15, <1>12, <1>14, <1>16, <1>23, SMT
<1>26. QED
  BY <1>20, <1>21, <1>18, <1>22, <1>25, <1>19, <1>24, Zenon DEF Fits

LEMMA BlinkplusFits ==
  ASSUME drv = "blinkplus"
  PROVE  Fits
<1>1. /\ Len(BlinkInit) = 6
      /\ BlinkInit[1] = Tested({"region"}, <<>>)
      /\ BlinkInit[2] = Tested({"cdev"}, <<"region">>)
      /\ BlinkInit[3] = Tested({"class"}, <<"cdev", "region">>)
      /\ BlinkInit[4] = Hoped({"device"})
      /\ BlinkInit[5] = Sure({"armed"})
      /\ BlinkInit[6] = Tested({"queue"}, <<"cdev", "region">>)
  BY SMT DEF BlinkInit, CharInit
<1>2. /\ Setup[drv] = BlinkInit
      /\ Teardown[drv] = <<"armed", "queue", "cdev", "device", "class", "region">>
      /\ CallsOf(drv) = BlinkCalls
      /\ LeftAnyway = {}
  BY SMT DEF Setup, Teardown, BlinkExit, CallsOf, Calls, LeftAnyway
<1>3. /\ Setup[drv][1].takes = {"region"} /\ Setup[drv][1].refusal = "seen"
      /\ Setup[drv][1].unwind = <<>>
  BY <1>1, <1>2, SMT DEF Tested
<1>4. /\ Setup[drv][2].takes = {"cdev"} /\ Setup[drv][2].refusal = "seen"
      /\ Setup[drv][2].unwind = <<"region">>
  BY <1>1, <1>2, SMT DEF Tested
<1>5. /\ Setup[drv][3].takes = {"class"} /\ Setup[drv][3].refusal = "seen"
      /\ Setup[drv][3].unwind = <<"cdev", "region">>
  BY <1>1, <1>2, SMT DEF Tested
<1>6. Setup[drv][4].takes = {"device"} /\ Setup[drv][4].refusal = "unseen"
  BY <1>1, <1>2, SMT DEF Hoped
<1>7. Setup[drv][5].takes = {"armed"} /\ Setup[drv][5].refusal = "none"
  BY <1>1, <1>2, SMT DEF Sure
<1>8. /\ Setup[drv][6].takes = {"queue"} /\ Setup[drv][6].refusal = "seen"
      /\ Setup[drv][6].unwind = <<"cdev", "region">>
  BY <1>1, <1>2, SMT DEF Tested
<1>9. LeftOut(Setup[drv][1].takes) = {}
  BY <1>3, SMT DEF LeftOut, LeftOutFor
<1>10. LeftOut(Setup[drv][2].takes) = {}
  BY <1>4, SMT DEF LeftOut, LeftOutFor
<1>11. LeftOut(Setup[drv][3].takes) = {}
  BY <1>5, SMT DEF LeftOut, LeftOutFor
<1>12. LeftOut(Setup[drv][6].takes) = {"class", "device", "armed"}
  BY <1>8, SMT DEF LeftOut, LeftOutFor
<1>13. /\ Before(1) = {}
       /\ Before(2) = Before(1) \cup {"region"}
       /\ Before(3) = Before(2) \cup {"cdev"}
       /\ Before(4) = Before(3) \cup {"class"}
       /\ Before(5) = Before(4) \cup {"device"}
       /\ Before(6) = Before(5) \cup {"armed"}
       /\ Before(7) = Before(6) \cup {"queue"}
  BY <1>3, <1>9, <1>4, <1>10, <1>5, <1>11, <1>6, <1>7, <1>8, <1>12, BeforeSteps, Zenon
<1>14. /\ Before(1) = {}
       /\ Before(2) = {"region"}
       /\ Before(3) = {"region", "cdev"}
       /\ Before(4) = {"region", "cdev", "class"}
       /\ Before(5) = {"region", "cdev", "class", "device"}
       /\ Before(6) = {"region", "cdev", "class", "device", "armed"}
       /\ Before(7) = {"region", "cdev", "class", "device", "armed", "queue"}
  BY <1>13, SMT
<1>15. Added = {}
  BY <1>2, CallsAdd, Zenon DEF Added
<1>16. /\ InOrder(<<>>) /\ Listed(<<>>) = {}
       /\ InOrder(<<"region">>) /\ Listed(<<"region">>) = {"region"}
       /\ InOrder(<<"cdev", "region">>) /\ Listed(<<"cdev", "region">>) = {"cdev", "region"}
       /\ InOrder(<<"armed", "queue", "cdev", "device", "class", "region">>)
       /\ Listed(<<"armed", "queue", "cdev", "device", "class", "region">>) =
            {"armed", "queue", "cdev", "device", "class", "region"}
  BY Lists, Zenon
<1>17. Covers(1, Setup[drv][1].unwind, Setup[drv][1].takes)
  BY <1>2, <1>3, <1>9, <1>14, <1>16, SMTT(30) DEF Covers, Lasting, Must, Follow, Complain
<1>18. Ordered(1, Setup[drv][1].unwind, Setup[drv][1].takes)
  BY <1>2, <1>14, <1>16, <1>3, OnTopPairs, SMTT(30) DEF Ordered
<1>19. Covers(2, Setup[drv][2].unwind, Setup[drv][2].takes)
  BY <1>2, <1>4, <1>10, <1>14, <1>16, SMTT(30) DEF Covers, Lasting, Must, Follow, Complain
<1>20. Ordered(2, Setup[drv][2].unwind, Setup[drv][2].takes)
  BY <1>2, <1>14, <1>16, <1>4, OnTopPairs, SMTT(30) DEF Ordered
<1>21. Covers(3, Setup[drv][3].unwind, Setup[drv][3].takes)
  BY <1>2, <1>5, <1>11, <1>14, <1>16, SMTT(30) DEF Covers, Lasting, Must, Follow, Complain
<1>22. Ordered(3, Setup[drv][3].unwind, Setup[drv][3].takes)
  <2>1. Precedes("cdev", "region", <<"cdev", "region">>)
    BY Orders, Zenon
  <2>2. QED
    BY <1>2, <1>14, <1>16, <1>5, <2>1, OnTopPairs, SMTT(30) DEF Ordered
<1>23. Covers(6, Setup[drv][6].unwind, Setup[drv][6].takes)
  BY <1>2, <1>8, <1>12, <1>14, <1>16, SMTT(30) DEF Covers, Lasting, Must, Follow, Complain
<1>24. Ordered(6, Setup[drv][6].unwind, Setup[drv][6].takes)
  BY <1>2, <1>14, <1>16, <1>8, OnTopPairs, SMTT(30) DEF Ordered, Excused
<1>25. LeftOut({}) = {}
  BY SMT DEF LeftOut
<1>26. Covers(7, Teardown[drv], {})
  BY <1>2, <1>14, <1>16, <1>25, SMTT(30) DEF Covers, Lasting, Must, Follow, Complain
<1>27. Ordered(7, Teardown[drv], {})
  <2>1. /\ Precedes("cdev", "region", <<"armed", "queue", "cdev", "device", "class", "region">>)
       /\ Precedes("device", "region",
              <<"armed", "queue", "cdev", "device", "class", "region">>)
       /\ Precedes("device", "class", <<"armed", "queue", "cdev", "device", "class", "region">>)
    BY Orders, Zenon
  <2>2. QED
    BY <1>2, <1>14, <1>16, <2>1, OnTopPairs, SMTT(30) DEF Ordered
<1>28. Len(Setup[drv]) = 6
  BY <1>1, <1>2, Zenon
<1>29. Len(Setup[drv]) + 1 = 7
  BY <1>28, SMT
<1>30. CallsFit
  BY <1>29, <1>2, <1>14, <1>15, SMTT(30) DEF CallsFit, BlinkCalls, Call, Pinning
<1>31. \A k: Addable(k) = {}
  BY <1>15, AddableAdded, Zenon
<1>32. Added \subseteq Listed(Teardown[drv]) \cap {"armed", "pending"}
  BY <1>2, <1>15, <1>16, SMT
<1>33. ASSUME NEW k \in 1..6, Setup[drv][k].refusal = "seen"
      PROVE  /\ Covers(k, Setup[drv][k].unwind, Setup[drv][k].takes)
             /\ Ordered(k, Setup[drv][k].unwind, Setup[drv][k].takes)
             /\ Addable(k) = {}
  <2>1. k = 1 \/ k = 2 \/ k = 3 \/ k = 4 \/ k = 5 \/ k = 6
    BY SMT
  <2>2. QED
    BY <2>1, <1>33, <1>6, <1>7, <1>17, <1>19, <1>21, <1>23, <1>18, <1>20, <1>22, <1>24,
       <1>31, SMT
<1>34. QED
  BY <1>28, <1>29, <1>26, <1>30, <1>33, <1>27, <1>32, Zenon DEF Fits

LEMMA MmapFits ==
  ASSUME drv = "mmap"
  PROVE  Fits
<1>1. /\ Len(MmapInit) = 7
      /\ MmapInit[1] = Tested({"region"}, <<>>)
      /\ MmapInit[2] = Tested({"cdev"}, <<>>)
      /\ MmapInit[3] = Tested({"class"}, <<"cdev">>)
      /\ MmapInit[4] = Hoped({"device"})
      /\ MmapInit[5] = Tested({"proc"}, <<"cdev", "device">>)
      /\ MmapInit[6] = Hoped({"kmem"})
      /\ MmapInit[7] = Hoped({"vmem"})
  BY SMT DEF MmapInit, KmallocStep, VmallocStep
<1>2. /\ Setup[drv] = MmapInit
      /\ Teardown[drv] = <<"cdev", "device", "class", "proc", "kmem", "vmem">>
      /\ CallsOf(drv) = MmapCalls
      /\ LeftAnyway = {"region"}
  BY ExitSequences, SMT DEF Setup, Teardown, CallsOf, Calls, LeftAnyway
<1>3. /\ Setup[drv][1].takes = {"region"} /\ Setup[drv][1].refusal = "seen"
      /\ Setup[drv][1].unwind = <<>>
  BY <1>1, <1>2, SMT DEF Tested
<1>4. /\ Setup[drv][2].takes = {"cdev"} /\ Setup[drv][2].refusal = "seen"
      /\ Setup[drv][2].unwind = <<>>
  BY <1>1, <1>2, SMT DEF Tested
<1>5. /\ Setup[drv][3].takes = {"class"} /\ Setup[drv][3].refusal = "seen"
      /\ Setup[drv][3].unwind = <<"cdev">>
  BY <1>1, <1>2, SMT DEF Tested
<1>6. Setup[drv][4].takes = {"device"} /\ Setup[drv][4].refusal = "unseen"
  BY <1>1, <1>2, SMT DEF Hoped
<1>7. /\ Setup[drv][5].takes = {"proc"} /\ Setup[drv][5].refusal = "seen"
      /\ Setup[drv][5].unwind = <<"cdev", "device">>
  BY <1>1, <1>2, SMT DEF Tested
<1>8. Setup[drv][6].takes = {"kmem"} /\ Setup[drv][6].refusal = "unseen"
  BY <1>1, <1>2, SMT DEF Hoped
<1>9. Setup[drv][7].takes = {"vmem"} /\ Setup[drv][7].refusal = "unseen"
  BY <1>1, <1>2, SMT DEF Hoped
<1>10. LeftOut(Setup[drv][1].takes) = {}
  BY <1>3, SMT DEF LeftOut, LeftOutFor
<1>11. LeftOut(Setup[drv][2].takes) = {}
  BY <1>4, SMT DEF LeftOut, LeftOutFor
<1>12. LeftOut(Setup[drv][3].takes) = {}
  BY <1>5, SMT DEF LeftOut, LeftOutFor
<1>13. LeftOut(Setup[drv][5].takes) = {"class"}
  BY <1>7, SMT DEF LeftOut, LeftOutFor
<1>14. /\ Before(1) = {}
       /\ Before(2) = Before(1) \cup {"region"}
       /\ Before(3) = Before(2) \cup {"cdev"}
       /\ Before(4) = Before(3) \cup {"class"}
       /\ Before(5) = Before(4) \cup {"device"}
       /\ Before(6) = Before(5) \cup {"proc"}
       /\ Before(7) = Before(6) \cup {"kmem"}
       /\ Before(8) = Before(7) \cup {"vmem"}
  BY <1>3, <1>10, <1>4, <1>11, <1>5, <1>12, <1>6, <1>7, <1>13, <1>8, <1>9, BeforeSteps,
     Zenon
<1>15. /\ Before(1) = {}
       /\ Before(2) = {"region"}
       /\ Before(3) = {"region", "cdev"}
       /\ Before(4) = {"region", "cdev", "class"}
       /\ Before(5) = {"region", "cdev", "class", "device"}
       /\ Before(6) = {"region", "cdev", "class", "device", "proc"}
       /\ Before(7) = {"region", "cdev", "class", "device", "proc", "kmem"}
       /\ Before(8) = {"region", "cdev", "class", "device", "proc", "kmem", "vmem"}
  BY <1>14, SMT
<1>16. Added = {}
  BY <1>2, CallsAdd, Zenon DEF Added
<1>17. /\ InOrder(<<>>) /\ Listed(<<>>) = {}
       /\ InOrder(<<"cdev">>) /\ Listed(<<"cdev">>) = {"cdev"}
       /\ InOrder(<<"cdev", "device">>) /\ Listed(<<"cdev", "device">>) = {"cdev", "device"}
       /\ InOrder(<<"cdev", "device", "class", "proc", "kmem", "vmem">>)
       /\ Listed(<<"cdev", "device", "class", "proc", "kmem", "vmem">>) =
            {"cdev", "device", "class", "proc", "kmem", "vmem"}
  BY Lists, Zenon
<1>18. Covers(1, Setup[drv][1].unwind, Setup[drv][1].takes)
  BY <1>2, <1>3, <1>10, <1>15, <1>17, SMTT(30) DEF Covers, Lasting, Must, Follow, Complain
<1>19. Ordered(1, Setup[drv][1].unwind, Setup[drv][1].takes)
  BY <1>2, <1>15, <1>17, <1>3, OnTopPairs, SMTT(30) DEF Ordered
<1>20. Covers(2, Setup[drv][2].unwind, Setup[drv][2].takes)
  BY <1>2, <1>4, <1>11, <1>15, <1>17, SMTT(30) DEF Covers, Lasting, Must, Follow, Complain
<1>21. Ordered(2, Setup[drv][2].unwind, Setup[drv][2].takes)
  BY <1>2, <1>15, <1>17, <1>4, OnTopPairs, SMTT(30) DEF Ordered
<1>22. Covers(3, Setup[drv][3].unwind, Setup[drv][3].takes)
  BY <1>2, <1>5, <1>12, <1>15, <1>17, SMTT(30) DEF Covers, Lasting, Must, Follow, Complain
<1>23. Ordered(3, Setup[drv][3].unwind, Setup[drv][3].takes)
  BY <1>2, <1>15, <1>17, <1>5, OnTopPairs, SMTT(30) DEF Ordered
<1>24. Covers(5, Setup[drv][5].unwind, Setup[drv][5].takes)
  BY <1>2, <1>7, <1>13, <1>15, <1>17, SMTT(30) DEF Covers, Lasting, Must, Follow, Complain
<1>25. Ordered(5, Setup[drv][5].unwind, Setup[drv][5].takes)
  BY <1>2, <1>15, <1>17, <1>7, OnTopPairs, SMTT(30) DEF Ordered
<1>26. LeftOut({}) = {}
  BY SMT DEF LeftOut
<1>27. Covers(8, Teardown[drv], {})
  <2>1. \A r \in Before(8):
          r \in Listed(<<"cdev", "device", "class", "proc", "kmem", "vmem">>)
            \cup Lasting \cup LeftAnyway \cup {}
    BY <1>2, <1>15, <1>17, <1>26, SMT DEF Lasting
  <2>2. \A r \in Listed(<<"cdev", "device", "class", "proc", "kmem", "vmem">>):
          r \in Must => r \in Before(8) \cup {}
    BY <1>2, <1>15, <1>17, <1>26, SMT DEF Must, Follow, Complain
  <2>3. QED
    BY <2>1, <2>2, <1>2, <1>15, <1>17, <1>26, SMTT(30) DEF Covers
<1>28. Ordered(8, Teardown[drv], {})
  <2>1. Precedes("device", "class", <<"cdev", "device", "class", "proc", "kmem", "vmem">>)
    BY Orders, Zenon
  <2>2. QED
    BY <1>2, <1>15, <1>17, <2>1, OnTopPairs, SMTT(30) DEF Ordered
<1>29. Len(Setup[drv]) = 7
  BY <1>1, <1>2, Zenon
<1>30. Len(Setup[drv]) + 1 = 8
  BY <1>29, SMT
<1>31. CallsFit
  BY <1>30, <1>2, <1>15, <1>16, SMTT(30) DEF CallsFit, MmapCalls, KmallocCall, VmallocCall,
     Call, Pinning
<1>32. \A k: Addable(k) = {}
  BY <1>16, AddableAdded, Zenon
<1>33. Added \subseteq Listed(Teardown[drv]) \cap {"armed", "pending"}
  BY <1>2, <1>16, <1>17, SMT
<1>34. ASSUME NEW k \in 1..7, Setup[drv][k].refusal = "seen"
      PROVE  /\ Covers(k, Setup[drv][k].unwind, Setup[drv][k].takes)
             /\ Ordered(k, Setup[drv][k].unwind, Setup[drv][k].takes)
             /\ Addable(k) = {}
  <2>1. k = 1 \/ k = 2 \/ k = 3 \/ k = 4 \/ k = 5 \/ k = 6 \/ k = 7
    BY SMT
  <2>2. QED
    BY <2>1, <1>34, <1>6, <1>8, <1>9, <1>18, <1>20, <1>22, <1>24, <1>19, <1>21, <1>23,
       <1>25, <1>32, SMT
<1>35. QED
  BY <1>29, <1>30, <1>27, <1>31, <1>34, <1>28, <1>33, Zenon DEF Fits

LEMMA AtomicOprsFits ==
  ASSUME drv = "atomic_oprs"
  PROVE  Fits
<1>1. /\ Len(AtomicInit) = 6
      /\ AtomicInit[1] = Tested({"region"}, <<>>)
      /\ AtomicInit[2] = Tested({"cdev"}, <<"region", "cdev">>)
      /\ AtomicInit[3] = Hoped({"class"})
      /\ AtomicInit[4] = Hoped({"device"})
      /\ AtomicInit[5] = Hoped({"thread1"})
      /\ AtomicInit[6] = Hoped({"thread2"})
  BY SMT DEF AtomicInit, EtxInit
<1>2. /\ Setup[drv] = AtomicInit
      /\ Teardown[drv] = <<"thread1", "thread2", "device", "class", "cdev", "region">>
      /\ CallsOf(drv) = {}
      /\ LeftAnyway = {}
  BY ExitSequences, SMT DEF Setup, Teardown, CallsOf, Calls, LeftAnyway
<1>3. /\ Setup[drv][1].takes = {"region"} /\ Setup[drv][1].refusal = "seen"
      /\ Setup[drv][1].unwind = <<>>
      /\ LeftOut(Setup[drv][1].takes) = {}
  BY <1>1, <1>2, SMT DEF Tested, LeftOut, LeftOutFor
<1>4. /\ Setup[drv][2].takes = {"cdev"} /\ Setup[drv][2].refusal = "seen"
      /\ Setup[drv][2].unwind = <<"region", "cdev">>
      /\ LeftOut(Setup[drv][2].takes) = {}
  BY <1>1, <1>2, SMT DEF Tested, LeftOut, LeftOutFor
<1>5. Setup[drv][3].takes = {"class"} /\ Setup[drv][3].refusal = "unseen"
  BY <1>1, <1>2, SMT DEF Hoped
<1>6. Setup[drv][4].takes = {"device"} /\ Setup[drv][4].refusal = "unseen"
  BY <1>1, <1>2, SMT DEF Hoped
<1>7. Setup[drv][5].takes = {"thread1"} /\ Setup[drv][5].refusal = "unseen"
  BY <1>1, <1>2, SMT DEF Hoped
<1>8. Setup[drv][6].takes = {"thread2"} /\ Setup[drv][6].refusal = "unseen"
  BY <1>1, <1>2, SMT DEF Hoped
<1>9. /\ Before(1) = {}
      /\ Before(2) = Before(1) \cup {"region"}
      /\ Before(3) = Before(2) \cup {"cdev"}
      /\ Before(4) = Before(3) \cup {"class"}
      /\ Before(5) = Before(4) \cup {"device"}
      /\ Before(6) = Before(5) \cup {"thread1"}
      /\ Before(7) = Before(6) \cup {"thread2"}
  BY <1>3, <1>4, <1>5, <1>6, <1>7, <1>8, BeforeSteps, Zenon
<1>10. /\ Before(1) = {}
       /\ Before(2) = {"region"}
       /\ Before(3) = {"region", "cdev"}
       /\ Before(4) = {"region", "cdev", "class"}
       /\ Before(5) = {"region", "cdev", "class", "device"}
       /\ Before(6) = {"region", "cdev", "class", "device", "thread1"}
       /\ Before(7) = {"region", "cdev", "class", "device", "thread1", "thread2"}
  BY <1>9, SMT
<1>11. Added = {}
  BY <1>2, CallsAdd, Zenon DEF Added
<1>12. /\ InOrder(<<>>) /\ Listed(<<>>) = {}
       /\ InOrder(<<"region", "cdev">>) /\ Listed(<<"region", "cdev">>) = {"region", "cdev"}
       /\ InOrder(<<"thread1", "thread2", "device", "class", "cdev", "region">>)
       /\ Listed(<<"thread1", "thread2", "device", "class", "cdev", "region">>) =
            {"thread1", "thread2", "device", "class", "cdev", "region"}
  BY Lists, Zenon
<1>13. Covers(1, Setup[drv][1].unwind, Setup[drv][1].takes)
  BY <1>2, <1>3, <1>10, <1>12, SMTT(30) DEF Covers, Lasting, Must, Follow, Complain
<1>14. Ordered(1, Setup[drv][1].unwind, Setup[drv][1].takes)
  BY <1>2, <1>10, <1>12, <1>3, OnTopPairs, SMTT(30) DEF Ordered
<1>15. Covers(2, Setup[drv][2].unwind, Setup[drv][2].takes)
  BY <1>2, <1>4, <1>10, <1>12, SMTT(30) DEF Covers, Lasting, Must, Follow, Complain
<1>16. Ordered(2, Setup[drv][2].unwind, Setup[drv][2].takes)
  BY <1>2, <1>10, <1>12, <1>4, OnTopPairs, SMTT(30) DEF Ordered
<1>17. LeftOut({}) = {}
  BY SMT DEF LeftOut
<1>18. Covers(7, Teardown[drv], {})
  BY <1>2, <1>10, <1>12, <1>17, SMTT(30) DEF Covers, Lasting, Must, Follow, Complain
<1>19. Ordered(7, Teardown[drv], {})
  <2>1. /\ Precedes("cdev", "region",
               <<"thread1", "thread2", "device", "class", "cdev", "region">>)
       /\ Precedes("device", "region",
              <<"thread1", "thread2", "device", "class", "cdev", "region">>)
       /\ Precedes("device", "class",
              <<"thread1", "thread2", "device", "class", "cdev", "region">>)
    BY Orders, Zenon
  <2>2. QED
    BY <1>2, <1>10, <1>12, <2>1, OnTopPairs, SMTT(30) DEF Ordered
<1>20. Len(Setup[drv]) = 6
  BY <1>1, <1>2, Zenon
<1>21. Len(Setup[drv]) + 1 = 7
  BY <1>20, SMT
<1>22. CallsFit
  BY <1>21, <1>2, <1>10, <1>11, SMTT(30) DEF CallsFit, Pinning
<1>23. \A k: Addable(k) = {}
  BY <1>11, AddableAdded, Zenon
<1>24. Added \subseteq Listed(Teardown[drv]) \cap {"armed", "pending"}
  BY <1>2, <1>11, <1>12, SMT
<1>25. ASSUME NEW k \in 1..6, Setup[drv][k].refusal = "seen"
      PROVE  /\ Covers(k, Setup[drv][k].unwind, Setup[drv][k].takes)
             /\ Ordered(k, Setup[drv][k].unwind, Setup[drv][k].takes)
             /\ Addable(k) = {}
  <2>1. k = 1 \/ k = 2 \/ k = 3 \/ k = 4 \/ k = 5 \/ k = 6
    BY SMT
  <2>2. QED
    BY <2>1, <1>25, <1>5, <1>6, <1>7, <1>8, <1>13, <1>15, <1>14, <1>16, <1>23, SMT
<1>26. QED
  BY <1>20, <1>21, <1>18, <1>22, <1>25, <1>19, <1>24, Zenon DEF Fits

LEMMA HrtimerFits ==
  ASSUME drv = "hrtimer"
  PROVE  Fits
<1>1. HrtimerInit[2] = Tested({"cdev"}, <<"region">>)
  BY SMT DEF HrtimerInit, EtxInit, Tested
<1>2. /\ Len(HrtimerInit) = 5
      /\ HrtimerInit[1] = Tested({"region"}, <<>>)
      /\ HrtimerInit[3] = Hoped({"class"})
      /\ HrtimerInit[4] = Hoped({"device"})
      /\ HrtimerInit[5] = Sure({"hrtimer"})
  BY SMT DEF HrtimerInit, EtxInit
<1>3. /\ Setup[drv] = HrtimerInit
      /\ Teardown[drv] = <<"hrtimer", "device", "class", "cdev", "region">>
      /\ CallsOf(drv) = {}
      /\ LeftAnyway = {}
  BY ExitSequences, SMT DEF Setup, Teardown, CallsOf, Calls, LeftAnyway
<1>4. /\ Setup[drv][1].takes = {"region"} /\ Setup[drv][1].refusal = "seen"
      /\ Setup[drv][1].unwind = <<>>
      /\ LeftOut(Setup[drv][1].takes) = {}
  BY <1>1, <1>2, <1>3, SMT DEF Tested, LeftOut, LeftOutFor
<1>5. /\ Setup[drv][2].takes = {"cdev"} /\ Setup[drv][2].refusal = "seen"
      /\ Setup[drv][2].unwind = <<"region">>
      /\ LeftOut(Setup[drv][2].takes) = {}
  BY <1>1, <1>2, <1>3, SMT DEF Tested, LeftOut, LeftOutFor
<1>6. Setup[drv][3].takes = {"class"} /\ Setup[drv][3].refusal = "unseen"
  BY <1>1, <1>2, <1>3, SMT DEF Hoped
<1>7. Setup[drv][4].takes = {"device"} /\ Setup[drv][4].refusal = "unseen"
  BY <1>1, <1>2, <1>3, SMT DEF Hoped
<1>8. Setup[drv][5].takes = {"hrtimer"} /\ Setup[drv][5].refusal = "none"
  BY <1>1, <1>2, <1>3, SMT DEF Sure
<1>9. /\ Before(1) = {}
      /\ Before(2) = {"region"}
      /\ Before(3) = {"region", "cdev"}
      /\ Before(4) = {"region", "cdev", "class"}
      /\ Before(5) = {"region", "cdev", "class", "device"}
      /\ Before(6) = {"region", "cdev", "class", "device", "hrtimer"}
  BY <1>4, <1>5, <1>6, <1>7, <1>8, BeforeSteps, SMT
<1>10. Added = {}
  BY <1>3, CallsAdd, Zenon DEF Added
<1>11. /\ InOrder(<<>>) /\ Listed(<<>>) = {}
       /\ InOrder(<<"region">>) /\ Listed(<<"region">>) = {"region"}
       /\ InOrder(<<"hrtimer", "device", "class", "cdev", "region">>)
       /\ Listed(<<"hrtimer", "device", "class", "cdev", "region">>) =
            {"hrtimer", "device", "class", "cdev", "region"}
  BY Lists, Zenon
<1>12. Covers(1, Setup[drv][1].unwind, Setup[drv][1].takes)
  BY <1>3, <1>4, <1>9, <1>11, SMTT(30) DEF Covers, Lasting, Must, Follow, Complain
<1>13. Ordered(1, Setup[drv][1].unwind, Setup[drv][1].takes)
  BY <1>3, <1>9, <1>11, <1>4, OnTopPairs, SMTT(30) DEF Ordered
<1>14. Covers(2, Setup[drv][2].unwind, Setup[drv][2].takes)
  BY <1>3, <1>5, <1>9, <1>11, SMTT(30) DEF Covers, Lasting, Must, Follow, Complain
<1>15. Ordered(2, Setup[drv][2].unwind, Setup[drv][2].takes)
  BY <1>3, <1>9, <1>11, <1>5, OnTopPairs, SMTT(30) DEF Ordered
<1>16. LeftOut({}) = {}
  BY SMT DEF LeftOut
<1>17. Covers(6, Teardown[drv], {})
  BY <1>3, <1>9, <1>11, <1>16, SMTT(30) DEF Covers, Lasting, Must, Follow, Complain
<1>18. Ordered(6, Teardown[drv], {})
  <2>1. /\ Precedes("cdev", "region", <<"hrtimer", "device", "class", "cdev", "region">>)
       /\ Precedes("device", "region", <<"hrtimer", "device", "class", "cdev", "region">>)
       /\ Precedes("device", "class", <<"hrtimer", "device", "class", "cdev", "region">>)
    BY Orders, Zenon
  <2>2. QED
    BY <1>3, <1>9, <1>11, <2>1, OnTopPairs, SMTT(30) DEF Ordered
<1>19. Len(Setup[drv]) = 5
  BY <1>1, <1>2, <1>3, Zenon
<1>20. Len(Setup[drv]) + 1 = 6
  BY <1>19, SMT
<1>21. CallsFit
  BY <1>20, <1>3, <1>9, <1>10, SMTT(30) DEF CallsFit, Pinning
<1>22. \A k: Addable(k) = {}
  BY <1>10, AddableAdded, Zenon
<1>23. Added \subseteq Listed(Teardown[drv]) \cap {"armed", "pending"}
  BY <1>2, <1>10, <1>11, SMT
<1>24. ASSUME NEW k \in 1..5, Setup[drv][k].refusal = "seen"
      PROVE  /\ Covers(k, Setup[drv][k].unwind, Setup[drv][k].takes)
             /\ Ordered(k, Setup[drv][k].unwind, Setup[drv][k].takes)
             /\ Addable(k) = {}
  <2>1. k = 1 \/ k = 2 \/ k = 3 \/ k = 4 \/ k = 5
    BY SMT
  <2>2. QED
    BY <2>1, <1>24, <1>6, <1>7, <1>8, <1>12, <1>14, <1>13, <1>15, <1>22, SMT
<1>25. QED
  BY <1>19, <1>20, <1>17, <1>21, <1>24, <1>18, <1>23, Zenon DEF Fits

LEMMA BasicIrqFits ==
  ASSUME drv = "basic_irq"
  PROVE  Fits
<1>1. /\ Len(IrqInit) = 5
      /\ IrqInit[1] = Tested({"region"}, <<>>)
      /\ IrqInit[2] = Tested({"cdev"}, <<"region", "cdev">>)
      /\ IrqInit[3] = Hoped({"class"})
      /\ IrqInit[4] = Hoped({"device"})
      /\ IrqInit[5] = Tested({"irq"}, <<"irq", "class", "region", "cdev">>)
  BY SMT DEF IrqInit, EtxInit, EtxIrq
<1>2. /\ Setup[drv] = IrqInit
      /\ Teardown[drv] = <<"irq", "device", "class", "cdev", "region">>
      /\ CallsOf(drv) = {}
      /\ LeftAnyway = {}
  BY ExitSequences, SMT DEF Setup, Teardown, CallsOf, Calls, LeftAnyway
<1>3. /\ Setup[drv][1].takes = {"region"} /\ Setup[drv][1].refusal = "seen"
      /\ Setup[drv][1].unwind = <<>>
      /\ LeftOut(Setup[drv][1].takes) = {}
  BY <1>1, <1>2, SMT DEF Tested, LeftOut, LeftOutFor
<1>4. /\ Setup[drv][2].takes = {"cdev"} /\ Setup[drv][2].refusal = "seen"
      /\ Setup[drv][2].unwind = <<"region", "cdev">>
      /\ LeftOut(Setup[drv][2].takes) = {}
  BY <1>1, <1>2, SMT DEF Tested, LeftOut, LeftOutFor
<1>5. Setup[drv][3].takes = {"class"} /\ Setup[drv][3].refusal = "unseen"
  BY <1>1, <1>2, SMT DEF Hoped
<1>6. Setup[drv][4].takes = {"device"} /\ Setup[drv][4].refusal = "unseen"
  BY <1>1, <1>2, SMT DEF Hoped
<1>7. /\ Setup[drv][5].takes = {"irq"} /\ Setup[drv][5].refusal = "seen"
      /\ Setup[drv][5].unwind = <<"irq", "class", "region", "cdev">>
      /\ LeftOut(Setup[drv][5].takes) = {"device"}
  BY <1>1, <1>2, SMT DEF Tested, LeftOut, LeftOutFor
<1>8. /\ Before(1) = {}
      /\ Before(2) = {"region"}
      /\ Before(3) = {"region", "cdev"}
      /\ Before(4) = {"region", "cdev", "class"}
      /\ Before(5) = {"region", "cdev", "class", "device"}
      /\ Before(6) = {"region", "cdev", "class", "device", "irq"}
  BY <1>3, <1>4, <1>5, <1>6, <1>7, BeforeSteps, SMT
<1>9. Added = {}
  BY <1>2, CallsAdd, Zenon DEF Added
<1>10. /\ InOrder(<<>>) /\ Listed(<<>>) = {}
       /\ InOrder(<<"region", "cdev">>) /\ Listed(<<"region", "cdev">>) = {"region", "cdev"}
       /\ InOrder(<<"irq", "class", "region", "cdev">>)
       /\ Listed(<<"irq", "class", "region", "cdev">>) = {"irq", "class", "region", "cdev"}
       /\ InOrder(<<"irq", "device", "class", "cdev", "region">>)
       /\ Listed(<<"irq", "device", "class", "cdev", "region">>) =
            {"irq", "device", "class", "cdev", "region"}
  BY Lists, Zenon
<1>11. Covers(1, Setup[drv][1].unwind, Setup[drv][1].takes)
  BY <1>2, <1>3, <1>8, <1>10, SMTT(30) DEF Covers, Lasting, Must, Follow, Complain
<1>12. Ordered(1, Setup[drv][1].unwind, Setup[drv][1].takes)
  BY <1>2, <1>8, <1>10, <1>3, OnTopPairs, SMTT(30) DEF Ordered
<1>13. Covers(2, Setup[drv][2].unwind, Setup[drv][2].takes)
  BY <1>2, <1>4, <1>8, <1>10, SMTT(30) DEF Covers, Lasting, Must, Follow, Complain
<1>14. Ordered(2, Setup[drv][2].unwind, Setup[drv][2].takes)
  BY <1>2, <1>8, <1>10, <1>4, OnTopPairs, SMTT(30) DEF Ordered
<1>15. Covers(5, Setup[drv][5].unwind, Setup[drv][5].takes)
  <2>1. \A r \in Before(5):
          r \in Listed(<<"irq", "class", "region", "cdev">>)
            \cup Lasting \cup LeftAnyway \cup {"device"}
    BY <1>2, <1>7, <1>8, <1>10, SMT DEF Lasting
  <2>2. \A r \in Listed(<<"irq", "class", "region", "cdev">>):
          r \in Must => r \in Before(5) \cup {"irq"}
    BY <1>2, <1>7, <1>8, <1>10, SMT DEF Must, Follow, Complain
  <2>3. QED
    BY <2>1, <2>2, <1>2, <1>7, <1>8, <1>10, SMTT(30) DEF Covers
<1>16. Ordered(5, Setup[drv][5].unwind, Setup[drv][5].takes)
  BY <1>2, <1>8, <1>10, <1>7, OnTopPairs, SMTT(30) DEF Ordered, Excused
<1>17. LeftOut({}) = {}
  BY SMT DEF LeftOut
<1>18. Covers(6, Teardown[drv], {})
  BY <1>2, <1>8, <1>10, <1>17, SMTT(30) DEF Covers, Lasting, Must, Follow, Complain
<1>19. Ordered(6, Teardown[drv], {})
  <2>1. /\ Precedes("cdev", "region", <<"irq", "device", "class", "cdev", "region">>)
       /\ Precedes("device", "region", <<"irq", "device", "class", "cdev", "region">>)
       /\ Precedes("device", "class", <<"irq", "device", "class", "cdev", "region">>)
    BY Orders, Zenon
  <2>2. QED
    BY <1>2, <1>8, <1>10, <2>1, OnTopPairs, SMTT(30) DEF Ordered
<1>20. Len(Setup[drv]) = 5
  BY <1>1, <1>2, Zenon
<1>21. Len(Setup[drv]) + 1 = 6
  BY <1>20, SMT
<1>22. CallsFit
  BY <1>21, <1>2, <1>8, <1>9, SMTT(30) DEF CallsFit, Pinning
<1>23. \A k: Addable(k) = {}
  BY <1>9, AddableAdded, Zenon
<1>24. Added \subseteq Listed(Teardown[drv]) \cap {"armed", "pending"}
  BY <1>2, <1>9, <1>10, SMT
<1>25. ASSUME NEW k \in 1..5, Setup[drv][k].refusal = "seen"
      PROVE  /\ Covers(k, Setup[drv][k].unwind, Setup[drv][k].takes)
             /\ Ordered(k, Setup[drv][k].unwind, Setup[drv][k].takes)
             /\ Addable(k) = {}
  <2>1. k = 1 \/ k = 2 \/ k = 3 \/ k = 4 \/ k = 5
    BY SMT
  <2>2. QED
    BY <2>1, <1>25, <1>5, <1>6, <1>11, <1>13, <1>15, <1>12, <1>14, <1>16, <1>23, SMT
<1>26. QED
  BY <1>20, <1>21, <1>18, <1>22, <1>25, <1>19, <1>24, Zenon DEF Fits

LEMMA StaticTaskletFits ==
  ASSUME drv = "static_tasklet"
  PROVE  Fits
<1>1. /\ Len(StaticInit) = 5
      /\ StaticInit[1] = Tested({"region"}, <<>>)
      /\ StaticInit[2] = Tested({"cdev"}, <<"region", "cdev">>)
      /\ StaticInit[3] = Hoped({"class"})
      /\ StaticInit[4] = Hoped({"device"})
      /\ StaticInit[5] = Tested({"irq"}, <<"irq", "class", "region", "cdev">>)
  BY SMT DEF StaticInit, EtxInit, EtxIrq
<1>2. /\ Setup[drv] = StaticInit
      /\ Teardown[drv] = <<"pending", "irq", "device", "class", "cdev", "region">>
      /\ CallsOf(drv) = StaticCalls
      /\ LeftAnyway = {}
  BY ExitSequences, SMT DEF Setup, Teardown, CallsOf, Calls, LeftAnyway
<1>3. /\ Setup[drv][1].takes = {"region"} /\ Setup[drv][1].refusal = "seen"
      /\ Setup[drv][1].unwind = <<>>
      /\ LeftOut(Setup[drv][1].takes) = {}
  BY <1>1, <1>2, SMT DEF Tested, LeftOut, LeftOutFor
<1>4. /\ Setup[drv][2].takes = {"cdev"} /\ Setup[drv][2].refusal = "seen"
      /\ Setup[drv][2].unwind = <<"region", "cdev">>
      /\ LeftOut(Setup[drv][2].takes) = {}
  BY <1>1, <1>2, SMT DEF Tested, LeftOut, LeftOutFor
<1>5. Setup[drv][3].takes = {"class"} /\ Setup[drv][3].refusal = "unseen"
  BY <1>1, <1>2, SMT DEF Hoped
<1>6. Setup[drv][4].takes = {"device"} /\ Setup[drv][4].refusal = "unseen"
  BY <1>1, <1>2, SMT DEF Hoped
<1>7. /\ Setup[drv][5].takes = {"irq"} /\ Setup[drv][5].refusal = "seen"
      /\ Setup[drv][5].unwind = <<"irq", "class", "region", "cdev">>
      /\ LeftOut(Setup[drv][5].takes) = {"device"}
  BY <1>1, <1>2, SMT DEF Tested, LeftOut, LeftOutFor
<1>8. /\ Before(1) = {}
      /\ Before(2) = {"region"}
      /\ Before(3) = {"region", "cdev"}
      /\ Before(4) = {"region", "cdev", "class"}
      /\ Before(5) = {"region", "cdev", "class", "device"}
      /\ Before(6) = {"region", "cdev", "class", "device", "irq"}
  BY <1>3, <1>4, <1>5, <1>6, <1>7, BeforeSteps, SMT
<1>9. Added = {"pending"}
  BY <1>2, CallsAdd, Zenon DEF Added
<1>10. /\ InOrder(<<>>) /\ Listed(<<>>) = {}
       /\ InOrder(<<"region", "cdev">>) /\ Listed(<<"region", "cdev">>) = {"region", "cdev"}
       /\ InOrder(<<"irq", "class", "region", "cdev">>)
       /\ Listed(<<"irq", "class", "region", "cdev">>) = {"irq", "class", "region", "cdev"}
       /\ InOrder(<<"pending", "irq", "device", "class", "cdev", "region">>)
       /\ Listed(<<"pending", "irq", "device", "class", "cdev", "region">>) =
            {"pending", "irq", "device", "class", "cdev", "region"}
  BY Lists, Zenon
<1>11. Covers(1, Setup[drv][1].unwind, Setup[drv][1].takes)
  BY <1>2, <1>3, <1>8, <1>10, SMTT(30) DEF Covers, Lasting, Must, Follow, Complain
<1>12. Ordered(1, Setup[drv][1].unwind, Setup[drv][1].takes)
  BY <1>2, <1>8, <1>10, <1>3, OnTopPairs, SMTT(30) DEF Ordered
<1>13. Covers(2, Setup[drv][2].unwind, Setup[drv][2].takes)
  BY <1>2, <1>4, <1>8, <1>10, SMTT(30) DEF Covers, Lasting, Must, Follow, Complain
<1>14. Ordered(2, Setup[drv][2].unwind, Setup[drv][2].takes)
  BY <1>2, <1>8, <1>10, <1>4, OnTopPairs, SMTT(30) DEF Ordered
<1>15. Covers(5, Setup[drv][5].unwind, Setup[drv][5].takes)
  <2>1. \A r \in Before(5):
          r \in Listed(<<"irq", "class", "region", "cdev">>)
            \cup Lasting \cup LeftAnyway \cup {"device"}
    BY <1>2, <1>7, <1>8, <1>10, SMT DEF Lasting
  <2>2. \A r \in Listed(<<"irq", "class", "region", "cdev">>):
          r \in Must => r \in Before(5) \cup {"irq"}
    BY <1>2, <1>7, <1>8, <1>10, SMT DEF Must, Follow, Complain
  <2>3. QED
    BY <2>1, <2>2, <1>2, <1>7, <1>8, <1>10, SMTT(30) DEF Covers
<1>16. Ordered(5, Setup[drv][5].unwind, Setup[drv][5].takes)
  BY <1>2, <1>8, <1>10, <1>7, OnTopPairs, SMTT(30) DEF Ordered, Excused
<1>17. LeftOut({}) = {}
  BY SMT DEF LeftOut
<1>18. Covers(6, Teardown[drv], {})
  BY <1>2, <1>8, <1>10, <1>17, SMTT(30) DEF Covers, Lasting, Must, Follow, Complain
<1>19. Ordered(6, Teardown[drv], {})
  <2>1. /\ Precedes("cdev", "region", <<"pending", "irq", "device", "class", "cdev", "region">>)
       /\ Precedes("device", "region",
              <<"pending", "irq", "device", "class", "cdev", "region">>)
       /\ Precedes("device", "class", <<"pending", "irq", "device", "class", "cdev", "region">>)
    BY Orders, Zenon
  <2>2. QED
    BY <1>2, <1>8, <1>10, <2>1, OnTopPairs, SMTT(30) DEF Ordered
<1>20. Len(Setup[drv]) = 5
  BY <1>1, <1>2, Zenon
<1>21. Len(Setup[drv]) + 1 = 6
  BY <1>20, SMT
<1>22. CallsFit
  BY <1>21, <1>2, <1>8, <1>9, SMTT(30) DEF CallsFit, StaticCalls, Call, Pinning
<1>23. \A k \in {1, 2, 5}: Addable(k) = {}
  <2>1. \A k \in {1, 2, 5}: "irq" \notin Before(k)
    BY <1>8, SMT
  <2>2. \A c \in StaticCalls: c.adds = {} \/ "irq" \in {c.by} \cup c.uses
    BY SMT DEF StaticCalls, Call
  <2>3. ASSUME NEW k \in {1, 2, 5}, NEW x \in Addable(k) PROVE FALSE
    <3>1. PICK c \in StaticCalls: {c.by} \cup c.uses \subseteq Before(k) /\ x \in c.adds
      BY <1>2, Zenon DEF Addable
    <3>2. QED
      BY <2>1, <2>2, <3>1, Zenon
  <2>4. QED
    BY <2>3, Zenon
<1>24. Added \subseteq Listed(Teardown[drv]) \cap {"armed", "pending"}
  <2>1. Listed(Teardown[drv]) = {"pending", "irq", "device", "class", "cdev", "region"}
    BY <1>2, <1>10, Zenon
  <2>2. QED
    BY <1>9, <2>1, SMT
<1>25. ASSUME NEW k \in 1..5, Setup[drv][k].refusal = "seen"
      PROVE  /\ Covers(k, Setup[drv][k].unwind, Setup[drv][k].takes)
             /\ Ordered(k, Setup[drv][k].unwind, Setup[drv][k].takes)
             /\ Addable(k) = {}
  <2>1. k = 1 \/ k = 2 \/ k = 3 \/ k = 4 \/ k = 5
    BY SMT
  <2>2. QED
    BY <2>1, <1>25, <1>5, <1>6, <1>11, <1>13, <1>15, <1>12, <1>14, <1>16, <1>23, SMT
<1>26. QED
  BY <1>20, <1>21, <1>18, <1>22, <1>25, <1>19, <1>24, Zenon DEF Fits

LEMMA DynamicTaskletFits ==
  ASSUME drv = "dynamic_tasklet"
  PROVE  Fits
<1>1. DynamicInit[6] = Tested({"tasklet"}, <<"irq", "class", "region", "cdev">>)
  BY SMT DEF DynamicInit, EtxInit, EtxIrq, Tested
<1>2. /\ Len(DynamicInit) = 6
      /\ DynamicInit[1] = Tested({"region"}, <<>>)
      /\ DynamicInit[2] = Tested({"cdev"}, <<"region", "cdev">>)
      /\ DynamicInit[3] = Hoped({"class"})
      /\ DynamicInit[4] = Hoped({"device"})
      /\ DynamicInit[5] = Tested({"irq"}, <<"irq", "class", "region", "cdev">>)
  BY SMT DEF DynamicInit, EtxInit, EtxIrq
<1>3. /\ Setup[drv] = DynamicInit
      /\ Teardown[drv] = <<"pending", "tasklet", "irq", "device", "class", "cdev", "region">>
      /\ CallsOf(drv) = DynamicCalls
      /\ LeftAnyway = {}
  BY ExitSequences, SMT DEF Setup, Teardown, CallsOf, Calls, LeftAnyway
<1>4. /\ Setup[drv][1].takes = {"region"} /\ Setup[drv][1].refusal = "seen"
      /\ Setup[drv][1].unwind = <<>>
      /\ LeftOut(Setup[drv][1].takes) = {}
  BY <1>1, <1>2, <1>3, SMT DEF Tested, LeftOut, LeftOutFor
<1>5. /\ Setup[drv][2].takes = {"cdev"} /\ Setup[drv][2].refusal = "seen"
      /\ Setup[drv][2].unwind = <<"region", "cdev">>
      /\ LeftOut(Setup[drv][2].takes) = {}
  BY <1>1, <1>2, <1>3, SMT DEF Tested, LeftOut, LeftOutFor
<1>6. Setup[drv][3].takes = {"class"} /\ Setup[drv][3].refusal = "unseen"
  BY <1>1, <1>2, <1>3, SMT DEF Hoped
<1>7. Setup[drv][4].takes = {"device"} /\ Setup[drv][4].refusal = "unseen"
  BY <1>1, <1>2, <1>3, SMT DEF Hoped
<1>8. /\ Setup[drv][5].takes = {"irq"} /\ Setup[drv][5].refusal = "seen"
      /\ Setup[drv][5].unwind = <<"irq", "class", "region", "cdev">>
      /\ LeftOut(Setup[drv][5].takes) = {"device"}
  BY <1>1, <1>2, <1>3, SMT DEF Tested, LeftOut, LeftOutFor
<1>9. /\ Setup[drv][6].takes = {"tasklet"} /\ Setup[drv][6].refusal = "seen"
      /\ Setup[drv][6].unwind = <<"irq", "class", "region", "cdev">>
      /\ LeftOut(Setup[drv][6].takes) = {"device"}
  BY <1>1, <1>2, <1>3, SMT DEF Tested, LeftOut, LeftOutFor
<1>10. /\ Before(1) = {}
       /\ Before(2) = Before(1) \cup {"region"}
       /\ Before(3) = Before(2) \cup {"cdev"}
       /\ Before(4) = Before(3) \cup {"class"}
       /\ Before(5) = Before(4) \cup {"device"}
       /\ Before(6) = Before(5) \cup {"irq"}
       /\ Before(7) = Before(6) \cup {"tasklet"}
  BY <1>4, <1>5, <1>6, <1>7, <1>8, <1>9, BeforeSteps, Zenon
<1>11. /\ Before(1) = {}
       /\ Before(2) = {"region"}
       /\ Before(3) = {"region", "cdev"}
       /\ Before(4) = {"region", "cdev", "class"}
       /\ Before(5) = {"region", "cdev", "class", "device"}
       /\ Before(6) = {"region", "cdev", "class", "device", "irq"}
       /\ Before(7) = {"region", "cdev", "class", "device", "irq", "tasklet"}
  BY <1>10, SMT
<1>12. Added = {"pending"}
  BY <1>3, CallsAdd, Zenon DEF Added
<1>13. /\ InOrder(<<>>) /\ Listed(<<>>) = {}
       /\ InOrder(<<"region", "cdev">>) /\ Listed(<<"region", "cdev">>) = {"region", "cdev"}
       /\ InOrder(<<"irq", "class", "region", "cdev">>)
       /\ Listed(<<"irq", "class", "region", "cdev">>) = {"irq", "class", "region", "cdev"}
       /\ InOrder(<<"pending", "tasklet", "irq", "device", "class", "cdev", "region">>)
       /\ Listed(<<"pending", "tasklet", "irq", "device", "class", "cdev", "region">>) =
            {"pending", "tasklet", "irq", "device", "class", "cdev", "region"}
  BY Lists, Zenon
<1>14. Covers(1, Setup[drv][1].unwind, Setup[drv][1].takes)
  BY <1>3, <1>4, <1>11, <1>13, SMTT(30) DEF Covers, Lasting, Must, Follow, Complain
<1>15. Ordered(1, Setup[drv][1].unwind, Setup[drv][1].takes)
  BY <1>3, <1>11, <1>13, <1>4, OnTopPairs, SMTT(30) DEF Ordered
<1>16. Covers(2, Setup[drv][2].unwind, Setup[drv][2].takes)
  BY <1>3, <1>5, <1>11, <1>13, SMTT(30) DEF Covers, Lasting, Must, Follow, Complain
<1>17. Ordered(2, Setup[drv][2].unwind, Setup[drv][2].takes)
  BY <1>3, <1>11, <1>13, <1>5, OnTopPairs, SMTT(30) DEF Ordered
<1>18. Covers(5, Setup[drv][5].unwind, Setup[drv][5].takes)
  <2>1. \A r \in Before(5):
          r \in Listed(<<"irq", "class", "region", "cdev">>)
            \cup Lasting \cup LeftAnyway \cup {"device"}
    BY <1>3, <1>8, <1>11, <1>13, SMT DEF Lasting
  <2>2. \A r \in Listed(<<"irq", "class", "region", "cdev">>):
          r \in Must => r \in Before(5) \cup {"irq"}
    BY <1>3, <1>8, <1>11, <1>13, SMT DEF Must, Follow, Complain
  <2>3. QED
    BY <2>1, <2>2, <1>3, <1>8, <1>11, <1>13, SMTT(30) DEF Covers
<1>19. Ordered(5, Setup[drv][5].unwind, Setup[drv][5].takes)
  BY <1>3, <1>11, <1>13, <1>8, OnTopPairs, SMTT(30) DEF Ordered, Excused
<1>20. Covers(6, Setup[drv][6].unwind, Setup[drv][6].takes)
  <2>1. \A r \in Before(6):
          r \in Listed(<<"irq", "class", "region", "cdev">>)
            \cup Lasting \cup LeftAnyway \cup {"device"}
    BY <1>3, <1>9, <1>11, <1>13, SMT DEF Lasting
  <2>2. \A r \in Listed(<<"irq", "class", "region", "cdev">>):
          r \in Must => r \in Before(6) \cup {"tasklet"}
    BY <1>3, <1>9, <1>11, <1>13, SMT DEF Must, Follow, Complain
  <2>3. QED
    BY <2>1, <2>2, <1>3, <1>9, <1>11, <1>13, SMTT(30) DEF Covers
<1>21. Ordered(6, Setup[drv][6].unwind, Setup[drv][6].takes)
  BY <1>3, <1>11, <1>13, <1>9, OnTopPairs, SMTT(30) DEF Ordered, Excused
<1>22. LeftOut({}) = {}
  BY SMT DEF LeftOut
<1>23. Covers(7, Teardown[drv], {})
  BY <1>3, <1>11, <1>13, <1>22, SMTT(30) DEF Covers, Lasting, Must, Follow, Complain
<1>24. Ordered(7, Teardown[drv], {})
  <2>1. /\ Precedes("cdev", "region",
               <<"pending", "tasklet", "irq", "device", "class", "cdev", "region">>)
       /\ Precedes("device", "region",
              <<"pending", "tasklet", "irq", "device", "class", "cdev", "region">>)
       /\ Precedes("device", "class",
              <<"pending", "tasklet", "irq", "device", "class", "cdev", "region">>)
    BY Orders, Zenon
  <2>2. QED
    BY <1>3, <1>11, <1>13, <2>1, OnTopPairs, SMTT(30) DEF Ordered
<1>25. Len(Setup[drv]) = 6
  BY <1>1, <1>2, <1>3, Zenon
<1>26. Len(Setup[drv]) + 1 = 7
  BY <1>25, SMT
<1>27. CallsFit
  BY <1>26, <1>3, <1>11, <1>12, SMTT(30) DEF CallsFit, DynamicCalls, Call, Pinning
<1>28. \A k \in {1, 2, 5, 6}: Addable(k) = {}
  <2>1. \A k \in {1, 2, 5, 6}: "tasklet" \notin Before(k)
    BY <1>11, SMT
  <2>2. \A c \in DynamicCalls: c.adds = {} \/ "tasklet" \in {c.by} \cup c.uses
    BY SMT DEF DynamicCalls, Call
  <2>3. ASSUME NEW k \in {1, 2, 5, 6}, NEW x \in Addable(k) PROVE FALSE
    <3>1. PICK c \in DynamicCalls: {c.by} \cup c.uses \subseteq Before(k) /\ x \in c.adds
      BY <1>3, Zenon DEF Addable
    <3>2. QED
      BY <2>1, <2>2, <3>1, Zenon
  <2>4. QED
    BY <2>3, Zenon
<1>29. Added \subseteq Listed(Teardown[drv]) \cap {"armed", "pending"}
  <2>1. Listed(Teardown[drv]) = {"pending", "tasklet", "irq", "device", "class", "cdev", "region"}
    BY <1>3, <1>13, Zenon
  <2>2. QED
    BY <1>12, <2>1, SMT
<1>30. ASSUME NEW k \in 1..6, Setup[drv][k].refusal = "seen"
      PROVE  /\ Covers(k, Setup[drv][k].unwind, Setup[drv][k].takes)
             /\ Ordered(k, Setup[drv][k].unwind, Setup[drv][k].takes)
             /\ Addable(k) = {}
  <2>1. k = 1 \/ k = 2 \/ k = 3 \/ k = 4 \/ k = 5 \/ k = 6
    BY SMT
  <2>2. QED
    BY <2>1, <1>30, <1>6, <1>7, <1>14, <1>16, <1>18, <1>20, <1>15, <1>17, <1>19, <1>21,
       <1>28, SMT
<1>31. QED
  BY <1>25, <1>26, <1>23, <1>27, <1>30, <1>24, <1>29, Zenon DEF Fits

LEMMA MiscDevFits ==
  ASSUME drv = "misc_dev"
  PROVE  Fits
<1>1. /\ Len(MiscInit) = 1
      /\ MiscInit[1] = Tested({"misc"}, <<>>)
  BY SMT DEF MiscInit
<1>2. /\ Setup[drv] = MiscInit
      /\ Teardown[drv] = <<"misc">>
      /\ CallsOf(drv) = {}
      /\ LeftAnyway = {}
  BY SMT DEF Setup, Teardown, MiscExit, CallsOf, Calls, LeftAnyway
<1>3. /\ Setup[drv][1].takes = {"misc"} /\ Setup[drv][1].refusal = "seen"
      /\ Setup[drv][1].unwind = <<>>
      /\ LeftOut(Setup[drv][1].takes) = {}
  BY <1>1, <1>2, SMT DEF Tested, LeftOut, LeftOutFor
<1>4. /\ Before(1) = {}
      /\ Before(2) = {"misc"}
  BY <1>3, BeforeSteps, SMT
<1>5. Added = {}
  BY <1>2, CallsAdd, Zenon DEF Added
<1>6. /\ InOrder(<<>>) /\ Listed(<<>>) = {}
      /\ InOrder(<<"misc">>) /\ Listed(<<"misc">>) = {"misc"}
  BY Lists, Zenon
<1>7. Covers(1, Setup[drv][1].unwind, Setup[drv][1].takes)
  BY <1>2, <1>3, <1>4, <1>6, SMTT(30) DEF Covers, Lasting, Must, Follow, Complain
<1>8. Ordered(1, Setup[drv][1].unwind, Setup[drv][1].takes)
  BY <1>2, <1>4, <1>6, <1>3, OnTopPairs, SMTT(30) DEF Ordered
<1>9. LeftOut({}) = {}
  BY SMT DEF LeftOut
<1>10. Covers(2, Teardown[drv], {})
  BY <1>2, <1>4, <1>6, <1>9, SMTT(30) DEF Covers, Lasting, Must, Follow, Complain
<1>11. Ordered(2, Teardown[drv], {})
  BY <1>2, <1>4, <1>6, OnTopPairs, SMTT(30) DEF Ordered
<1>12. Len(Setup[drv]) = 1
  BY <1>1, <1>2, Zenon
<1>13. Len(Setup[drv]) + 1 = 2
  BY <1>12, SMT
<1>14. CallsFit
  BY <1>13, <1>2, <1>4, <1>5, SMTT(30) DEF CallsFit, Pinning
<1>15. \A k: Addable(k) = {}
  BY <1>5, AddableAdded, Zenon
<1>16. Added \subseteq Listed(Teardown[drv]) \cap {"armed", "pending"}
  BY <1>2, <1>5, <1>6, SMT
<1>17. ASSUME NEW k \in 1..1, Setup[drv][k].refusal = "seen"
      PROVE  /\ Covers(k, Setup[drv][k].unwind, Setup[drv][k].takes)
             /\ Ordered(k, Setup[drv][k].unwind, Setup[drv][k].takes)
             /\ Addable(k) = {}
  <2>1. k = 1
    BY SMT
  <2>2. QED
    BY <2>1, <1>17, <1>7, <1>8, <1>15, SMT
<1>18. QED
  BY <1>12, <1>13, <1>10, <1>14, <1>17, <1>11, <1>16, Zenon DEF Fits

LEMMA BlockV5Fits ==
  ASSUME drv = "block_v5"
  PROVE  Fits
<1>1. /\ Len(Block5Init) = 6
      /\ Block5Init[1] = Hoped({"major"})
      /\ Block5Init[2] = Tested({"dev"}, <<"major">>)
      /\ Block5Init[3] = Tested({"data"}, <<"major", "dev">>)
      /\ Block5Init[4] = Trusted({"queue", "tags"})
      /\ Block5Init[5] = Trusted({"gendisk"})
      /\ Block5Init[6] = Sure({"disk"})
  BY SMT DEF Block5Init
<1>2. /\ Setup[drv] = Block5Init
      /\ Teardown[drv] = <<"disk", "gendisk", "queue", "data", "major", "dev">>
      /\ CallsOf(drv) = Block5Calls
      /\ LeftAnyway = {"tags"}
  BY SMT DEF Setup, Teardown, Block5Exit, CallsOf, Calls, LeftAnyway
<1>3. Setup[drv][1].takes = {"major"} /\ Setup[drv][1].refusal = "unseen"
  BY <1>1, <1>2, SMT DEF Hoped
<1>4. /\ Setup[drv][2].takes = {"dev"} /\ Setup[drv][2].refusal = "seen"
      /\ Setup[drv][2].unwind = <<"major">>
      /\ LeftOut(Setup[drv][2].takes) = {}
  BY <1>1, <1>2, SMT DEF Tested, LeftOut, LeftOutFor
<1>5. /\ Setup[drv][3].takes = {"data"} /\ Setup[drv][3].refusal = "seen"
      /\ Setup[drv][3].unwind = <<"major", "dev">>
      /\ LeftOut(Setup[drv][3].takes) = {}
  BY <1>1, <1>2, SMT DEF Tested, LeftOut, LeftOutFor
<1>6. Setup[drv][4].takes = {"queue", "tags"} /\ Setup[drv][4].refusal = "fatal"
  BY <1>1, <1>2, SMT DEF Trusted
<1>7. Setup[drv][5].takes = {"gendisk"} /\ Setup[drv][5].refusal = "fatal"
  BY <1>1, <1>2, SMT DEF Trusted
<1>8. Setup[drv][6].takes = {"disk"} /\ Setup[drv][6].refusal = "none"
  BY <1>1, <1>2, SMT DEF Sure
<1>9. /\ Before(1) = {}
      /\ Before(2) = Before(1) \cup {"major"}
      /\ Before(3) = Before(2) \cup {"dev"}
      /\ Before(4) = Before(3) \cup {"data"}
      /\ Before(5) = Before(4) \cup {"queue", "tags"}
      /\ Before(6) = Before(5) \cup {"gendisk"}
      /\ Before(7) = Before(6) \cup {"disk"}
  BY <1>3, <1>4, <1>5, <1>6, <1>7, <1>8, BeforeSteps, Zenon
<1>10. /\ Before(1) = {}
       /\ Before(2) = {"major"}
       /\ Before(3) = {"major", "dev"}
       /\ Before(4) = {"major", "dev", "data"}
       /\ Before(5) = {"major", "dev", "data", "queue", "tags"}
       /\ Before(6) = {"major", "dev", "data", "queue", "tags", "gendisk"}
       /\ Before(7) = {"major", "dev", "data", "queue", "tags", "gendisk", "disk"}
  BY <1>9, SMT
<1>11. Added = {}
  BY <1>2, CallsAdd, Zenon DEF Added
<1>12. /\ InOrder(<<"major">>) /\ Listed(<<"major">>) = {"major"}
       /\ InOrder(<<"major", "dev">>) /\ Listed(<<"major", "dev">>) = {"major", "dev"}
       /\ InOrder(<<"disk", "gendisk", "queue", "data", "major", "dev">>)
       /\ Listed(<<"disk", "gendisk", "queue", "data", "major", "dev">>) =
            {"disk", "gendisk", "queue", "data", "major", "dev"}
  BY Lists, Zenon
<1>13. Covers(2, Setup[drv][2].unwind, Setup[drv][2].takes)
  BY <1>2, <1>4, <1>10, <1>12, SMTT(30) DEF Covers, Lasting, Must, Follow, Complain
<1>14. Ordered(2, Setup[drv][2].unwind, Setup[drv][2].takes)
  BY <1>2, <1>10, <1>12, <1>4, OnTopPairs, SMTT(30) DEF Ordered
<1>15. Covers(3, Setup[drv][3].unwind, Setup[drv][3].takes)
  BY <1>2, <1>5, <1>10, <1>12, SMTT(30) DEF Covers, Lasting, Must, Follow, Complain
<1>16. Ordered(3, Setup[drv][3].unwind, Setup[drv][3].takes)
  BY <1>2, <1>10, <1>12, <1>5, OnTopPairs, SMTT(30) DEF Ordered
<1>17. LeftOut({}) = {}
  BY SMT DEF LeftOut
<1>18. Covers(7, Teardown[drv], {})
  BY <1>2, <1>10, <1>12, <1>17, SMTT(30) DEF Covers, Lasting, Must, Follow, Complain
<1>19. Ordered(7, Teardown[drv], {})
  <2>1. Precedes("disk", "gendisk", <<"disk", "gendisk", "queue", "data", "major", "dev">>)
    BY Orders, Zenon
  <2>2. QED
    BY <1>2, <1>10, <1>12, <2>1, OnTopPairs, SMTT(30) DEF Ordered
<1>20. Len(Setup[drv]) = 6
  BY <1>1, <1>2, Zenon
<1>21. Len(Setup[drv]) + 1 = 7
  BY <1>20, SMT
<1>22. CallsFit
  BY <1>21, <1>2, <1>10, <1>11, SMTT(30) DEF CallsFit, Block5Calls, Call, Pinning
<1>23. \A k: Addable(k) = {}
  BY <1>11, AddableAdded, Zenon
<1>24. Added \subseteq Listed(Teardown[drv]) \cap {"armed", "pending"}
  BY <1>2, <1>11, <1>12, SMT
<1>25. ASSUME NEW k \in 1..6, Setup[drv][k].refusal = "seen"
      PROVE  /\ Covers(k, Setup[drv][k].unwind, Setup[drv][k].takes)
             /\ Ordered(k, Setup[drv][k].unwind, Setup[drv][k].takes)
             /\ Addable(k) = {}
  <2>1. k = 1 \/ k = 2 \/ k = 3 \/ k = 4 \/ k = 5 \/ k = 6
    BY SMT
  <2>2. QED
    BY <2>1, <1>25, <1>3, <1>6, <1>7, <1>8, <1>13, <1>15, <1>14, <1>16, <1>23, SMT
<1>26. QED
  BY <1>20, <1>21, <1>18, <1>22, <1>25, <1>19, <1>24, Zenon DEF Fits

LEMMA BlockV26Fits ==
  ASSUME drv = "block_v26"
  PROVE  Fits
<1>1. /\ Len(Block26Init) = 5
      /\ Block26Init[1] = Hoped({"major"})
      /\ Block26Init[2] = Hoped({"queue"})
      /\ Block26Init[3] = Trusted({"gendisk"})
      /\ Block26Init[4] = Hoped({"data"})
      /\ Block26Init[5] = Sure({"disk"})
  BY SMT DEF Block26Init
<1>2. /\ Setup[drv] = Block26Init
      /\ Teardown[drv] = <<"gendisk", "disk", "data", "queue", "major">>
      /\ CallsOf(drv) = Block26Calls
      /\ LeftAnyway = {}
  BY SMT DEF Setup, Teardown, Block26Exit, CallsOf, Calls, LeftAnyway
<1>3. Setup[drv][1].takes = {"major"} /\ Setup[drv][1].refusal = "unseen"
  BY <1>1, <1>2, SMT DEF Hoped
<1>4. Setup[drv][2].takes = {"queue"} /\ Setup[drv][2].refusal = "unseen"
  BY <1>1, <1>2, SMT DEF Hoped
<1>5. Setup[drv][3].takes = {"gendisk"} /\ Setup[drv][3].refusal = "fatal"
  BY <1>1, <1>2, SMT DEF Trusted
<1>6. Setup[drv][4].takes = {"data"} /\ Setup[drv][4].refusal = "unseen"
  BY <1>1, <1>2, SMT DEF Hoped
<1>7. Setup[drv][5].takes = {"disk"} /\ Setup[drv][5].refusal = "none"
  BY <1>1, <1>2, SMT DEF Sure
<1>8. /\ Before(1) = {}
      /\ Before(2) = {"major"}
      /\ Before(3) = {"major", "queue"}
      /\ Before(4) = {"major", "queue", "gendisk"}
      /\ Before(5) = {"major", "queue", "gendisk", "data"}
      /\ Before(6) = {"major", "queue", "gendisk", "data", "disk"}
  BY <1>3, <1>4, <1>5, <1>6, <1>7, BeforeSteps, SMT
<1>9. Added = {}
  BY <1>2, CallsAdd, Zenon DEF Added
<1>10. /\ InOrder(<<"gendisk", "disk", "data", "queue", "major">>)
       /\ Listed(<<"gendisk", "disk", "data", "queue", "major">>) =
            {"gendisk", "disk", "data", "queue", "major"}
  BY Lists, Zenon
<1>11. LeftOut({}) = {}
  BY SMT DEF LeftOut
<1>12. Covers(6, Teardown[drv], {})
  BY <1>2, <1>8, <1>10, <1>11, SMTT(30) DEF Covers, Lasting, Must, Follow, Complain
<1>13. Ordered(6, Teardown[drv], {})
  BY <1>2, <1>8, <1>10, OnTopPairs, SMTT(30) DEF Ordered, Excused
<1>14. Len(Setup[drv]) = 5
  BY <1>1, <1>2, Zenon
<1>15. Len(Setup[drv]) + 1 = 6
  BY <1>14, SMT
<1>16. CallsFit
  BY <1>15, <1>2, <1>8, <1>9, SMTT(30) DEF CallsFit, Block26Calls, Call, Pinning
<1>17. \A k: Addable(k) = {}
  BY <1>9, AddableAdded, Zenon
<1>18. Added \subseteq Listed(Teardown[drv]) \cap {"armed", "pending"}
  BY <1>2, <1>9, <1>10, SMT
<1>19. ASSUME NEW k \in 1..5, Setup[drv][k].refusal = "seen"
      PROVE  /\ Covers(k, Setup[drv][k].unwind, Setup[drv][k].takes)
             /\ Ordered(k, Setup[drv][k].unwind, Setup[drv][k].takes)
             /\ Addable(k) = {}
  <2>1. k = 1 \/ k = 2 \/ k = 3 \/ k = 4 \/ k = 5
    BY SMT
  <2>2. QED
    BY <2>1, <1>19, <1>3, <1>4, <1>5, <1>6, <1>7, <1>17, SMT
<1>20. QED
  BY <1>14, <1>15, <1>12, <1>16, <1>19, <1>13, <1>18, Zenon DEF Fits

LEMMA PciTemplateFits ==
  ASSUME drv = "pci_template"
  PROVE  Fits
<1>1. /\ Len(PciTemplateInit) = 8
      /\ PciTemplateInit[1] = Tested({"enabled"}, <<>>)
      /\ PciTemplateInit[2] = Tested({"mwi"}, <<"enabled">>)
      /\ PciTemplateInit[3] = Tested({}, PciBars)
      /\ PciTemplateInit[4] = Tested({"iomem"}, PciBars)
      /\ PciTemplateInit[5] = Tested({"iomap"}, PciReleased)
      /\ PciTemplateInit[6] = Tested({"mask"}, PciReleased)
      /\ PciTemplateInit[7] = Tested({"netdev"}, PciUnmapped)
      /\ PciTemplateInit[8] = Tested({"registered"}, <<"netdev">> \o PciUnmapped)
  BY SMT DEF PciTemplateInit, PciEnables, PciMaps, PciNetdevs
<1>2. /\ Setup[drv] = PciTemplateInit
      /\ Teardown[drv] = <<"registered", "netdev", "iomap", "ioport", "iomem", "mwi", "enabled">>
      /\ CallsOf(drv) = PciNetCalls
      /\ LeftAnyway = {}
  BY ExitSequences, SMT DEF Setup, Teardown, CallsOf, Calls, LeftAnyway
<1>3. /\ Setup[drv][1].takes = {"enabled"} /\ Setup[drv][1].refusal = "seen"
      /\ Setup[drv][1].unwind = <<>>
      /\ LeftOut(Setup[drv][1].takes) = {}
  BY <1>1, PciSequences, <1>2, SMT DEF Tested, LeftOut, LeftOutFor
<1>4. /\ Setup[drv][2].takes = {"mwi"} /\ Setup[drv][2].refusal = "seen"
      /\ Setup[drv][2].unwind = <<"enabled">>
      /\ LeftOut(Setup[drv][2].takes) = {}
  BY <1>1, PciSequences, <1>2, SMT DEF Tested, LeftOut, LeftOutFor
<1>5. /\ Setup[drv][3].takes = {} /\ Setup[drv][3].refusal = "seen"
      /\ Setup[drv][3].unwind = <<"mwi", "enabled">>
      /\ LeftOut(Setup[drv][3].takes) = {}
  BY <1>1, PciSequences, <1>2, SMT DEF Tested, LeftOut, LeftOutFor
<1>6. /\ Setup[drv][4].takes = {"iomem"} /\ Setup[drv][4].refusal = "seen"
      /\ Setup[drv][4].unwind = <<"mwi", "enabled">>
      /\ LeftOut(Setup[drv][4].takes) = {}
  BY <1>1, PciSequences, <1>2, SMT DEF Tested, LeftOut, LeftOutFor
<1>7. /\ Setup[drv][5].takes = {"iomap"} /\ Setup[drv][5].refusal = "seen"
      /\ Setup[drv][5].unwind = <<"ioport", "iomem", "mwi", "enabled">>
      /\ LeftOut(Setup[drv][5].takes) = {}
  BY <1>1, PciSequences, <1>2, SMT DEF Tested, LeftOut, LeftOutFor
<1>8. /\ Setup[drv][6].takes = {"mask"} /\ Setup[drv][6].refusal = "seen"
      /\ Setup[drv][6].unwind = <<"ioport", "iomem", "mwi", "enabled">>
      /\ LeftOut(Setup[drv][6].takes) = {"iomap"}
  BY <1>1, PciSequences, <1>2, SMT DEF Tested, LeftOut, LeftOutFor
<1>9. /\ Setup[drv][7].takes = {"netdev"} /\ Setup[drv][7].refusal = "seen"
      /\ Setup[drv][7].unwind = <<"iomap", "ioport", "iomem", "mwi", "enabled">>
      /\ LeftOut(Setup[drv][7].takes) = {}
  BY <1>1, PciSequences, <1>2, SMT DEF Tested, LeftOut, LeftOutFor
<1>10. /\ Setup[drv][8].takes = {"registered"} /\ Setup[drv][8].refusal = "seen"
       /\ Setup[drv][8].unwind = <<"netdev", "iomap", "ioport", "iomem", "mwi", "enabled">>
       /\ LeftOut(Setup[drv][8].takes) = {}
  BY <1>1, PciSequences, <1>2, SMT DEF Tested, LeftOut, LeftOutFor
<1>11. /\ Before(1) = {}
       /\ Before(2) = Before(1) \cup {"enabled"}
       /\ Before(3) = Before(2) \cup {"mwi"}
       /\ Before(4) = Before(3) \cup {}
       /\ Before(5) = Before(4) \cup {"iomem"}
       /\ Before(6) = Before(5) \cup {"iomap"}
       /\ Before(7) = Before(6) \cup {"mask"}
       /\ Before(8) = Before(7) \cup {"netdev"}
       /\ Before(9) = Before(8) \cup {"registered"}
  BY <1>3, <1>4, <1>5, <1>6, <1>7, <1>8, <1>9, <1>10, BeforeSteps, Zenon
<1>12. /\ Before(1) = {}
       /\ Before(2) = {"enabled"}
       /\ Before(3) = {"enabled", "mwi"}
       /\ Before(4) = {"enabled", "mwi"}
       /\ Before(5) = {"enabled", "mwi", "iomem"}
       /\ Before(6) = {"enabled", "mwi", "iomem", "iomap"}
       /\ Before(7) = {"enabled", "mwi", "iomem", "iomap", "mask"}
       /\ Before(8) = {"enabled", "mwi", "iomem", "iomap", "mask", "netdev"}
       /\ Before(9) = {"enabled", "mwi", "iomem", "iomap", "mask", "netdev", "registered"}
  BY <1>11, SMT
<1>13. Added = {}
  BY <1>2, CallsAdd, Zenon DEF Added
<1>14. /\ InOrder(<<>>) /\ Listed(<<>>) = {}
       /\ InOrder(<<"enabled">>) /\ Listed(<<"enabled">>) = {"enabled"}
       /\ InOrder(<<"mwi", "enabled">>) /\ Listed(<<"mwi", "enabled">>) = {"mwi", "enabled"}
       /\ InOrder(<<"ioport", "iomem", "mwi", "enabled">>)
       /\ Listed(<<"ioport", "iomem", "mwi", "enabled">>) = {"ioport", "iomem", "mwi", "enabled"}
       /\ InOrder(<<"iomap", "ioport", "iomem", "mwi", "enabled">>)
       /\ Listed(<<"iomap", "ioport", "iomem", "mwi", "enabled">>) =
            {"iomap", "ioport", "iomem", "mwi", "enabled"}
       /\ InOrder(<<"netdev", "iomap", "ioport", "iomem", "mwi", "enabled">>)
       /\ Listed(<<"netdev", "iomap", "ioport", "iomem", "mwi", "enabled">>) =
            {"netdev", "iomap", "ioport", "iomem", "mwi", "enabled"}
       /\ InOrder(<<"registered", "netdev", "iomap", "ioport", "iomem", "mwi", "enabled">>)
       /\ Listed(<<"registered", "netdev", "iomap", "ioport", "iomem", "mwi", "enabled">>) =
            {"registered", "netdev", "iomap", "ioport", "iomem", "mwi", "enabled"}
  BY Lists, Zenon
<1>15. Covers(1, Setup[drv][1].unwind, Setup[drv][1].takes)
  BY <1>2, <1>3, <1>12, <1>14, SMTT(30) DEF Covers, Lasting, Must, Follow, Complain
<1>16. Ordered(1, Setup[drv][1].unwind, Setup[drv][1].takes)
  BY <1>2, <1>12, <1>14, <1>3, OnTopPairs, SMTT(30) DEF Ordered
<1>17. Covers(2, Setup[drv][2].unwind, Setup[drv][2].takes)
  BY <1>2, <1>4, <1>12, <1>14, SMTT(30) DEF Covers, Lasting, Must, Follow, Complain
<1>18. Ordered(2, Setup[drv][2].unwind, Setup[drv][2].takes)
  BY <1>2, <1>12, <1>14, <1>4, OnTopPairs, SMTT(30) DEF Ordered
<1>19. Covers(3, Setup[drv][3].unwind, Setup[drv][3].takes)
  BY <1>2, <1>5, <1>12, <1>14, SMTT(30) DEF Covers, Lasting, Must, Follow, Complain
<1>20. Ordered(3, Setup[drv][3].unwind, Setup[drv][3].takes)
  BY <1>2, <1>12, <1>14, <1>5, OnTopPairs, SMTT(30) DEF Ordered
<1>21. Covers(4, Setup[drv][4].unwind, Setup[drv][4].takes)
  BY <1>2, <1>6, <1>12, <1>14, SMTT(30) DEF Covers, Lasting, Must, Follow, Complain
<1>22. Ordered(4, Setup[drv][4].unwind, Setup[drv][4].takes)
  BY <1>2, <1>12, <1>14, <1>6, OnTopPairs, SMTT(30) DEF Ordered
<1>23. Covers(5, Setup[drv][5].unwind, Setup[drv][5].takes)
  BY <1>2, <1>7, <1>12, <1>14, SMTT(30) DEF Covers, Lasting, Must, Follow, Complain
<1>24. Ordered(5, Setup[drv][5].unwind, Setup[drv][5].takes)
  BY <1>2, <1>12, <1>14, <1>7, OnTopPairs, SMTT(30) DEF Ordered
<1>25. Covers(6, Setup[drv][6].unwind, Setup[drv][6].takes)
  BY <1>2, <1>8, <1>12, <1>14, SMTT(30) DEF Covers, Lasting, Must, Follow, Complain
<1>26. Ordered(6, Setup[drv][6].unwind, Setup[drv][6].takes)
  BY <1>2, <1>12, <1>14, <1>8, OnTopPairs, SMTT(30) DEF Ordered, Excused
<1>27. Covers(7, Setup[drv][7].unwind, Setup[drv][7].takes)
  <2>1. \A r \in Before(7):
          r \in Listed(<<"iomap", "ioport", "iomem", "mwi", "enabled">>)
            \cup Lasting \cup LeftAnyway \cup {}
    BY <1>2, <1>9, <1>12, <1>14, SMT DEF Lasting
  <2>2. \A r \in Listed(<<"iomap", "ioport", "iomem", "mwi", "enabled">>):
          r \in Must => r \in Before(7) \cup {"netdev"}
    BY <1>2, <1>9, <1>12, <1>14, SMT DEF Must, Follow, Complain
  <2>3. QED
    BY <2>1, <2>2, <1>2, <1>9, <1>12, <1>14, SMTT(30) DEF Covers
<1>28. Ordered(7, Setup[drv][7].unwind, Setup[drv][7].takes)
  <2>1. /\ Setup[drv][7].unwind = <<"iomap", "ioport", "iomem", "mwi", "enabled">>
       /\ Listed(Setup[drv][7].unwind) = {"iomap", "ioport", "iomem", "mwi", "enabled"}
       /\ Before(7) = {"enabled", "mwi", "iomem", "iomap", "mask"}
    BY <1>2, <1>12, <1>14, <1>9, Zenon
  <2>2. /\ Precedes("iomap", "iomem", <<"iomap", "ioport", "iomem", "mwi", "enabled">>)
    BY Orders, Zenon
  <2>3. QED
    BY <2>1, <2>2, OnTopPairs, SMTT(30) DEF Ordered
<1>29. Covers(8, Setup[drv][8].unwind, Setup[drv][8].takes)
  <2>1. \A r \in Before(8):
          r \in Listed(<<"netdev", "iomap", "ioport", "iomem", "mwi", "enabled">>)
            \cup Lasting \cup LeftAnyway \cup {"registered"}
    BY <1>2, <1>10, <1>12, <1>14, <1>9, SMT DEF Lasting
  <2>2. \A r \in Listed(<<"netdev", "iomap", "ioport", "iomem", "mwi", "enabled">>):
          r \in Must => r \in Before(8) \cup {"registered"}
    BY <1>2, <1>10, <1>12, <1>14, <1>9, SMT DEF Must, Follow, Complain
  <2>3. \E j \in 1..(8 - 1):
          "netdev" \in Setup[drv][j].takes /\ Setup[drv][j].refusal # "unseen"
    <3>1. 7 \in 1..(8 - 1)
      BY SMT
    <3>2. QED
      BY <3>1, <1>2, <1>10, <1>12, <1>14, <1>9, Zenon
  <2>4. QED
    BY <2>1, <2>2, <2>3, <1>2, <1>10, <1>12, <1>14, <1>9, SMTT(30) DEF Covers
<1>30. Ordered(8, Setup[drv][8].unwind, Setup[drv][8].takes)
  <2>1. /\ Setup[drv][8].unwind = <<"netdev", "iomap", "ioport", "iomem", "mwi", "enabled">>
       /\ Listed(Setup[drv][8].unwind) = {"netdev", "iomap", "ioport", "iomem", "mwi", "enabled"}
       /\ Before(8) = {"enabled", "mwi", "iomem", "iomap", "mask", "netdev"}
    BY <1>2, <1>12, <1>14, <1>10, Zenon
  <2>2. /\ Precedes("iomap", "iomem",
               <<"netdev", "iomap", "ioport", "iomem", "mwi", "enabled">>)
    BY Orders, Zenon
  <2>3. QED
    BY <2>1, <2>2, OnTopPairs, SMTT(30) DEF Ordered
<1>31. LeftOut({}) = {}
  BY SMT DEF LeftOut
<1>32. Covers(9, Teardown[drv], {})
  <2>1. \A r \in Before(9):
          r \in Listed(<<"registered", "netdev", "iomap", "ioport", "iomem", "mwi", "enabled">>)
            \cup Lasting \cup LeftAnyway \cup {"registered"}
    BY <1>2, <1>12, <1>14, <1>9, <1>31, SMT DEF Lasting
  <2>2. \A r \in Listed(<<"registered", "netdev", "iomap", "ioport", "iomem", "mwi", "enabled">>):
          r \in Must => r \in Before(9) \cup {}
    BY <1>2, <1>12, <1>14, <1>9, <1>31, SMT DEF Must, Follow, Complain
  <2>3. \E j \in 1..(9 - 1):
          "netdev" \in Setup[drv][j].takes /\ Setup[drv][j].refusal # "unseen"
    <3>1. 7 \in 1..(9 - 1)
      BY SMT
    <3>2. QED
      BY <3>1, <1>2, <1>12, <1>14, <1>9, <1>31, Zenon
  <2>4. QED
    BY <2>1, <2>2, <2>3, <1>2, <1>12, <1>14, <1>9, <1>31, SMTT(30) DEF Covers
<1>33. Ordered(9, Teardown[drv], {})
  <2>1. /\ Teardown[drv] = <<"registered", "netdev", "iomap", "ioport", "iomem", "mwi", "enabled">>
       /\ Listed(Teardown[drv]) =
            {"registered", "netdev", "iomap", "ioport", "iomem", "mwi", "enabled"}
       /\ Before(9) = {"enabled", "mwi", "iomem", "iomap", "mask", "netdev", "registered"}
    BY <1>2, <1>12, <1>14, Zenon
  <2>2. /\ Precedes("registered", "netdev",
               <<"registered", "netdev", "iomap", "ioport", "iomem", "mwi", "enabled">>)
       /\ Precedes("iomap", "iomem",
              <<"registered", "netdev", "iomap", "ioport", "iomem", "mwi", "enabled">>)
    BY Orders, Zenon
  <2>3. QED
    BY <2>1, <2>2, OnTopPairs, SMTT(30) DEF Ordered
<1>34. Len(Setup[drv]) = 8
  BY <1>1, PciSequences, <1>2, Zenon
<1>35. Len(Setup[drv]) + 1 = 9
  BY <1>34, SMT
<1>36. CallsFit
  BY <1>35, <1>2, <1>12, <1>13, SMTT(30) DEF CallsFit, PciNetCalls, Call, Pinning
<1>37. \A k: Addable(k) = {}
  BY <1>13, AddableAdded, Zenon
<1>38. Added \subseteq Listed(Teardown[drv]) \cap {"armed", "pending"}
  BY <1>2, <1>13, <1>14, SMT
<1>39. ASSUME NEW k \in 1..8, Setup[drv][k].refusal = "seen"
      PROVE  /\ Covers(k, Setup[drv][k].unwind, Setup[drv][k].takes)
             /\ Ordered(k, Setup[drv][k].unwind, Setup[drv][k].takes)
             /\ Addable(k) = {}
  <2>1. k = 1 \/ k = 2 \/ k = 3 \/ k = 4 \/ k = 5 \/ k = 6 \/ k = 7 \/ k = 8
    BY SMT
  <2>2. QED
    BY <2>1, <1>39, <1>15, <1>17, <1>19, <1>21, <1>23, <1>25, <1>27, <1>29, <1>16, <1>18,
       <1>20, <1>22, <1>24, <1>26, <1>28, <1>30, <1>37, SMT
<1>40. QED
  BY <1>34, <1>35, <1>32, <1>36, <1>39, <1>33, <1>38, Zenon DEF Fits

LEMMA UsbTemplateFits ==
  ASSUME drv = "usb_template"
  PROVE  Fits
<1>1. /\ Len(UsbTemplateInit) = 3
      /\ UsbTemplateInit[1] = Tested({"netdev"}, <<>>)
      /\ UsbTemplateInit[2] = Tested({"registered"}, <<"netdev">>)
      /\ UsbTemplateInit[3] = Tested({"mac"}, <<"netdev">>)
  BY SMT DEF UsbTemplateInit
<1>2. /\ Setup[drv] = UsbTemplateInit
      /\ Teardown[drv] = <<"netdev">>
      /\ CallsOf(drv) = UsbNetCalls
      /\ LeftAnyway = {}
  BY SMT DEF Setup, Teardown, UsbTemplateExit, CallsOf, Calls, LeftAnyway
<1>3. /\ Setup[drv][1].takes = {"netdev"} /\ Setup[drv][1].refusal = "seen"
      /\ Setup[drv][1].unwind = <<>>
      /\ LeftOut(Setup[drv][1].takes) = {}
  BY <1>1, <1>2, SMT DEF Tested, LeftOut, LeftOutFor
<1>4. /\ Setup[drv][2].takes = {"registered"} /\ Setup[drv][2].refusal = "seen"
      /\ Setup[drv][2].unwind = <<"netdev">>
      /\ LeftOut(Setup[drv][2].takes) = {}
  BY <1>1, <1>2, SMT DEF Tested, LeftOut, LeftOutFor
<1>5. /\ Setup[drv][3].takes = {"mac"} /\ Setup[drv][3].refusal = "seen"
      /\ Setup[drv][3].unwind = <<"netdev">>
      /\ LeftOut(Setup[drv][3].takes) = {}
  BY <1>1, <1>2, SMT DEF Tested, LeftOut, LeftOutFor
<1>6. /\ Before(1) = {}
      /\ Before(2) = {"netdev"}
      /\ Before(3) = {"netdev", "registered"}
      /\ Before(4) = {"netdev", "registered", "mac"}
  BY <1>3, <1>4, <1>5, BeforeSteps, SMT
<1>7. Added = {}
  BY <1>2, CallsAdd, Zenon DEF Added
<1>8. /\ InOrder(<<>>) /\ Listed(<<>>) = {}
      /\ InOrder(<<"netdev">>) /\ Listed(<<"netdev">>) = {"netdev"}
      /\ InOrder(<<"netdev">>) /\ Listed(<<"netdev">>) = {"netdev"}
  BY Lists, Zenon
<1>9. Covers(1, Setup[drv][1].unwind, Setup[drv][1].takes)
  BY <1>2, <1>3, <1>6, <1>8, SMTT(30) DEF Covers, Lasting, Must, Follow, Complain
<1>10. Ordered(1, Setup[drv][1].unwind, Setup[drv][1].takes)
  BY <1>2, <1>6, <1>8, <1>3, OnTopPairs, SMTT(30) DEF Ordered
<1>11. Covers(2, Setup[drv][2].unwind, Setup[drv][2].takes)
  BY <1>2, <1>4, <1>6, <1>8, <1>3, SMTT(30) DEF Covers, Lasting, Must, Follow, Complain
<1>12. Ordered(2, Setup[drv][2].unwind, Setup[drv][2].takes)
  BY <1>2, <1>6, <1>8, <1>4, OnTopPairs, SMTT(30) DEF Ordered
<1>13. Covers(3, Setup[drv][3].unwind, Setup[drv][3].takes)
  BY <1>2, <1>5, <1>6, <1>8, <1>3, SMTT(30) DEF Covers, Lasting, Must, Follow, Complain
<1>14. Ordered(3, Setup[drv][3].unwind, Setup[drv][3].takes)
  BY <1>2, <1>6, <1>8, <1>5, OnTopPairs, SMTT(30) DEF Ordered, Excused
<1>15. LeftOut({}) = {}
  BY SMT DEF LeftOut
<1>16. Covers(4, Teardown[drv], {})
  BY <1>2, <1>6, <1>8, <1>3, <1>15, SMTT(30) DEF Covers, Lasting, Must, Follow, Complain
<1>17. Ordered(4, Teardown[drv], {})
  BY <1>2, <1>6, <1>8, OnTopPairs, SMTT(30) DEF Ordered, Excused
<1>18. Len(Setup[drv]) = 3
  BY <1>1, <1>2, Zenon
<1>19. Len(Setup[drv]) + 1 = 4
  BY <1>18, SMT
<1>20. CallsFit
  BY <1>19, <1>2, <1>6, <1>7, SMTT(30) DEF CallsFit, UsbNetCalls, Call, Pinning
<1>21. \A k: Addable(k) = {}
  BY <1>7, AddableAdded, Zenon
<1>22. Added \subseteq Listed(Teardown[drv]) \cap {"armed", "pending"}
  BY <1>2, <1>7, <1>8, SMT
<1>23. ASSUME NEW k \in 1..3, Setup[drv][k].refusal = "seen"
      PROVE  /\ Covers(k, Setup[drv][k].unwind, Setup[drv][k].takes)
             /\ Ordered(k, Setup[drv][k].unwind, Setup[drv][k].takes)
             /\ Addable(k) = {}
  <2>1. k = 1 \/ k = 2 \/ k = 3
    BY SMT
  <2>2. QED
    BY <2>1, <1>23, <1>9, <1>11, <1>13, <1>10, <1>12, <1>14, <1>21, SMT
<1>24. QED
  BY <1>18, <1>19, <1>16, <1>20, <1>23, <1>17, <1>22, Zenon DEF Fits

LEMMA Regs8139Fits ==
  ASSUME drv = "regs8139"
  PROVE  Fits
<1>1. /\ Len(Regs8139Init) = 4
      /\ Regs8139Init[1] = Tested({"pdev"}, <<>>)
      /\ Regs8139Init[2] = Tested({}, <<>>)
      /\ Regs8139Init[3] = Tested({"iomap"}, <<>>)
      /\ Regs8139Init[4] = Tested({"proc"}, <<>>)
  BY SMT DEF Regs8139Init
<1>2. /\ Setup[drv] = Regs8139Init
      /\ Teardown[drv] = <<"proc">>
      /\ CallsOf(drv) = RegsCalls
      /\ LeftAnyway = {"pdev", "iomap"}
  BY SMT DEF Setup, Teardown, Regs8139Exit, CallsOf, Calls, LeftAnyway
<1>3. /\ Setup[drv][1].takes = {"pdev"} /\ Setup[drv][1].refusal = "seen"
      /\ Setup[drv][1].unwind = <<>>
      /\ LeftOut(Setup[drv][1].takes) = {}
  BY <1>1, <1>2, SMT DEF Tested, LeftOut, LeftOutFor
<1>4. /\ Setup[drv][2].takes = {} /\ Setup[drv][2].refusal = "seen"
      /\ Setup[drv][2].unwind = <<>>
      /\ LeftOut(Setup[drv][2].takes) = {}
  BY <1>1, <1>2, SMT DEF Tested, LeftOut, LeftOutFor
<1>5. /\ Setup[drv][3].takes = {"iomap"} /\ Setup[drv][3].refusal = "seen"
      /\ Setup[drv][3].unwind = <<>>
      /\ LeftOut(Setup[drv][3].takes) = {}
  BY <1>1, <1>2, SMT DEF Tested, LeftOut, LeftOutFor
<1>6. /\ Setup[drv][4].takes = {"proc"} /\ Setup[drv][4].refusal = "seen"
      /\ Setup[drv][4].unwind = <<>>
      /\ LeftOut(Setup[drv][4].takes) = {}
  BY <1>1, <1>2, SMT DEF Tested, LeftOut, LeftOutFor
<1>7. /\ Before(1) = {}
      /\ Before(2) = {"pdev"}
      /\ Before(3) = {"pdev"}
      /\ Before(4) = {"pdev", "iomap"}
      /\ Before(5) = {"pdev", "iomap", "proc"}
  BY <1>3, <1>4, <1>5, <1>6, BeforeSteps, SMT
<1>8. Added = {}
  BY <1>2, CallsAdd, Zenon DEF Added
<1>9. /\ InOrder(<<>>) /\ Listed(<<>>) = {}
      /\ InOrder(<<"proc">>) /\ Listed(<<"proc">>) = {"proc"}
  BY Lists, Zenon
<1>10. Covers(1, Setup[drv][1].unwind, Setup[drv][1].takes)
  BY <1>2, <1>3, <1>7, <1>9, SMTT(30) DEF Covers, Lasting, Must, Follow, Complain
<1>11. Ordered(1, Setup[drv][1].unwind, Setup[drv][1].takes)
  BY <1>2, <1>7, <1>9, <1>3, OnTopPairs, SMTT(30) DEF Ordered
<1>12. Covers(2, Setup[drv][2].unwind, Setup[drv][2].takes)
  BY <1>2, <1>4, <1>7, <1>9, SMTT(30) DEF Covers, Lasting, Must, Follow, Complain
<1>13. Ordered(2, Setup[drv][2].unwind, Setup[drv][2].takes)
  BY <1>2, <1>7, <1>9, <1>4, OnTopPairs, SMTT(30) DEF Ordered
<1>14. Covers(3, Setup[drv][3].unwind, Setup[drv][3].takes)
  BY <1>2, <1>5, <1>7, <1>9, SMTT(30) DEF Covers, Lasting, Must, Follow, Complain
<1>15. Ordered(3, Setup[drv][3].unwind, Setup[drv][3].takes)
  BY <1>2, <1>7, <1>9, <1>5, OnTopPairs, SMTT(30) DEF Ordered
<1>16. Covers(4, Setup[drv][4].unwind, Setup[drv][4].takes)
  BY <1>2, <1>6, <1>7, <1>9, SMTT(30) DEF Covers, Lasting, Must, Follow, Complain
<1>17. Ordered(4, Setup[drv][4].unwind, Setup[drv][4].takes)
  BY <1>2, <1>7, <1>9, <1>6, OnTopPairs, SMTT(30) DEF Ordered
<1>18. LeftOut({}) = {}
  BY SMT DEF LeftOut
<1>19. Covers(5, Teardown[drv], {})
  BY <1>2, <1>7, <1>9, <1>18, SMTT(30) DEF Covers, Lasting, Must, Follow, Complain
<1>20. Ordered(5, Teardown[drv], {})
  BY <1>2, <1>7, <1>9, OnTopPairs, SMTT(30) DEF Ordered
<1>21. Len(Setup[drv]) = 4
  BY <1>1, <1>2, Zenon
<1>22. Len(Setup[drv]) + 1 = 5
  BY <1>21, SMT
<1>23. CallsFit
  BY <1>22, <1>2, <1>7, <1>8, SMTT(30) DEF CallsFit, RegsCalls, Call, Pinning
<1>24. \A k: Addable(k) = {}
  BY <1>8, AddableAdded, Zenon
<1>25. Added \subseteq Listed(Teardown[drv]) \cap {"armed", "pending"}
  BY <1>2, <1>8, <1>9, SMT
<1>26. ASSUME NEW k \in 1..4, Setup[drv][k].refusal = "seen"
      PROVE  /\ Covers(k, Setup[drv][k].unwind, Setup[drv][k].takes)
             /\ Ordered(k, Setup[drv][k].unwind, Setup[drv][k].takes)
             /\ Addable(k) = {}
  <2>1. k = 1 \/ k = 2 \/ k = 3 \/ k = 4
    BY SMT
  <2>2. QED
    BY <2>1, <1>26, <1>10, <1>12, <1>14, <1>16, <1>11, <1>13, <1>15, <1>17, <1>24, SMT
<1>27. QED
  BY <1>21, <1>22, <1>19, <1>23, <1>26, <1>20, <1>25, Zenon DEF Fits

\* In each of the sixteen modules, what an init that stops and an exit give back
\* covers what was taken before, in an order that is possible.
THEOREM TablesFit == drv \in Drivers => Fits
<1>1. Drivers = {"poll", "simple", "helloplus", "blinkplus", "mmap", "atomic_oprs", "hrtimer",
                 "basic_irq", "static_tasklet", "dynamic_tasklet", "misc_dev", "block_v5",
                 "block_v26", "pci_template", "usb_template", "regs8139"}
  BY SMT DEF Drivers, Setup
<1>2. QED
  BY <1>1, PollFits, SimpleFits, HelloplusFits, BlinkplusFits, MmapFits, AtomicOprsFits,
     HrtimerFits, BasicIrqFits, StaticTaskletFits, DynamicTaskletFits, MiscDevFits,
     BlockV5Fits, BlockV26Fits, PciTemplateFits, UsbTemplateFits, Regs8139Fits, Zenon

(* The walk.  A driver does not change on the way, so what is read of its  *)
(* tables does not either; one lemma for each action.                      *)

LEMMA ListedTail ==
  ASSUME NEW s \in Seq(Things), s # <<>>
  PROVE  Listed(s) = {Head(s)} \cup Listed(Tail(s))
<1>1. Len(s) \in Nat /\ Len(s) > 0 /\ DOMAIN s = 1..Len(s) /\ Head(s) = s[1]
  BY HeadTailProperties, LenProperties, EmptySeq, SMT
<1>2. DOMAIN Tail(s) = 1..(Len(s) - 1) /\ \A i \in 1..(Len(s) - 1): Tail(s)[i] = s[i + 1]
  BY <1>1, SMT
<1>3. \A i \in 2..Len(s): s[i] \in Listed(Tail(s))
  <2>1. TAKE i \in 2..Len(s)
  <2>2. i - 1 \in DOMAIN Tail(s) /\ Tail(s)[i - 1] = s[i]
    BY <1>2, <1>1, SMT
  <2>3. QED
    BY <2>2, Zenon DEF Listed
<1>4. QED
  BY <1>1, <1>2, <1>3, SMT DEF Listed

LEMMA OrderTail ==
  ASSUME NEW s, InOrder(s), s # <<>>
  PROVE  /\ InOrder(Tail(s)) /\ Listed(s) = {Head(s)} \cup Listed(Tail(s))
         /\ Head(s) \notin Listed(Tail(s)) /\ s[1] = Head(s)
         /\ Head(s) = "class" => "device" \notin Listed(Tail(s))
         /\ \A x: ~Precedes(x, Head(s), s)
         /\ \A x, r: Precedes(x, r, s) /\ x # Head(s) => Precedes(x, r, Tail(s))
<1>1. s \in Seq(Things)
  BY DEF InOrder
<1>2. Len(s) \in Nat /\ Len(s) > 0 /\ DOMAIN s = 1..Len(s) /\ Head(s) = s[1]
  BY <1>1, HeadTailProperties, LenProperties, EmptySeq, SMT
<1>3. DOMAIN Tail(s) = 1..(Len(s) - 1) /\ \A i \in 1..(Len(s) - 1): Tail(s)[i] = s[i + 1]
  BY <1>1, <1>2, SMT
<1>4. Tail(s) \in Seq(Things)
  BY <1>1, HeadTailProperties
<1>5. InOrder(Tail(s))
  <2> SUFFICES ASSUME NEW i \in DOMAIN Tail(s), NEW j \in DOMAIN Tail(s), i < j
      PROVE  /\ Tail(s)[i] # Tail(s)[j]
             /\ ~(Tail(s)[i] = "class" /\ Tail(s)[j] = "device")
    BY <1>4 DEF InOrder
  <2>1. i + 1 \in DOMAIN s /\ j + 1 \in DOMAIN s /\ i + 1 < j + 1
    BY <1>2, <1>3, SMT
  <2>2. Tail(s)[i] = s[i + 1] /\ Tail(s)[j] = s[j + 1]
    BY <1>3, Zenon
  <2>3. QED
    BY <2>1, <2>2 DEF InOrder
<1>6. ASSUME NEW r \in Listed(Tail(s))
      PROVE  r # Head(s) /\ ~(Head(s) = "class" /\ r = "device")
  <2>1. PICK i \in DOMAIN Tail(s): r = Tail(s)[i]
    BY <1>6 DEF Listed
  <2>2. 1 \in DOMAIN s /\ i + 1 \in DOMAIN s /\ 1 < i + 1 /\ r = s[i + 1]
    BY <1>2, <1>3, <2>1, SMT
  <2>3. QED
    BY <2>2, <1>2 DEF InOrder
<1>7. \A x: ~Precedes(x, Head(s), s)
  <2>1. 1 \in DOMAIN s /\ ~\E j \in 1..(1 - 1): TRUE
    BY <1>2, SMT
  <2>2. QED
    BY <1>2, <2>1, Zenon DEF Precedes
<1>8. ASSUME NEW x, NEW r, Precedes(x, r, s), x # Head(s)
      PROVE  Precedes(x, r, Tail(s))
  <2> SUFFICES ASSUME NEW i \in DOMAIN Tail(s), Tail(s)[i] = r
      PROVE  \E j \in 1..(i - 1): Tail(s)[j] = x
    BY Zenon DEF Precedes
  <2>1. i \in 1..(Len(s) - 1) /\ i + 1 \in DOMAIN s /\ s[i + 1] = r
    BY <1>2, <1>3, SMT
  <2>2. PICK j \in 1..((i + 1) - 1): s[j] = x
    BY <1>8, <2>1, Zenon DEF Precedes
  <2>3. j # 1
    BY <1>2, <1>8, <2>2, Zenon
  <2>4. j - 1 \in 1..(i - 1) /\ j - 1 \in 1..(Len(s) - 1) /\ (j - 1) + 1 = j
    BY <1>2, <2>1, <2>2, <2>3, SMT
  <2>5. Tail(s)[j - 1] = x
    BY <1>3, <2>2, <2>4, Zenon
  <2>6. QED
    BY <2>4, <2>5, Zenon
<1>9. QED
  BY <1>1, <1>2, <1>5, <1>6, <1>7, <1>8, ListedTail

LEMMA NothingListed == Listed(<<>>) = {}
BY SMT DEF Listed

LEMMA SameDriver ==
  ASSUME drv' = drv
  PROVE  /\ LeftAnyway' = LeftAnyway /\ Added' = Added
         /\ \A k: (Before(k))' = Before(k)
         /\ \A k: (Addable(k))' = Addable(k)
         /\ \A R: (LeftOut(R))' = LeftOut(R)
         /\ \A r: Excused(r, refused, late)' <=> Excused(r, refused', late')
<1>0. \A k: (Before(k))' = Before(k)
  BY Zenon DEF Before
<1>1. LeftAnyway' = LeftAnyway /\ Added' = Added
  BY Zenon DEF LeftAnyway, Added
<1>2. \A k: (Addable(k))' = Addable(k)
  BY <1>0, Zenon DEF Addable
<1>3. \A r: Excused(r, refused, late)' <=> Excused(r, refused', late')
  BY Zenon DEF Excused
<1>4. \A r: LeftOutFor(r)' = LeftOutFor(r)
  BY Zenon DEF LeftOutFor
<1>5. \A R: (LeftOut(R))' = LeftOut(R)
  BY <1>4, Zenon DEF LeftOut
<1>6. QED
  BY <1>0, <1>1, <1>2, <1>3, <1>5, Zenon

\* An excuse stays one when more is refused or late.
LEMMA ExcuseStays ==
  ASSUME NEW r, NEW R, NEW K, NEW R2, NEW K2, R \subseteq R2, K \subseteq K2, Excused(r, R, K)
  PROVE  Excused(r, R2, K2)
BY Zenon DEF Excused

\* What was explained stays explained, with init or what was refused as it was.
LEMMA ExplainedStays ==
  ASSUME LadderInv, UNCHANGED <<drv, at, refused>>, late \subseteq late'
  PROVE  \A w \in found: Explained(w[1], w[2])'
<1>1. ASSUME NEW w \in found PROVE Explained(w[1], w[2])'
  <2>1. Explained(w[1], w[2])
    BY <1>1 DEF LadderInv, StopsExplained
  <2>2. Excused(w[2], refused, late) => Excused(w[2], refused, late)'
    BY ExcuseStays, SameDriver, Zenon
  <2>3. QED
    BY <2>1, <2>2, Zenon DEF Explained, Missed
<1>2. QED
  BY <1>1, Zenon

\* Nothing that a call adds stands on anything.
LEMMA PairsBefore ==
  ASSUME NEW s, NEW r, <<s, r>> \in OnTop
  PROVE  s \notin {"armed", "pending"}
BY OnTopPairs, SMT

LEMMA LeftOutGrows ==
  ASSUME NEW A, NEW B
  PROVE  LeftOut(A) \subseteq LeftOut(A \cup B) /\ LeftOut(B) \subseteq LeftOut(A \cup B)
BY Zenon DEF LeftOut

LEMMA InitKeeps == LadderInit => LadderInv
<1> SUFFICES ASSUME LadderInit PROVE LadderInv
  OBVIOUS
<1>1. Len(Setup[drv]) \in Nat
  OBVIOUS
<1>2. QED
  BY SMT DEF LadderInit, LadderInv, StepsInv, ListInv, LeftInv, StopsExplained, Before

LEMMA LenType == Len(Setup[drv]) \in Nat
BY SMT

LEMMA AddableGrows ==
  ASSUME NEW k \in Nat \ {0}
  PROVE  Addable(k) \subseteq Addable(k + 1)
BY OneMore, Zenon DEF Addable

LEMMA GrantedKeeps ==
  ASSUME LadderInv, Granted
  PROVE  LadderInv'
<1>1. /\ pc = "init" /\ at \in Nat \ {0} /\ at <= Len(Setup[drv]) /\ pc' = "init"
      /\ drv' = drv /\ held' = held \cup Setup[drv][at].takes /\ at' = at + 1
      /\ refused' = refused /\ found' = found /\ todo' = todo /\ late' = late
  BY LenType, SMT DEF LadderInv, StepsInv, Granted
<1>2. /\ Before(at + 1) = Before(at) \cup Setup[drv][at].takes
      /\ Addable(at) \subseteq Addable(at + 1)
  BY <1>1, OneMore, AddableGrows
<1>3. StepsInv'
  <2>1. \A j \in 1..(at' - 1): j \in 1..(at - 1) \/ j = at
    BY <1>1, SMT
  <2>2. at' \in 1..(Len(Setup[drv]) + 1)
    BY <1>1, LenType, SMT
  <2>3. held' \subseteq Before(at') \cup Addable(at')
    BY <1>1, <1>2, Zenon DEF LadderInv, StepsInv
  <2>4. \A j \in 1..(at' - 1):
          /\ Setup[drv][j].takes \subseteq held' \cup refused'
          /\ Setup[drv][j].refusal # "unseen" => Setup[drv][j].takes \subseteq held'
    BY <1>1, <2>1, Zenon DEF LadderInv, StepsInv
  <2>5. Before(at') = Before(at)' /\ Addable(at') = Addable(at)'
    BY <1>1, SameDriver DEF Before, Addable
  <2>6. QED
    BY <1>1, <2>2, <2>3, <2>4, <2>5, SameDriver, Zenon DEF StepsInv
<1>4. ListInv' /\ LeftInv'
  BY <1>1, Zenon DEF LadderInv, ListInv, LeftInv
<1>5. QED
  BY <1>1, <1>3, <1>4, Zenon DEF LadderInv, StopsExplained

LEMMA RefusedKeeps ==
  ASSUME LadderInv, Refused
  PROVE  LadderInv'
<1>0. /\ pc = "init" /\ at \in Nat \ {0} /\ at \in 1..Len(Setup[drv]) /\ found = {}
      /\ drv' = drv /\ held' = held /\ refused' = refused \cup Setup[drv][at].takes
      /\ late' = late
  BY LenType, SMT DEF LadderInv, StepsInv, Refused
<1>1. CASE /\ Setup[drv][at].refusal = "seen"
           /\ pc' = "refused" /\ todo' = Setup[drv][at].unwind
           /\ UNCHANGED <<at, found>>
  <2>1. /\ Covers(at, Setup[drv][at].unwind, Setup[drv][at].takes)
        /\ Ordered(at, Setup[drv][at].unwind, Setup[drv][at].takes)
        /\ Addable(at) = {}
    BY <1>0, <1>1, TablesFit, Zenon DEF LadderInv, Fits
  <2>2. \A j \in 1..(at - 1):
          /\ Setup[drv][j].takes \subseteq held \cup refused
          /\ Setup[drv][j].refusal # "unseen" => Setup[drv][j].takes \subseteq held
    BY <1>0 DEF LadderInv, StepsInv
  <2>3. held \subseteq Before(at) /\ Before(at) \subseteq held \cup refused
    BY <1>0, <2>1, <2>2, Zenon DEF LadderInv, StepsInv, Before
  <2>4. StepsInv'
    <3>1. at' = at /\ pc' = "refused" /\ Before(at)' = Before(at')
      BY <1>0, <1>1, Zenon DEF Before
    <3>2. held' \subseteq Before(at)'
      BY <1>0, <2>3, <3>1, Zenon
    <3>3. at' <= Len(Setup[drv']) /\ Setup[drv'][at'].refusal = "seen"
      BY <1>0, <1>1, <3>1, SMT
    <3>4. QED
      BY <1>0, <3>1, <3>2, <3>3, LenType, SMT DEF StepsInv
  <2>5. ListInv'
    <3>1. ASSUME NEW r \in Listed(todo'), NEW s \in held', <<s, r>> \in OnTop
          PROVE  Excused(r, refused, late)' \/ Precedes(s, r, todo')
      <4>1. Excused(r, Setup[drv][at].takes, {}) \/ Precedes(s, r, todo')
        BY <1>0, <1>1, <2>1, <2>3, <3>1, Zenon DEF Ordered
      <4>2. Setup[drv][at].takes \subseteq refused' /\ {} \subseteq late'
        BY <1>0
      <4>3. Excused(r, Setup[drv][at].takes, {}) => Excused(r, refused', late')
        BY <4>2, ExcuseStays
      <4>4. QED
        BY <1>0, <4>1, <4>3, SameDriver, Zenon
    <3>2. /\ InOrder(todo') /\ Listed(todo') \cap Must \subseteq held' \cup refused'
          /\ "device" \in Listed(todo') => "class" \in held' \cup refused'
          /\ "ioport" \in Listed(todo') => drv' = "pci_template"
      BY <1>0, <1>1, <2>1, <2>3, Zenon DEF Covers
    <3>3. QED
      BY <1>1, <3>1, <3>2, Zenon DEF ListInv
  <2>6. LeftInv'
    <3>1. "netdev" \in Listed(todo') => "netdev" \in held'
      BY <1>0, <1>1, <2>1, <2>2, Zenon DEF Covers
    <3>2. ASSUME NEW x \in Unexplained'
          PROVE  \/ x \in Listed(todo')
                 \/ (x = "registered" /\ "netdev" \in held' \cap Listed(todo'))
      BY <1>0, <1>1, <2>1, <2>3, <3>1, SameDriver, LeftOutGrows, SMT DEF Unexplained, Covers
    <3>3. QED
      BY <1>0, <1>1, <3>2, SMT DEF LeftInv, LadderInv
  <2>7. QED
    BY <1>0, <1>1, <2>4, <2>5, <2>6, Zenon DEF LadderInv, StopsExplained
<1>2. CASE Setup[drv][at].refusal = "unseen" /\ at' = at + 1 /\ UNCHANGED <<pc, todo, found>>
  <2>1. \A j \in 1..(at' - 1): j \in 1..(at - 1) \/ j = at
    BY <1>0, <1>2, SMT
  <2>2. at' \in 1..(Len(Setup[drv]) + 1)
    BY <1>0, <1>2, LenType, SMT
  <2>3. held' \subseteq Before(at') \cup Addable(at')
    BY <1>0, <1>2, OneMore, AddableGrows, Zenon DEF LadderInv, StepsInv
  <2>4. \A j \in 1..(at' - 1):
          /\ Setup[drv][j].takes \subseteq held' \cup refused'
          /\ Setup[drv][j].refusal # "unseen" => Setup[drv][j].takes \subseteq held'
    BY <1>0, <1>2, <2>1, Zenon DEF LadderInv, StepsInv
  <2>5. Before(at') = Before(at)' /\ Addable(at') = Addable(at)'
    BY <1>0, SameDriver DEF Before, Addable
  <2>6. StepsInv'
    BY <1>0, <1>2, <2>2, <2>3, <2>4, <2>5, SameDriver, Zenon DEF StepsInv
  <2>7. ListInv' /\ LeftInv'
    BY <1>0, <1>2, Zenon DEF LadderInv, ListInv, LeftInv
  <2>8. QED
    BY <1>0, <1>2, <2>6, <2>7, Zenon DEF LadderInv, StopsExplained
<1>3. CASE /\ Setup[drv][at].refusal = "fatal"
           /\ \E r \in Setup[drv][at].takes: Stop("refused", r)
           /\ UNCHANGED <<at, todo>>
  <2>1. PICK r \in Setup[drv][at].takes: Stop("refused", r)
    BY <1>3
  <2>2. pc' = "stopped" /\ found' = {<<"refused", r>>}
    BY <1>0, <2>1, Zenon DEF Stop
  <2>3. StopsExplained'
    <3>1. Setup[drv'][at'].refusal = "fatal"
      BY <1>0, <1>3, Zenon
    <3>2. \A w \in found': w[1] = "refused"
      BY <2>2, SMT
    <3>3. QED
      BY <3>1, <3>2, Zenon DEF StopsExplained, Explained
  <2>4. StepsInv' /\ ListInv' /\ LeftInv'
    BY <1>0, <1>3, <2>2, LenType, SMT DEF LadderInv, StepsInv, ListInv, LeftInv
  <2>5. QED
    BY <1>0, <2>2, <2>3, <2>4, Zenon DEF LadderInv
<1>4. QED
  BY <1>1, <1>2, <1>3 DEF Refused

LEMMA LoadedKeeps ==
  ASSUME LadderInv, Loaded
  PROVE  LadderInv'
<1>1. /\ pc = "init" /\ at = Len(Setup[drv]) + 1 /\ pc' = "loaded"
      /\ UNCHANGED <<drv, at, todo, held, late, refused, found>>
  BY LenType, SMT DEF LadderInv, StepsInv, Loaded
<1>2. StepsInv'
  <2>1. Before(at') = Before(at)' /\ Addable(at') = Addable(at)'
    BY <1>1, SameDriver DEF Before, Addable
  <2>2. QED
    BY <1>1, <2>1, SameDriver, Zenon DEF StepsInv, LadderInv
<1>3. QED
  BY <1>1, <1>2, Zenon DEF LadderInv, ListInv, LeftInv, StopsExplained

LEMMA UnloadKeeps ==
  ASSUME LadderInv, Unload
  PROVE  LadderInv'
<1>1. /\ pc = "loaded" /\ at = Len(Setup[drv]) + 1 /\ pc' = "exit" /\ todo' = Teardown[drv]
      /\ UNCHANGED <<drv, at, held, late, refused, found>> /\ found = {}
  BY DEF LadderInv, StepsInv, Unload
<1>2. /\ Covers(at, Teardown[drv], {}) /\ Ordered(at, Teardown[drv], {})
      /\ Added \subseteq Listed(Teardown[drv]) \cap {"armed", "pending"}
      /\ "registered" \in Before(at) => "netdev" \in Before(at)
  BY <1>1, TablesFit, Zenon DEF LadderInv, Fits, CallsFit
<1>3. \A j \in 1..(at - 1):
        /\ Setup[drv][j].takes \subseteq held \cup refused
        /\ Setup[drv][j].refusal # "unseen" => Setup[drv][j].takes \subseteq held
  BY <1>1 DEF LadderInv, StepsInv
<1>4. held \subseteq Before(at) \cup Added /\ Before(at) \subseteq held \cup refused
  <2>1. Before(at) \subseteq held \cup refused
    BY <1>3, Zenon DEF Before
  <2>2. held \subseteq Before(at) \cup Addable(at)
    BY <1>1, Zenon DEF LadderInv, StepsInv
  <2>3. QED
    BY <2>1, <2>2, AddableAdded, Zenon
<1>5. StepsInv'
  BY <1>1, LenType, SMT DEF StepsInv, LadderInv
<1>6. ListInv'
  <2>1. ASSUME NEW r \in Listed(todo'), NEW s \in held', <<s, r>> \in OnTop
        PROVE  Excused(r, refused, late)' \/ Precedes(s, r, todo')
    <3>1. s \in Before(at)
      BY <1>1, <1>2, <1>4, <2>1, PairsBefore, Zenon
    <3>2. Excused(r, {}, {}) \/ Precedes(s, r, todo')
      BY <1>1, <1>2, <2>1, <3>1, Zenon DEF Ordered
    <3>3. {} \subseteq refused' /\ {} \subseteq late'
      OBVIOUS
    <3>4. Excused(r, {}, {}) => Excused(r, refused', late')
      BY <3>3, ExcuseStays
    <3>5. QED
      BY <1>1, <3>2, <3>4, SameDriver, Zenon
  <2>2. /\ InOrder(todo') /\ Listed(todo') \cap Must \subseteq held' \cup refused'
        /\ "device" \in Listed(todo') => "class" \in held' \cup refused'
        /\ "ioport" \in Listed(todo') => drv' = "pci_template"
    BY <1>1, <1>2, <1>4, Zenon DEF Covers
  <2>3. "registered" \in held' => "netdev" \in held' \cup refused'
    <3>1. "registered" \notin {"armed", "pending"}
      OBVIOUS
    <3>2. QED
      BY <1>1, <1>2, <1>4, <3>1, Zenon
  <2>4. QED
    BY <1>1, <2>1, <2>2, <2>3, Zenon DEF ListInv
<1>7. LeftInv'
  <2>1. "netdev" \in Listed(todo') => "netdev" \in held'
    BY <1>1, <1>2, <1>3, Zenon DEF Covers
  <2>2. LeftOut({}) = {}
    BY SMT DEF LeftOut
  <2>3. ASSUME NEW x \in Unexplained'
        PROVE  \/ x \in Listed(todo')
               \/ (x = "registered" /\ "netdev" \in held' \cap Listed(todo'))
    BY <1>1, <1>2, <1>4, <2>1, <2>2, <2>3, SameDriver, SMT DEF Unexplained, Covers
  <2>4. QED
    BY <1>1, <2>3, SMT DEF LeftInv, LadderInv
<1>8. QED
  BY <1>1, <1>5, <1>6, <1>7, Zenon DEF LadderInv, StopsExplained

\* What is given back leaves the list, and nothing that is left on it goes too early.
LEMMA OrderKeeps ==
  ASSUME LadderInv, pc \in {"refused", "exit"}, todo # <<>>, todo' = Tail(todo),
         UNCHANGED <<drv, refused>>, late \subseteq late',
         held' \subseteq held, Head(todo) \notin held' \/ Head(todo) \in late',
         Head(todo) \in held' => Head(todo) \in {"armed", "iomap"}
  PROVE  \A r \in Listed(todo'): \A s \in held': <<s, r>> \in OnTop =>
           Excused(r, refused, late)' \/ Precedes(s, r, todo')
<1> SUFFICES ASSUME NEW r \in Listed(todo'), NEW s \in held', <<s, r>> \in OnTop
    PROVE  Excused(r, refused, late)' \/ Precedes(s, r, todo')
  BY Zenon
<1>1. /\ r \in Listed(todo)
      /\ Precedes(s, r, todo) /\ s # Head(todo) => Precedes(s, r, todo')
  BY OrderTail, Zenon DEF LadderInv, ListInv
<1>2. Excused(r, refused, late) \/ Precedes(s, r, todo)
  BY <1>1, Zenon DEF LadderInv, ListInv
<1>3. Excused(r, refused, late) => Excused(r, refused, late)'
  BY ExcuseStays, SameDriver, Zenon
<1>4. s = Head(todo) => Excused(r, refused, late)'
  <2>1. s = "iomap" => r = "iomem"
    BY OnTopPairs, SMT
  <2>2. s = Head(todo) => s = "iomap" /\ "iomap" \in late'
    BY PairsBefore, Zenon
  <2>3. s = Head(todo) => Excused(r, refused', late')
    BY <2>1, <2>2, Zenon DEF Excused
  <2>4. QED
    BY <2>3, SameDriver, Zenon
<1>5. QED
  BY <1>1, <1>2, <1>3, <1>4, Zenon

LEMMA GivenKeeps ==
  ASSUME LadderInv, pc \in {"refused", "exit"}, todo # <<>>, todo' = Tail(todo),
         UNCHANGED <<drv, pc, at, refused>>,
         Head(todo) \in held, Head(todo) = "netdev" => "registered" \notin held,
         Given(Head(todo)) \/ (pc = "exit" /\ Uncertain(Head(todo)) /\ Kept(Head(todo))),
         StopsExplained'
  PROVE  LadderInv'
<1> DEFINE r == Head(todo)
<1>1. /\ pc \in {"refused", "exit"} /\ todo # <<>> /\ todo' = Tail(todo)
      /\ UNCHANGED <<drv, pc, at, refused>>
      /\ r \in held /\ (r = "netdev" => "registered" \notin held)
  OBVIOUS
<1>2. /\ InOrder(todo') /\ Listed(todo) = {r} \cup Listed(todo') /\ r \notin Listed(todo')
      /\ todo[1] = r
      /\ r = "class" => "device" \notin Listed(todo')
  BY <1>1, OrderTail, Zenon DEF LadderInv, ListInv
<1>3. /\ held' \subseteq held /\ held \ {r} \subseteq held' /\ late \subseteq late'
      /\ r \notin held' \/ r \in late'
      /\ late' \subseteq late \cup {r}
      /\ r \in held' => r \in {"armed", "iomap"}
      /\ r \in late' => r \in late \/ (pc = "exit" /\ r \in {"armed", "iomap"})
  BY Zenon DEF Given, Kept, Uncertain
<1>4. \A q \in Listed(todo'): \A s \in held': <<s, q>> \in OnTop =>
        Excused(q, refused, late)' \/ Precedes(s, q, todo')
  BY <1>1, <1>3, OrderKeeps, Zenon
<1> HIDE DEF r
<1>5. StepsInv'
  <2>1. Before(at') = Before(at)'
    BY <1>1, SameDriver DEF Before
  <2>2. pc' = "refused" => held' \subseteq Before(at)'
    BY <1>1, <1>3, <2>1, SameDriver, Zenon DEF LadderInv, StepsInv
  <2>3. QED
    BY <1>1, <2>1, <2>2, LenType, SMT DEF StepsInv, LadderInv
<1>6. ListInv'
  <2>1. /\ Listed(todo) \cap Must \subseteq held \cup refused
        /\ "device" \in Listed(todo) => "class" \in held \cup refused
        /\ "ioport" \in Listed(todo) => drv = "pci_template"
    BY <1>1, Zenon DEF LadderInv, ListInv
  <2>2. /\ Listed(todo') \cap Must \subseteq held' \cup refused'
        /\ "device" \in Listed(todo') => "class" \in held' \cup refused'
        /\ "ioport" \in Listed(todo') => drv' = "pci_template"
    BY <1>1, <1>2, <1>3, <2>1, Zenon
  <2>3. pc = "exit" /\ "registered" \in held' => "netdev" \in held' \cup refused'
    BY <1>1, <1>3, Zenon DEF LadderInv, ListInv
  <2>4. QED
    BY <1>1, <1>2, <1>4, <2>2, <2>3, Zenon DEF ListInv
<1>7. LeftInv'
  <2>1. ASSUME NEW x \in Unexplained'
        PROVE  \/ x \in Listed(todo')
               \/ (x = "registered" /\ "netdev" \in held' \cap Listed(todo'))
    <3>1. x \in Unexplained /\ x \in held' /\ x # r
      BY <1>1, <1>3, <2>1, SameDriver, Zenon DEF Unexplained
    <3>2. x \in Listed(todo) \/ (x = "registered" /\ "netdev" \in held \cap Listed(todo))
      BY <1>1, <3>1, SMT DEF LadderInv, LeftInv
    <3>3. QED
      BY <1>1, <1>2, <1>3, <3>1, <3>2, Zenon
  <2>2. /\ late' \subseteq {"armed", "pending", "iomap"}
        /\ late' # {} => pc' \in {"exit", "out", "stopped"}
    <3>1. /\ late \subseteq {"armed", "pending", "iomap"}
          /\ late # {} => pc \in {"exit", "out", "stopped"}
      BY Zenon DEF LadderInv, LeftInv
    <3>2. late' \subseteq {"armed", "pending", "iomap"}
      BY <1>3, <3>1, Zenon
    <3>3. late' # {} => late # {} \/ pc = "exit"
      BY <1>3, Zenon
    <3>4. QED
      BY <1>1, <3>1, <3>2, <3>3, Zenon
  <2>3. QED
    BY <1>1, <2>1, <2>2, SMT DEF LeftInv
<1>8. QED
  BY <1>1, <1>5, <1>6, <1>7, Zenon DEF LadderInv

LEMMA GivesBackKeeps ==
  ASSUME LadderInv, GivesBack
  PROVE  LadderInv'
<1>1. /\ pc \in {"refused", "exit"} /\ todo # <<>> /\ todo' = Tail(todo)
      /\ UNCHANGED <<drv, pc, at, refused, found>>
      /\ Head(todo) \in held /\ ~InUse(Head(todo))
      /\ \/ Given(Head(todo))
         \/ (pc = "exit" /\ Uncertain(Head(todo)) /\ Kept(Head(todo)))
  BY Zenon DEF GivesBack
<1>2. Head(todo) = "netdev" => "registered" \notin held
  <2>1. <<"registered", "netdev">> \in OnTop
    BY OnTopPairs
  <2>2. QED
    BY <1>1, <2>1, Zenon DEF InUse
<1>3. StopsExplained'
  <2>1. late \subseteq late'
    BY <1>1, Zenon DEF Given, Kept
  <2>2. QED
    BY <1>1, <2>1, ExplainedStays, Zenon DEF StopsExplained
<1>4. QED
  BY <1>1, <1>2, <1>3, GivenKeeps

LEMMA SameExplained ==
  ASSUME UNCHANGED <<drv, at, late, refused>>
  PROVE  \A what, r: Explained(what, r)' <=> Explained(what, r)
<1>1. \A r: Excused(r, refused, late)' <=> Excused(r, refused, late)
  BY Zenon DEF Excused
<1>2. \A r: Missed(r)' <=> Missed(r)
  BY Zenon DEF Missed
<1>3. drv' = drv /\ at' = at /\ refused' = refused /\ late' = late
  OBVIOUS
<1>4. ASSUME NEW what, NEW r PROVE Explained(what, r)' <=> Explained(what, r)
  <2>1. /\ Excused(r, refused, late)' <=> Excused(r, refused, late)
        /\ Missed(r)' <=> Missed(r)
    BY <1>1, <1>2
  <2>2. Explained(what, r)' => Explained(what, r)
    BY <1>3, <2>1, Zenon DEF Explained
  <2>3. Explained(what, r) => Explained(what, r)'
    BY <1>3, <2>1, Zenon DEF Explained
  <2>4. QED
    BY <2>2, <2>3
<1>5. QED
  BY <1>4

LEMMA FoundOneMore ==
  ASSUME NEW what, NEW r, found' = found \cup {<<what, r>>}
  PROVE  \A w \in found': w \in found \/ (w[1] = what /\ w[2] = r)
BY SMT

LEMMA StopKeeps ==
  ASSUME LadderInv, NEW what, NEW r, Stop(what, r), Explained(what, r),
         UNCHANGED <<drv, at, late, refused>>
  PROVE  LadderInv'
<1>0. drv' = drv /\ at' = at /\ refused' = refused /\ late' = late
  OBVIOUS
<1>1. pc' = "stopped" /\ found' = found \cup {<<what, r>>}
  BY DEF Stop
<1>2. StopsExplained'
  <2>1. \A s, q: Explained(s, q)' <=> Explained(s, q)
    BY SameExplained
  <2>2. \A w \in found': w \in found \/ (w[1] = what /\ w[2] = r)
    BY <1>1, FoundOneMore
  <2>3. QED
    BY <2>1, <2>2, Zenon DEF LadderInv, StopsExplained
<1>3. StepsInv' /\ ListInv' /\ LeftInv'
  BY <1>0, <1>1, LenType, SMT DEF LadderInv, StepsInv, ListInv, LeftInv
<1>4. QED
  BY <1>1, <1>0, <1>2, <1>3, Zenon DEF LadderInv

LEMMA GivesBackInUseKeeps ==
  ASSUME LadderInv, GivesBackInUse
  PROVE  LadderInv'
<1> DEFINE r == Head(todo)
<1>1. /\ pc \in {"refused", "exit"} /\ todo # <<>> /\ todo' = Tail(todo)
      /\ UNCHANGED <<drv, at, refused>> /\ r \in held /\ InUse(r)
  BY Zenon DEF GivesBackInUse
<1>2. Explained("in use", r)
  <2>1. PICK s \in held: <<s, r>> \in OnTop
    BY <1>1 DEF InUse
  <2>2. r \in Listed(todo) /\ ~Precedes(s, r, todo)
    BY <1>1, OrderTail, Zenon DEF LadderInv, ListInv
  <2>3. Excused(r, refused, late)
    BY <1>1, <2>1, <2>2, Zenon DEF LadderInv, ListInv
  <2>4. QED
    BY <2>3, Zenon DEF Explained
<1>3. CASE Stop("in use", r) /\ UNCHANGED <<held, late>>
  <2>1. UNCHANGED <<drv, at, late, refused>>
    BY <1>1, <1>3
  <2>2. QED
    BY <1>2, <1>3, <2>1, StopKeeps
<1>4. CASE /\ r # "netdev" /\ Given(r) /\ UNCHANGED pc
           /\ found' = found \cup {<<"in use", r>>}
  <2>1. UNCHANGED <<drv, at, late, refused>> /\ late \subseteq late'
    BY <1>1, <1>4, Zenon DEF Given
  <2>2. \A w \in found': w \in found \/ (w[1] = "in use" /\ w[2] = r)
    BY <1>4, FoundOneMore
  <2>3. ASSUME NEW q, q = r PROVE Explained("in use", q)'
    BY <1>2, <2>1, <2>3, SameExplained, Zenon
  <2>4. StopsExplained'
    <3>1. \A w \in found: Explained(w[1], w[2])'
      BY <2>1, ExplainedStays
    <3>2. ASSUME NEW w \in found' PROVE Explained(w[1], w[2])'
      BY <2>2, <2>3, <3>1, <3>2, Zenon
    <3>3. QED
      BY <3>2, Zenon DEF StopsExplained
  <2>5. UNCHANGED <<drv, pc, at, refused>>
    BY <1>1, <1>4
  <2>6. QED
    BY <1>1, <1>4, <2>4, <2>5, GivenKeeps
<1>5. QED
  BY <1>3, <1>4, Zenon DEF GivesBackInUse

LEMMA GivesBackNothingKeeps ==
  ASSUME LadderInv, GivesBackNothing
  PROVE  LadderInv'
<1> DEFINE r == Head(todo)
<1>1. /\ pc \in {"refused", "exit"} /\ todo # <<>> /\ todo' = Tail(todo)
      /\ UNCHANGED <<drv, at, held, late, refused>>
      /\ r \notin held \/ NoClass(r)
  BY Zenon DEF GivesBackNothing
<1>2. /\ InOrder(todo') /\ Listed(todo) = {r} \cup Listed(todo') /\ r \notin Listed(todo')
      /\ todo[1] = r
  BY <1>1, OrderTail, Zenon DEF LadderInv, ListInv
<1>3. r \in Follow \cup Complain \/ NoClass(r) => Explained("not there", r)
  <2>1. NoClass(r) => Explained("not there", r)
    BY <1>1, <1>2, Zenon DEF LadderInv, ListInv, NoClass, Explained
  <2>2. r = "ioport" => Explained("not there", r)
    BY <1>1, <1>2, Zenon DEF LadderInv, ListInv, Explained
  <2>3. r \in Must /\ r \notin held => Explained("not there", r)
    BY <1>1, <1>2, Zenon DEF LadderInv, ListInv, Explained
  <2>4. QED
    BY <1>1, <2>1, <2>2, <2>3, Zenon DEF Must
<1>4. CASE r \in Follow \/ NoClass(r)
  <2>1. Stop("not there", r)
    BY <1>4, Zenon DEF GivesBackNothing
  <2>2. Explained("not there", r)
    BY <1>3, <1>4, Zenon
  <2>3. UNCHANGED <<drv, at, late, refused>>
    BY <1>1
  <2>4. QED
    BY <2>1, <2>2, <2>3, StopKeeps
<1>5. CASE ~(r \in Follow \/ NoClass(r))
  <2>1. /\ found' = found \cup ({"not there"} \X ({r} \cap Complain)) /\ pc' = pc
        /\ r \notin held
    BY <1>1, <1>5, Zenon DEF GivesBackNothing
  <2>0. /\ UNCHANGED <<drv, at, held, late, refused>> /\ pc \in {"refused", "exit"}
        /\ todo # <<>> /\ todo' = Tail(todo)
    BY <1>1
  <2>2. StopsExplained'
    <3>1. ASSUME NEW w \in found'
          PROVE  w \in found \/ (w[1] = "not there" /\ w[2] = r /\ r \in Complain)
      <4>1. CASE w \in {"not there"} \X ({r} \cap Complain)
        <5>1. w[1] \in {"not there"} /\ w[2] \in {r} \cap Complain
          BY <4>1
        <5>2. QED
          BY <5>1, Zenon
      <4>2. QED
        BY <2>1, <3>1, <4>1, Zenon
    <3>2. ASSUME NEW q, q = r, r \in Complain PROVE Explained("not there", q)'
      BY <1>3, <2>0, <3>2, SameExplained, Zenon
    <3>3. \A w \in found: Explained(w[1], w[2])'
      BY <2>0, ExplainedStays, Zenon
    <3>4. ASSUME NEW w \in found' PROVE Explained(w[1], w[2])'
      BY <3>1, <3>2, <3>3, <3>4, Zenon
    <3>5. QED
      BY <3>4, Zenon DEF StopsExplained
  <2>3. /\ held' \subseteq held /\ r \notin held' /\ late \subseteq late'
        /\ r \in held' => r \in {"armed", "iomap"}
    BY <2>0, <2>1, Zenon
  <2>4. \A q \in Listed(todo'): \A s \in held': <<s, q>> \in OnTop =>
          Excused(q, refused, late)' \/ Precedes(s, q, todo')
    BY <2>0, <2>3, OrderKeeps, Zenon
  <2> HIDE DEF r
  <2>9. pc' = pc
    BY <2>1
  <2>5. StepsInv'
    <3>1. Before(at') = Before(at)'
      BY <2>0, SameDriver DEF Before
    <3>2. pc' = "refused" => held' \subseteq Before(at)'
      BY <2>0, <2>1, <3>1, SameDriver, Zenon DEF LadderInv, StepsInv
    <3>3. QED
      BY <2>0, <2>9, <3>1, <3>2, LenType, SMT DEF StepsInv, LadderInv
  <2>6. ListInv'
    <3>1. /\ Listed(todo') \cap Must \subseteq held' \cup refused'
          /\ "device" \in Listed(todo') => "class" \in held' \cup refused'
          /\ "ioport" \in Listed(todo') => drv' = "pci_template"
      BY <2>0, <1>2, Zenon DEF LadderInv, ListInv
    <3>2. pc' = "exit" /\ "registered" \in held' => "netdev" \in held' \cup refused'
      BY <2>0, <2>1, Zenon DEF LadderInv, ListInv
    <3>3. QED
      BY <2>0, <2>1, <1>2, <2>4, <3>1, <3>2, Zenon DEF ListInv
  <2>7. LeftInv'
    <3>1. ASSUME NEW x \in Unexplained'
          PROVE  \/ x \in Listed(todo')
                 \/ (x = "registered" /\ "netdev" \in held' \cap Listed(todo'))
      <4>1. x \in Unexplained /\ x \in held
        BY <2>0, <3>1, SameDriver, Zenon DEF Unexplained
      <4>2. x \in Listed(todo) \/ (x = "registered" /\ "netdev" \in held \cap Listed(todo))
        BY <2>0, <4>1, SMT DEF LadderInv, LeftInv
      <4>3. QED
        BY <2>0, <1>2, <2>1, <4>1, <4>2, Zenon
    <3>2. QED
      BY <2>0, <2>9, <3>1, SMT DEF LeftInv, LadderInv
  <2>8. QED
    BY <2>0, <2>1, <2>2, <2>5, <2>6, <2>7, Zenon DEF LadderInv
<1>6. QED
  BY <1>4, <1>5

LEMMA GoneKeeps ==
  ASSUME LadderInv, Gone
  PROVE  LadderInv'
<1>1. /\ pc \in {"refused", "exit"} /\ todo = <<>> /\ pc' = "out"
      /\ UNCHANGED <<drv, at, todo, held, late, refused, found>> /\ late \subseteq late'
  BY DEF Gone
<1>2. StepsInv' /\ ListInv'
  BY <1>1, LenType, SMT DEF StepsInv, ListInv, LadderInv
<1>3. LeftInv'
  <2>1. Unexplained' = Unexplained
    BY <1>1, SameDriver, Zenon DEF Unexplained
  <2>2. QED
    BY <1>1, <2>1, SMT DEF LeftInv, LadderInv
<1>4. StopsExplained'
  BY <1>1, ExplainedStays, Zenon DEF StopsExplained
<1>5. QED
  BY <1>1, <1>2, <1>3, <1>4, Zenon DEF LadderInv

LEMMA CalledKeeps ==
  ASSUME LadderInv, Called
  PROVE  LadderInv'
<1>1. PICK c \in CallsOf(drv):
        /\ c.by \in held /\ (pc = "exit" => c.by \notin Pinning)
        /\ IF c.uses \subseteq held
           THEN /\ held' = (held \ ({c.by} \cap {"pending"})) \cup c.adds
                /\ late' = late \cup {r \in c.adds: pc = "exit" /\ r \notin Listed(todo)}
                /\ UNCHANGED <<pc, found>>
           ELSE /\ \E r \in c.uses \ held: Stop("missing", r)
                /\ UNCHANGED <<held, late>>
  BY Zenon DEF Called
<1>2. pc \notin {"out", "stopped"} /\ UNCHANGED <<drv, at, todo, refused>>
  BY DEF Called
<1>3. Fits /\ CallsFit /\ Added \subseteq {"armed", "pending"}
  BY TablesFit, Zenon DEF LadderInv, Fits
<1>4. CASE c.uses \subseteq held
  <2>1. /\ held' = (held \ ({c.by} \cap {"pending"})) \cup c.adds /\ UNCHANGED <<pc, found>>
        /\ late' = late \cup {r \in c.adds: pc = "exit" /\ r \notin Listed(todo)}
    BY <1>1, <1>4, Zenon
  <2>2. c.adds \subseteq {"armed", "pending"}
    BY <1>3, Zenon DEF Added
  <2>3. /\ \A x: x \in held' => x \in held \/ x \in c.adds
        /\ \A x: x \in held /\ x # "pending" => x \in held'
        /\ late \subseteq late'
        /\ \A x: x \in late' => x \in late \/ (x \in c.adds /\ pc = "exit")
        /\ \A x: x \in c.adds /\ pc = "exit" => x \in late' \/ x \in Listed(todo)
    BY <2>1, Zenon
  <2>4. pc \in {"init", "refused", "loaded"} =>
          c.adds \subseteq Addable(at) /\ (pc = "refused" => c.adds = {})
    <3>1. pc \in {"init", "refused", "loaded"} /\ c.adds # {} =>
            {c.by} \cup c.uses \subseteq Before(at)
      <4>1. c.adds # {} => ({c.by} \cup c.uses) \cap Added = {}
        BY <1>3, Zenon DEF CallsFit
      <4>2. pc \in {"init", "refused", "loaded"} => held \subseteq Before(at) \cup Added
        BY AddableAdded, Zenon DEF LadderInv, StepsInv
      <4>3. QED
        BY <1>1, <1>4, <4>1, <4>2, Zenon
    <3>2. pc \in {"init", "refused", "loaded"} => c.adds \subseteq Addable(at)
      BY <3>1, Zenon DEF Addable
    <3>3. pc = "refused" => Addable(at) = {}
      <4>1. pc = "refused" => at \in 1..Len(Setup[drv]) /\ Setup[drv][at].refusal = "seen"
        BY LenType, SMT DEF LadderInv, StepsInv
      <4>2. QED
        BY <1>3, <4>1, Zenon DEF Fits
    <3>4. QED
      BY <3>2, <3>3, Zenon
  <2>5. StepsInv'
    <3>1. /\ pc \in {"init", "loaded"} => held' \subseteq Before(at) \cup Addable(at)
          /\ pc = "refused" => held' \subseteq Before(at)
      BY <2>3, <2>4, Zenon DEF LadderInv, StepsInv
    <3>2. ASSUME NEW j \in 1..(at - 1) PROVE "pending" \notin Setup[drv][j].takes
      <4>1. j \in 1..((Len(Setup[drv]) + 1) - 1)
        BY LenType, SMT DEF LadderInv, StepsInv
      <4>2. QED
        BY <1>3, <4>1, Zenon DEF CallsFit, Before
    <3>3. Before(at') = Before(at)' /\ Addable(at') = Addable(at)'
      BY <1>2, SameDriver DEF Before, Addable
    <3>4. QED
      BY <1>2, <2>1, <2>3, <3>1, <3>2, <3>3, SameDriver, Zenon DEF LadderInv, StepsInv
  <2>6. ListInv'
    <3>1. ASSUME pc \in {"refused", "exit"}, NEW r \in Listed(todo), NEW s \in held',
                 <<s, r>> \in OnTop
          PROVE  Excused(r, refused, late)' \/ Precedes(s, r, todo)
      <4>1. s \in held
        BY <2>2, <2>3, <3>1, PairsBefore, Zenon
      <4>2. Excused(r, refused, late) \/ Precedes(s, r, todo)
        BY <3>1, <4>1, Zenon DEF LadderInv, ListInv
      <4>3. Excused(r, refused, late) => Excused(r, refused, late)'
        BY <1>2, <2>3, ExcuseStays, SameDriver, Zenon
      <4>4. QED
        BY <4>2, <4>3
    <3>2. "pending" \notin Must /\ \A x \in {"class", "netdev"}: x \in held => x \in held'
      BY <2>3, SMT DEF Must, Follow, Complain
    <3>3. "registered" \in held' => "registered" \in held
      <4>1. "registered" \notin {"armed", "pending"}
        OBVIOUS
      <4>2. QED
        BY <2>2, <2>3, <4>1, Zenon
    <3>4. QED
      BY <1>2, <2>1, <2>3, <3>1, <3>2, <3>3, Zenon DEF LadderInv, ListInv
  <2>7. LeftInv'
    <3>1. ASSUME pc \in {"refused", "exit"}, NEW x \in Unexplained'
          PROVE  \/ x \in Listed(todo')
                 \/ (x = "registered" /\ "netdev" \in held' \cap Listed(todo'))
      <4>1. x \in held' /\ x \notin Lasting \cup LeftAnyway \cup late' \cup LeftOut(refused)
        BY <1>2, <3>1, SameDriver, Zenon DEF Unexplained
      <4>2. x \in held \/ x \in Listed(todo)
        BY <2>3, <2>4, <3>1, <4>1, Zenon
      <4>3. x \in held => x \in Unexplained
        BY <2>3, <4>1, Zenon DEF Unexplained
      <4>4. x \in Unexplained =>
              x \in Listed(todo) \/ (x = "registered" /\ "netdev" \in held \cap Listed(todo))
        BY <3>1, SMT DEF LadderInv, LeftInv
      <4>5. QED
        BY <1>2, <2>3, <4>2, <4>3, <4>4, Zenon
    <3>2. /\ late' \subseteq {"armed", "pending", "iomap"}
          /\ late' # {} => pc' \in {"exit", "out", "stopped"}
      <4>1. /\ late \subseteq {"armed", "pending", "iomap"}
            /\ late # {} => pc \in {"exit", "out", "stopped"}
        BY Zenon DEF LadderInv, LeftInv
      <4>2. late' \subseteq {"armed", "pending", "iomap"}
        BY <2>2, <2>3, <4>1, Zenon
      <4>3. late' # {} => late # {} \/ pc = "exit"
        BY <2>3, Zenon
      <4>4. QED
        BY <2>1, <4>1, <4>2, <4>3, Zenon
    <3>3. QED
      BY <1>2, <2>1, <3>1, <3>2, SMT DEF LadderInv, LeftInv
  <2>8. StopsExplained'
    BY <1>2, <2>1, <2>3, ExplainedStays, Zenon DEF StopsExplained
  <2>9. QED
    BY <1>2, <2>1, <2>5, <2>6, <2>7, <2>8, Zenon DEF LadderInv
<1>5. CASE ~(c.uses \subseteq held)
  <2>1. PICK r \in c.uses \ held: Stop("missing", r)
    BY <1>1, <1>5, Zenon
  <2>2. UNCHANGED <<drv, at, late, refused>>
    BY <1>1, <1>2, <1>5, Zenon
  <2>3. CASE at <= Len(Setup[drv])
    <3>1. Explained("missing", r)
      BY <2>3, Zenon DEF Explained, Missed
    <3>2. QED
      BY <2>1, <2>2, <3>1, StopKeeps
  <2>4. CASE ~(at <= Len(Setup[drv]))
    <3>1. at = Len(Setup[drv]) + 1 /\ pc \in {"init", "loaded", "exit"}
      BY <1>2, <2>4, LenType, SMT DEF LadderInv, StepsInv
    <3>2. Missed(r)
      <4>1. CASE pc \in {"init", "loaded"}
        <5>1. r \in Before(at)
          BY <1>3, <3>1, <2>1, Zenon DEF CallsFit
        <5>2. Before(at) \subseteq held \cup refused
          BY <4>1, Zenon DEF LadderInv, StepsInv, Before
        <5>3. QED
          BY <5>1, <5>2, <2>1, Zenon DEF Missed
      <4>2. CASE pc = "exit"
        <5>1. c.by = "registered" => "netdev" \in held \cup refused
          BY <1>1, <4>2, Zenon DEF LadderInv, ListInv
        <5>2. QED
          BY <1>1, <1>3, <2>1, <4>2, <5>1, Zenon DEF CallsFit, Missed
      <4>3. QED
        BY <3>1, <4>1, <4>2, Zenon
    <3>3. Explained("missing", r)
      BY <3>2, Zenon DEF Explained
    <3>4. QED
      BY <2>1, <2>2, <3>3, StopKeeps
  <2>5. QED
    BY <2>3, <2>4
<1>6. QED
  BY <1>4, <1>5

LEMMA CalledGoneKeeps ==
  ASSUME LadderInv, CalledGone
  PROVE  LadderInv'
<1>1. pc = "out" /\ UNCHANGED <<drv, at, todo, held, late, refused>>
  BY DEF CalledGone
<1>2. PICK r \in held \cap Entries: Stop("called", r)
  BY DEF CalledGone
<1>3. r \in Lasting \cup LeftAnyway \cup late \cup LeftOut(refused)
  <2>1. todo = <<>> /\ Listed(todo) = {}
    BY <1>1, NothingListed, Zenon DEF LadderInv, LeftInv
  <2>2. r \notin Unexplained
    BY <1>1, <2>1, SMT DEF LadderInv, LeftInv
  <2>3. QED
    BY <1>2, <2>2, Zenon DEF Unexplained
<1>4. r \in late \/ (r = "armed" /\ "queue" \in refused)
  <2>1. \A q: LeftOutFor(q) \cap Entries # {} =>
          q = "queue" /\ LeftOutFor(q) \cap Entries = {"armed"}
    BY SMT DEF LeftOutFor, Entries, Pinning
  <2>2. LeftAnyway \cap Entries = {}
    BY SMT DEF LeftAnyway, Entries, Pinning
  <2>3. Lasting \cap Entries = {}
    BY SMT DEF Lasting, Entries, Pinning
  <2>4. CASE r \in LeftOut(refused)
    <3>1. PICK q \in refused: r \in LeftOutFor(q)
      BY <2>4, Zenon DEF LeftOut
    <3>2. QED
      BY <1>2, <2>1, <3>1, Zenon
  <2>5. QED
    BY <1>2, <1>3, <2>2, <2>3, <2>4, Zenon
<1>5. Explained("called", r)
  BY <1>4, Zenon DEF Explained
<1>6. QED
  BY <1>1, <1>2, <1>5, StopKeeps

\* The inductive invariant of the walk through init and exit.
THEOREM LadderCorrect == LadderSpec => []LadderInv
<1>1. LadderInv /\ [LadderNext]_ladder => LadderInv'
  <2>1. ASSUME LadderInv, UNCHANGED ladder PROVE LadderInv'
    <3>1. UNCHANGED <<drv, pc, at, todo, held, late, refused, found>>
      BY <2>1 DEF ladder
    <3>2. Unexplained' = Unexplained
      BY <3>1, SameDriver, Zenon DEF Unexplained
    <3>3. /\ Before(at)' = Before(at) /\ Addable(at)' = Addable(at)
          /\ \A r: Excused(r, refused, late)' <=> Excused(r, refused, late)
      <4>1. Before(at)' = Before(at')
        BY <3>1, Zenon DEF Before
      <4>2. Before(at)' = Before(at)
        BY <3>1, <4>1, Zenon
      <4>3. Addable(at)' = Addable(at)
        BY <3>1, SameDriver DEF Before, Addable
      <4>4. \A r: Excused(r, refused, late)' <=> Excused(r, refused, late)
        BY <3>1, Zenon DEF Excused
      <4>5. QED
        BY <4>2, <4>3, <4>4
    <3>4. StepsInv'
      BY <2>1, <3>1, <3>3, Zenon DEF LadderInv, StepsInv
    <3>5. ListInv' /\ LeftInv'
      BY <2>1, <3>1, <3>2, <3>3, Zenon DEF LadderInv, ListInv, LeftInv
    <3>6. StopsExplained'
      BY <2>1, <3>1, SameExplained, Zenon DEF LadderInv, StopsExplained
    <3>7. QED
      BY <2>1, <3>1, <3>4, <3>5, <3>6, Zenon DEF LadderInv
  <2>2. QED
    BY <2>1, GrantedKeeps, RefusedKeeps, LoadedKeeps, UnloadKeeps, GivesBackKeeps,
       GivesBackInUseKeeps, GivesBackNothingKeeps, GoneKeeps, CalledKeeps,
       CalledGoneKeeps, Zenon DEF LadderNext
<1>2. QED
  BY <1>1, InitKeeps, PTL DEF LadderSpec

\* Every way through init and exit gives back everything but what is explained.
THEOREM NothingElseLeft == LadderSpec => []LeftExplained
<1>1. LadderInv => LeftExplained
  <2>1. LadderInv /\ pc = "out" => todo = <<>> /\ Listed(todo) = {}
    BY NothingListed, Zenon DEF LadderInv, LeftInv
  <2>2. LadderInv /\ pc = "out" => Unexplained = {}
    BY <2>1, SMT DEF LadderInv, LeftInv
  <2>3. QED
    BY <2>2, Zenon DEF LadderInv, LeftInv, Unexplained, LeftExplained
<1>2. QED
  BY <1>1, LadderCorrect, PTL

\* What goes wrong on the way has one of the reasons given.
THEOREM NothingElseWrong == LadderSpec => []StopsExplained
<1>1. LadderInv => StopsExplained
  BY DEF LadderInv
<1>2. QED
  BY <1>1, LadderCorrect, PTL

=============================================================================
