------------------------------- MODULE Ladders -------------------------------
(***************************************************************************)
(* Loading and unloading of the small modules: the character devices of    *)
(* Ground-Work and Kernel_Memory_Allocation_and_Mapping, the modules of    *)
(* Basic-Tutorials, and the first phase of the two network drivers, whose  *)
(* probe and remove take the place of init and exit.  Each init asks the   *)
(* kernel for one thing after another and gives some back when it is       *)
(* refused one; each exit gives them back in an order of its own.  What    *)
(* has been handed out meanwhile calls the module: a device file, an       *)
(* interrupt, a timer, a tasklet, a thread.                                *)
(*                                                                         *)
(* The modules are tables; the actions that walk them are common to all.   *)
(* Not every refusal is seen: some results are not looked at, and          *)
(* class_create, device_create, kthread_run and blk_mq_init_sq_queue       *)
(* refuse with an error pointer, where the code looks for NULL.            *)
(***************************************************************************)
EXTENDS Naturals, Sequences

VARIABLES
  drv,      \* the module
  pc,       \* "init", "refused", "loaded", "exit", "out" or "stopped"
  at,       \* the step of init
  todo,     \* what is still to be given back
  held,     \* what the module has
  late,     \* ghost: what it has although exit has given it back
  refused,  \* ghost: what it was refused
  found     \* ghost: <<what went wrong, with what>>

ladder == <<drv, pc, at, todo, held, late, refused, found>>

\* A refusal of a tested step gives back "unwind"; one of a step only hoped for
\* goes unseen; one of a trusted step is dereferenced at once.
Tested(r, unwind) == [takes |-> r, refusal |-> "seen", unwind |-> unwind]
Hoped(r)          == [takes |-> r, refusal |-> "unseen", unwind |-> <<>>]
Trusted(r)        == [takes |-> r, refusal |-> "fatal", unwind |-> <<>>]
Sure(r)           == [takes |-> r, refusal |-> "none", unwind |-> <<>>]

-----------------------------------------------------------------------------
(* The init functions                                                      *)

\* Region, cdev, class and device, as helloplus has them.
CharInit ==
  << Tested({"region"}, <<>>), Tested({"cdev"}, <<"region">>),
     Tested({"class"}, <<"cdev", "region">>), Hoped({"device"}) >>

\* The same in Basic-Tutorials.
EtxInit ==
  << Tested({"region"}, <<>>), Tested({"cdev"}, <<"region", "cdev">>),
     Hoped({"class"}), Hoped({"device"}) >>

\* Mutant: the label of the interrupt gives back no class.
EtxIrqNoClass ==
  Tested({"irq"}, <<"irq", "region", "cdev">>)

EtxIrq ==
  Tested({"irq"}, <<"irq", "class", "region", "cdev">>)

PollInit      == CharInit
SimpleInit    == <<Trusted({"kbuffer"})>> \o CharInit
HelloInit     == CharInit \o <<Sure({"timer"})>>
BlinkInit     == CharInit \o <<Sure({"armed"}), Tested({"queue"}, <<"cdev", "region">>)>>

KmallocStep == Hoped({"kmem"})
VmallocStep == Hoped({"vmem"})

\* unregister_chrdev_region(dev, 1) finds no region of that size: it has three.
MmapInit ==
  << Tested({"region"}, <<>>), Tested({"cdev"}, <<>>), Tested({"class"}, <<"cdev">>),
     Hoped({"device"}), Tested({"proc"}, <<"cdev", "device">>),
     KmallocStep, VmallocStep >>

AtomicInit    == EtxInit \o <<Hoped({"thread1"}), Hoped({"thread2"})>>
HrtimerInit   == [EtxInit EXCEPT ![2].unwind = <<"region">>] \o <<Sure({"hrtimer"})>>
IrqInit       == EtxInit \o <<EtxIrq>>
StaticInit    == EtxInit \o <<EtxIrq>>
DynamicInit   == EtxInit \o <<EtxIrq, [EtxIrq EXCEPT !.takes = {"tasklet"}]>>
MiscInit      == <<Tested({"misc"}, <<>>)>>

\* blk_mq_init_sq_queue takes a set of tags as well.
Block5Init ==
  << Hoped({"major"}), Tested({"dev"}, <<"major">>),
     Tested({"data"}, <<"major", "dev">>), Trusted({"queue", "tags"}),
     Trusted({"gendisk"}), Sure({"disk"}) >>

Block26Init ==
  << Hoped({"major"}), Hoped({"queue"}), Trusted({"gendisk"}), Hoped({"data"}),
     Sure({"disk"}) >>

\* The template of the PCI driver.  Nothing is taken by the tests of the BAR;
\* a refused DMA mask jumps to the label "release" (pci_template.c:321).
\* pci_release_regions gives back the ports of BAR0 with the memory of BAR1: only
\* the latter was requested (pci_template.c:277).
PciBars      == <<"mwi", "enabled">>
PciReleased  == <<"ioport", "iomem">> \o PciBars
PciUnmapped  == <<"iomap">> \o PciReleased
PciEnables == <<Tested({"enabled"}, <<>>), Tested({"mwi"}, <<"enabled">>)>>
PciMaps    == <<Tested({}, PciBars), Tested({"iomem"}, PciBars), Tested({"iomap"}, PciReleased)>>
PciNetdevs == <<Tested({"mask"}, PciReleased), Tested({"netdev"}, PciUnmapped),
                Tested({"registered"}, <<"netdev">> \o PciUnmapped)>>
PciTemplateInit == PciEnables \o PciMaps \o PciNetdevs

\* The template of the USB driver: with the interface registered, the MAC
\* address is read.
UsbTemplateInit ==
  << Tested({"netdev"}, <<>>), Tested({"registered"}, <<"netdev">>),
     Tested({"mac"}, <<"netdev">>) >>

Regs8139Init ==
  << Tested({"pdev"}, <<>>), Tested({}, <<>>), Tested({"iomap"}, <<>>),
     Tested({"proc"}, <<>>) >>

Setup ==
  [ poll |-> PollInit, simple |-> SimpleInit, helloplus |-> HelloInit,
    blinkplus |-> BlinkInit, mmap |-> MmapInit, atomic_oprs |-> AtomicInit,
    hrtimer |-> HrtimerInit, basic_irq |-> IrqInit, static_tasklet |-> StaticInit,
    dynamic_tasklet |-> DynamicInit, misc_dev |-> MiscInit,
    block_v5 |-> Block5Init, block_v26 |-> Block26Init,
    pci_template |-> PciTemplateInit, usb_template |-> UsbTemplateInit,
    regs8139 |-> Regs8139Init ]

-----------------------------------------------------------------------------
(* The exit functions                                                      *)

\* Mutant: the class goes before its device.
EtxExitClassFirst == <<"class", "device", "cdev", "region">>

EtxExit == <<"device", "class", "cdev", "region">>

KmallocGivesBack == <<"kmem">>
VmallocGivesBack == <<"vmem">>

PollExit      == <<"cdev", "region", "device", "class">>
SimpleExit    == <<"kbuffer", "cdev", "region", "device", "class">>
HelloExit     == <<"armed", "cdev", "device", "class", "region">>
BlinkExit     == <<"armed", "queue", "cdev", "device", "class", "region">>
MmapExit      == <<"cdev", "device", "class", "proc">> \o KmallocGivesBack \o VmallocGivesBack
AtomicExit    == <<"thread1", "thread2">> \o EtxExit
HrtimerExit   == <<"hrtimer">> \o EtxExit
IrqExit       == <<"irq">> \o EtxExit
StaticExit    == <<"pending", "irq">> \o EtxExit
DynamicExit   == <<"pending", "tasklet", "irq">> \o EtxExit
MiscExit      == <<"misc">>
Block5Exit    == <<"disk", "gendisk", "queue", "data", "major", "dev">>
Block26Exit   == <<"gendisk", "disk", "data", "queue", "major">>

PciTemplateExit == <<"registered", "netdev">> \o PciUnmapped
UsbTemplateExit == <<"netdev">>
Regs8139Exit    == <<"proc">>

Teardown ==
  [ poll |-> PollExit, simple |-> SimpleExit, helloplus |-> HelloExit,
    blinkplus |-> BlinkExit, mmap |-> MmapExit, atomic_oprs |-> AtomicExit,
    hrtimer |-> HrtimerExit, basic_irq |-> IrqExit, static_tasklet |-> StaticExit,
    dynamic_tasklet |-> DynamicExit, misc_dev |-> MiscExit,
    block_v5 |-> Block5Exit, block_v26 |-> Block26Exit,
    pci_template |-> PciTemplateExit, usb_template |-> UsbTemplateExit,
    regs8139 |-> Regs8139Exit ]

Drivers == DOMAIN Setup

-----------------------------------------------------------------------------
(* Who calls the module, what the call uses and what it sets off           *)

Call(b, u, a) == [by |-> b, uses |-> u, adds |-> a]

SimpleCalls  == {Call("cdev", {"kbuffer"}, {})}
HelloCalls   == {Call("cdev", {"timer"}, {"armed"})}
BlinkCalls   == {Call("armed", {"queue"}, {})}
KmallocCall  == Call("cdev", {"kmem"}, {})
VmallocCall  == Call("cdev", {"vmem"}, {})
MmapCalls    == {KmallocCall, VmallocCall}
StaticCalls  == {Call("irq", {}, {"pending"}), Call("pending", {}, {})}
DynamicCalls == {Call("irq", {"tasklet"}, {"pending"}), Call("pending", {"tasklet"}, {})}
Block5Calls  == {Call("disk", {"dev", "data", "queue"}, {})}
Block26Calls == {Call("disk", {"data"}, {})}

PciNetCalls  == {Call("registered", {"netdev"}, {})}
UsbNetCalls  == {Call("registered", {"netdev"}, {})}
RegsCalls    == {Call("proc", {"iomap"}, {})}

Calls ==
  [ simple |-> SimpleCalls, helloplus |-> HelloCalls, blinkplus |-> BlinkCalls,
    mmap |-> MmapCalls, static_tasklet |-> StaticCalls,
    dynamic_tasklet |-> DynamicCalls, block_v5 |-> Block5Calls,
    block_v26 |-> Block26Calls, pci_template |-> PciNetCalls,
    usb_template |-> UsbNetCalls, regs8139 |-> RegsCalls ]

\* Nothing calls the other modules.
CallsOf(d) == IF d \in DOMAIN Calls THEN Calls[d] ELSE {}

\* These call the module's code; the first four keep it loaded meanwhile, and
\* reach no module whose exit has begun.
Pinning == {"cdev", "misc", "proc", "disk"}
Entries == Pinning \cup {"registered", "irq", "armed", "pending", "hrtimer", "thread1", "thread2"}

-----------------------------------------------------------------------------

LadderInit ==
  /\ drv \in Drivers
  /\ pc = "init" /\ at = 1 /\ todo = <<>>
  /\ held = {} /\ late = {} /\ refused = {} /\ found = {}

Stop(what, r) ==
  /\ pc' = "stopped"
  /\ found' = found \cup {<<what, r>>}

\* device_create with an error pointer for a class is refused.
Granted ==
  /\ pc = "init" /\ at <= Len(Setup[drv])
  /\ "device" \in Setup[drv][at].takes => "class" \in held
  /\ held' = held \cup Setup[drv][at].takes
  /\ at' = at + 1
  /\ UNCHANGED <<drv, pc, todo, late, refused, found>>

Refused ==
  /\ pc = "init" /\ at <= Len(Setup[drv])
  /\ LET s == Setup[drv][at] IN
     /\ refused' = refused \cup s.takes
     /\ \/ /\ s.refusal = "seen"
           /\ pc' = "refused" /\ todo' = s.unwind
           /\ UNCHANGED <<at, found>>
        \/ /\ s.refusal = "unseen"
           /\ at' = at + 1
           /\ UNCHANGED <<pc, todo, found>>
        \/ /\ s.refusal = "fatal"
           /\ \E r \in s.takes: Stop("refused", r)
           /\ UNCHANGED <<at, todo>>
  /\ UNCHANGED <<drv, held, late>>

Loaded ==
  /\ pc = "init" /\ at > Len(Setup[drv])
  /\ pc' = "loaded"
  /\ UNCHANGED <<drv, at, todo, held, late, refused, found>>

Unload ==
  /\ pc = "loaded"
  /\ pc' = "exit" /\ todo' = Teardown[drv]
  /\ UNCHANGED <<drv, at, held, late, refused, found>>

NoClass(r) == r = "device" /\ "class" \notin held

\* What stands on what: a character device and its file on the numbers, the file on
\* its class, a disk that has been added on its gendisk, a registered interface on
\* its net device, a mapping on the memory it maps.
OnTop ==
  { <<"cdev", "region">>, <<"device", "region">>, <<"device", "class">>,
    <<"disk", "gendisk">>, <<"registered", "netdev">>, <<"iomap", "iomem">> }

InUse(r) == \E s \in held: <<s, r>> \in OnTop

\* A handler that is running when its timer is deleted arms it again: del_timer
\* does not wait.  The remove of the PCI template looks up the mapping in
\* memory that went with the net device.
Uncertain(r) == \/ r = "armed"
                \/ r = "iomap" /\ "netdev" \notin held
Kept(r)      == held' = held /\ late' = late \cup {r}
Given(r)     == held' = held \ {r} /\ late' = late

\* What is there, and can go.
GivesBack ==
  /\ pc \in {"refused", "exit"} /\ todo # <<>>
  /\ LET r == Head(todo) IN
     /\ r \in held /\ ~NoClass(r) /\ ~InUse(r)
     /\ Given(r) \/ (pc = "exit" /\ Uncertain(r) /\ Kept(r))
  /\ todo' = Tail(todo)
  /\ UNCHANGED <<drv, pc, at, refused, found>>

\* What something stands on yet.  free_netdev stops the kernel at a net device that
\* is registered; put_disk may drop the last reference to a gendisk that del_gendisk
\* will follow; the others go, from under what stands on them.
GivesBackInUse ==
  /\ pc \in {"refused", "exit"} /\ todo # <<>>
  /\ LET r == Head(todo) IN
     /\ r \in held /\ ~NoClass(r) /\ InUse(r)
     /\ \/ /\ r \in {"netdev", "gendisk"} /\ Stop("in use", r)
           /\ UNCHANGED <<held, late>>
        \/ /\ r # "netdev" /\ Given(r)
           /\ found' = found \cup {<<"in use", r>>}
           /\ UNCHANGED pc
  /\ todo' = Tail(todo)
  /\ UNCHANGED <<drv, at, refused>>

\* What is not there.  kthread_stop, blk_cleanup_queue, the clearing of pages and
\* device_destroy without a class follow the pointer; free_irq, unregister_blkdev and
\* the release of a region complain; the others do nothing.
Follow   == {"thread1", "thread2", "queue", "kmem", "vmem"}
Complain == {"irq", "major", "ioport"}

GivesBackNothing ==
  /\ pc \in {"refused", "exit"} /\ todo # <<>>
  /\ LET r == Head(todo) IN
     /\ r \notin held \/ NoClass(r)
     /\ IF r \in Follow \/ NoClass(r)
        THEN Stop("not there", r)
        ELSE /\ found' = found \cup ({"not there"} \X ({r} \cap Complain))
             /\ UNCHANGED pc
  /\ todo' = Tail(todo)
  /\ UNCHANGED <<drv, at, held, late, refused>>

Gone ==
  /\ pc \in {"refused", "exit"} /\ todo = <<>>
  /\ pc' = "out"
  /\ UNCHANGED <<drv, at, todo, held, late, refused, found>>

Listed(s) == {s[i]: i \in DOMAIN s}

\* A pending tasklet runs once.
Called ==
  /\ pc \notin {"out", "stopped"}
  /\ \E c \in CallsOf(drv):
       /\ c.by \in held /\ (pc = "exit" => c.by \notin Pinning)
       /\ IF c.uses \subseteq held
          THEN /\ held' = (held \ ({c.by} \cap {"pending"})) \cup c.adds
               /\ late' = late \cup {r \in c.adds: pc = "exit" /\ r \notin Listed(todo)}
               /\ UNCHANGED <<pc, found>>
          ELSE /\ \E r \in c.uses \ held: Stop("missing", r)
               /\ UNCHANGED <<held, late>>
  /\ UNCHANGED <<drv, at, todo, refused>>

CalledGone ==
  /\ pc = "out"
  /\ \E r \in held \cap Entries: Stop("called", r)
  /\ UNCHANGED <<drv, at, todo, held, late, refused>>

LadderNext ==
  \/ Granted \/ Refused \/ Loaded \/ Unload \/ GivesBack \/ GivesBackInUse
  \/ GivesBackNothing \/ Gone \/ Called \/ CalledGone

LadderSpec == LadderInit /\ [][LadderNext]_ladder

-----------------------------------------------------------------------------
(* Properties                                                              *)

\* Left with nothing refused: mmap's region, given back with the wrong number
\* of minors (mmap.c:384), the tags of the block device, and what 8139regs never
\* gives back (8139regs.c:116, 153).
LeftAnyway ==
  CASE drv = "mmap"     -> {"region"}
    [] drv = "block_v5" -> {"tags"}
    [] drv = "regs8139" -> {"pdev", "iomap"}
    [] OTHER            -> {}

\* What there is no giving back of.
Lasting == {"timer", "mask", "mac"}

\* Left out when r is refused (simple.c:93-118, mmap.c:360-366,
\* blinkplus.c:350-354, static_tasklet/main.c:175-183 and its like,
\* pci_template.c:321).
LeftOutFor(r) ==
  CASE drv = "simple" /\ r # "device"       -> {"kbuffer"}
    [] drv = "mmap" /\ r = "proc"           -> {"class"}
    [] drv = "blinkplus" /\ r = "queue"     -> {"class", "device", "armed"}
    [] drv = "pci_template" /\ r = "mask"   -> {"iomap"}
    [] r \in {"irq", "tasklet"}             -> {"device"}
    [] OTHER                                -> {}

LeftOut(R) == UNION {LeftOutFor(r): r \in R}

\* Every way through init and exit gives back everything else, but for what is there
\* again, or still, after exit has given it back: a timer whose handler was running
\* when it was deleted (helloplus.c:226, blinkplus.c:373), a tasklet scheduled
\* between its kill and free_irq (static_tasklet/main.c:192), and the mapping the
\* PCI template looks up too late (pci_template.c:540).
LeftExplained ==
  pc = "out" =>
    /\ held \ Lasting \subseteq LeftAnyway \cup late \cup LeftOut(refused)
    /\ late \subseteq {"armed", "pending", "iomap"}

\* Given back with something standing on it: the net device of the USB template,
\* which nobody unregisters (usb_template.c:272, 335), the gendisk of the old block
\* device (v2.6/main.c:111-113), the class and the numbers of a refused interrupt
\* (static_tasklet/main.c:178-182 and its like), the numbers before the device file
\* (poll.c:302-306, simple.c:143-145, blinkplus.c:352-353), and the memory of the PCI
\* template under a mapping that is left behind (pci_template.c:321, 540-543).
Excused(r, R, L) ==
  \/ r = "netdev" /\ drv = "usb_template"
  \/ r = "gendisk" /\ drv = "block_v26"
  \/ r \in {"class", "region"} /\ R \cap {"irq", "tasklet"} # {}
  \/ r = "region" /\ (drv \in {"poll", "simple"} \/ (drv = "blinkplus" /\ "queue" \in R))
  \/ r = "iomem" /\ ("mask" \in R \/ "iomap" \in L)

\* What a call misses was refused, or the call came during init, or exit had freed
\* the tasklet of an interrupt that still comes, or the queue of a timer that is
\* still armed (dynamic_tasklet/main.c:200-205, blinkplus.c:373-375).
Missed(r) ==
  \/ r \in refused \/ at <= Len(Setup[drv])
  \/ drv = "dynamic_tasklet" /\ r = "tasklet"
  \/ drv = "blinkplus" /\ r = "queue"

\* Why something goes wrong.  What is given back and is not there was refused, or is
\* a device whose class was, or the ports of the PCI template, which were never
\* requested (pci_template.c:277, 469, 543): nothing is given back twice.  What is
\* given back before what stands on it is excused above, what a call misses too.
\* What calls a module that is gone was there again after exit had given it back, or
\* is the timer that blinkplus leaves armed when it is refused its queue.
Explained(what, r) ==
  \/ what = "not there" /\ (r \in refused \/ (r = "device" /\ "class" \in refused)
                            \/ (drv = "pci_template" /\ r = "ioport"))
  \/ what = "in use" /\ Excused(r, refused, late)
  \/ what = "missing" /\ Missed(r)
  \/ what = "called" /\ (r \in late \/ (r = "armed" /\ "queue" \in refused))
  \/ what = "refused" /\ Setup[drv][at].refusal = "fatal"

StopsExplained == \A w \in found: Explained(w[1], w[2])

-----------------------------------------------------------------------------
(* The inductive invariants behind these properties.                       *)

Before(k)  == UNION {Setup[drv][j].takes: j \in 1..(k - 1)}
Added      == UNION {c.adds: c \in CallsOf(drv)}
Addable(k) == UNION {c.adds: c \in {c \in CallsOf(drv): {c.by} \cup c.uses \subseteq Before(k)}}

\* Was asked for, and stops the kernel or complains when it is given back and is
\* not there.
Must == (Follow \cup Complain) \ {"ioport"}

Unexplained == held \ (Lasting \cup LeftAnyway \cup late \cup LeftOut(refused))

\* Each step gone by was granted or refused, and nothing else is held.
StepsInv ==
  /\ at \in 1..(Len(Setup[drv]) + 1)
  /\ pc \in {"loaded", "exit"} => at = Len(Setup[drv]) + 1
  /\ pc = "refused" => /\ at <= Len(Setup[drv]) /\ Setup[drv][at].refusal = "seen"
                       /\ held \subseteq Before(at)
  /\ pc \in {"init", "loaded"} => held \subseteq Before(at) \cup Addable(at)
  /\ pc \in {"init", "loaded"} => \A j \in 1..(at - 1):
       /\ Setup[drv][j].takes \subseteq held \cup refused
       /\ Setup[drv][j].refusal # "unseen" => Setup[drv][j].takes \subseteq held

Things ==
  {"region", "cdev", "class", "device", "kbuffer", "timer", "armed", "queue", "kmem",
   "vmem", "proc", "thread1", "thread2", "hrtimer", "irq", "tasklet", "pending", "misc",
   "major", "dev", "data", "tags", "gendisk", "disk", "enabled", "mwi", "ioport", "iomem",
   "iomap", "mask", "netdev", "registered", "mac", "pdev"}

\* Nothing is given back twice, or a class before its device.
InOrder(t) ==
  /\ t \in Seq(Things)
  /\ \A i, j \in DOMAIN t: i < j => t[i] # t[j] /\ ~(t[i] = "class" /\ t[j] = "device")

\* r is given back after s.
Precedes(s, r, t) == \A i \in DOMAIN t: t[i] = r => \E j \in 1..(i - 1): t[j] = s

\* What must be there is there or was refused; what stands on something goes before
\* it, if that is not excused.
ListInv ==
  /\ pc \in {"refused", "exit"} =>
       /\ InOrder(todo)
       /\ Listed(todo) \cap Must \subseteq held \cup refused
       /\ "device" \in Listed(todo) => "class" \in held \cup refused
       /\ "ioport" \in Listed(todo) => drv = "pci_template"
       /\ \A r \in Listed(todo): \A s \in held: <<s, r>> \in OnTop =>
            Excused(r, refused, late) \/ Precedes(s, r, todo)
  /\ pc = "exit" /\ "registered" \in held => "netdev" \in held \cup refused

\* What is left is explained or still to be given back, or is the interface of a
\* net device that is.
LeftInv ==
  /\ pc \in {"refused", "exit", "out"} =>
       Unexplained \subseteq
         Listed(todo) \cup (IF "netdev" \in held \cap Listed(todo) THEN {"registered"} ELSE {})
  /\ pc = "out" => todo = <<>>
  /\ late \subseteq {"armed", "pending", "iomap"}
  /\ late # {} => pc \in {"exit", "out", "stopped"}

LadderInv ==
  /\ drv \in Drivers
  /\ pc \in {"init", "refused", "loaded", "exit", "out", "stopped"}
  /\ StepsInv /\ ListInv /\ LeftInv
  /\ StopsExplained /\ (pc \in {"init", "loaded"} => found = {})

=============================================================================
