# Verification of the drivers

This directory holds TLA+ models of the Linux drivers of this repository, the
TLC configurations that check them, and TLAPS proofs. Paths below are relative
to the repository's root; the short names used most are

| short name | file |
|---|---|
| `pci.c`  | `PCI_and_PCIE/PCI-PROJECT/Phase-II/pci.c` |
| `usb.c`  | `USB_Subsystem/USB-PROJECT/Phase-II/usb.c` |
| `poll.c` | `Ground-Work/Assignment1/poll.c` |
| `mmap.c` | `Kernel_Memory_Allocation_and_Mapping/Assignment3/mmap.c` |
| `blinkplus.c` | `Ground-Work/Assignment2/blinkplus.c` |

`PROJECT.json` lists components, runs, the line each definition translates, the
hazards with the properties aimed at them, and the theorems.

## Inventory

The repository is a set of independent kernel modules. They share no code; each
meets only the kernel and its own hardware. The two network drivers and the
poll device carry most of the concurrency.

| part | state | operations | meets | hard because |
|---|---|---|---|---|
| RTL8139 PCI driver, transmit (`pci.c:478-606, 946-1025`) | `cur_tx`, `dirty_tx`, the queue's stop flag, four DMA buffers and descriptors, ISR | `rtl8139_start_xmit`, the Tx half of `rtl8139_interrupt` | network core, chip | the handler does not take `priv->lock`; the two indices are equal both for a full and for an empty ring; ISR is read and cleared in two steps; nothing wakes a stopped queue but the handler |
| RTL8139, up and down (`pci.c:780-934`) | the same, and what the last opening left of it | `rtl8139_open`, `rtl8139_stop` | network core, handler | open resets two indices in two statements with its handler registered; stop stops the queue, and the handler's loop goes on as long as the queue is stopped |
| RTL8139, receive (`pci.c:620-752`) | `cur_rx`, CAPR, the ring in DMA memory | the Rx half of the handler | chip | two parties follow one ring through alignment, a frame that runs over the end, the wrap and failed allocations |
| RTL8139, life cycle (`pci.c:174-473, 780-934, 1041-1148`) | what probe and open have taken, DMA pointers, the handler's registration, the chip's enable and mask bits | `rtl8139_probe`, `rtl8139_remove`, `rtl8139_open`, `rtl8139_stop`, against the handler | PCI core, network core, other devices on the shared line | nine requests that may be refused, three exit paths, and a handler that may run at any moment in between |
| poll device (`poll.c`) | `ir`, `iw`, `rbuf`, `use_count`, the semaphore, two wait queues | open, release, read, write, poll | any number of processes | tests of the indices are made outside the semaphore, a signal makes a call go on as if its condition held, wake-ups depend on tests made after `up` |
| RTL8150 USB driver (`usb.c`) | URBs and skbs for receive, transmit and interrupt pipes; the queue's stop flag | probe, disconnect, open, close, start_xmit, three completion callbacks | USB core, network core | URBs complete and are unlinked asynchronously; callbacks resubmit whatever `priv` points at by then |
| blinkplus (`blinkplus.c`) | a timer that re-arms itself, a work queue, the LED pattern | ioctl, timer, work, init, exit | console | timer, work and ioctl race; set-up and clean-up order |
| mmap device (`mmap.c`) | two areas, `last_minor`, the minor of each file | open, mmap, release, init, exit | processes | two variables say which device was opened; alignment and reservation; init ignores what it is refused |
| virtual block device, kernels 5 and 2.6 (`Basic-Tutorials/virtual_block_dev`) | a RAM disk, the queue | `queue_rq`/`do_request`; `do_memblock_request` | block layer, on several CPUs | requests are cut into segments or chunks, and served side by side without a lock (5) or from one call of a loop (2.6) |
| helloplus, simple (`Ground-Work`) | an interval and a timer; a buffer | open, read, write, ioctl, init, exit | processes | set-up while the device is there already |
| tutorials (`Basic-Tutorials`) | tasklets, an hrtimer, an atomic counter, an interrupt counter, a misc device | init, exit, one operation each | kernel | set-up that fails half-way; objects freed while scheduled |
| Phase-I templates (`pci_template.c`, `8139regs.c`, `usb_template.c`) | a net device and what probe has taken; a /proc file | probe, remove or disconnect, init, exit | PCI, USB and network core | exit paths; a net device freed while registered |
| user-space tests | none | | | |

What makes each part correct:

* transmit: a buffer the chip owns is never overwritten; the queue is stopped
  exactly when the ring is full; every packet is transmitted and reported once,
  in order; a stopped queue starts again;
* up and down: order and counts are those of the current opening;
* receive: frames go up in order, once, whole; a failed allocation costs one
  frame; an interrupt that finds the ring empty has really handled everything;
* life cycle: the chip never runs without its memory, and has its addresses
  whenever it runs but for one window; a running handler finds
  what it uses; what is given back is what was taken;
* poll device: bytes come out in the order they went in; nobody sleeps on a
  condition that holds; `down` and `up` exclude; a call returns;
* USB: a completed transmission frees the skb that was transmitted; a received
  buffer goes up once; no URB is left when the private structure is freed;
* blinkplus: no timer is added while it is pending; somebody always adds it
  again; exit leaves nothing that runs;
* mmap: a mapping is of the file's own area, of reserved pages that stay;
* block: each request moves each of its sectors once, and no other, before it
  is completed, and is completed;
* init/exit pairs: a set-up refused at any step leaves nothing behind, nothing
  is given back twice, and a call finds what it uses.

## Modules

| module | models | kind |
|---|---|---|
| `TxRing` | what a transmit ring promises | abstract specification |
| `Rtl8139Tx` | transmit path of the RTL8139 driver, handler and chip | detailed, implements `TxRing` |
| `Rtl8139UpDown` | `Rtl8139Tx` on an interface that is opened and closed | composition, extends `Rtl8139Tx` |
| `Rtl8139TxProofs` | theorems about the two | TLAPS |
| `FrameStream` | what reception promises | abstract specification |
| `Rtl8139Rx` | receive half of the handler, and the chip | detailed, implements `FrameStream` |
| `Rtl8139RxProofs` | theorems about it | TLAPS |
| `Rtl8139Life` | probe, remove, open, stop and the handler | detailed |
| `Rtl8139LifeProofs` | theorems about it | TLAPS |
| `ByteQueue` | what `/dev/poll_dev` promises | abstract specification |
| `PollDevice` | the poll device and its callers | detailed, implements `ByteQueue` |
| `PollDeviceProofs` | theorems about it | TLAPS |
| `Rtl8150` | the USB driver between network core and USB core | detailed |
| `Rtl8150Proofs` | theorems about it | TLAPS |
| `Blinkplus` | the LED module's timer, work queue, ioctls, set-up and clean-up | detailed |
| `MmapDevice` | the two areas, and files that map them | detailed |
| `MmapDeviceProofs` | theorems about it | TLAPS |
| `Disk` | what a block driver promises | abstract specification |
| `BlockDevice5` | requests served segment by segment, without a lock | detailed, implements `Disk` |
| `BlockDevice26` | requests served chunk by chunk under the queue's lock | detailed, implements `Disk` |
| `VirtualBlockDev` | the tutorial, built for one kernel or the other | composition of the two |
| `BlockDeviceProofs` | theorems about these three | TLAPS |
| `Ladders` | init and exit, or probe and remove, of sixteen modules, and who calls them meanwhile | detailed, from tables |
| `LaddersProofs` | theorems about `Ladders` and `Blinkplus` | TLAPS |

Definitions named `...Unchecked`, `...Forgotten` and the like, each under a
comment that begins with "Mutant:", are faulty variants of the definition that
follows them. They are part of no specification: they show that the property
they are paired with in `PROJECT.json` can tell the right code from the wrong.

### Rtl8139Tx

`start_xmit` is cut where another party can see the difference: the copy into
the buffer (`XmitCopy`, or `XmitOversize` for a packet that does not fit), the
write to TSD that hands the descriptor to the chip (`XmitTrigger`), the advance
of `cur_tx`, the comparison with `dirty_tx` and the stop. The handler is cut at
its read of ISR, its write of 0xfff, the two halves of its loop condition, the
reclaiming of one descriptor with the advance of `dirty_tx`, the comparison and
the wake. `SMP` says whether the two may run side by side. The handler does not
take `priv->lock`, so on one CPU the lock keeps it out, because interrupts are
off, and on two it does nothing. `startvm.sh` starts the virtual machine the
project is developed in with one CPU; the passing runs and the theorems other
than `TypeCorrect` and `AnyCpuBound` are about that. The handler may be entered at any time, for
a received frame or for another device on the line.

A packet is its number; `wire` records what the chip sent and how it went, and
`accepted` and `reported` count packets in and out. The ghost `swallowed` says
that the write of 0xfff has cleared a transmit interrupt the read before it did
not show, in a handler entered for something else: what happens then is the
finding `TxRxLost`, and `NothingLeftBehind` and `CompletionReported` are about
all other behaviours. Register layouts are reduced to the bits the code tests.

### Rtl8139UpDown

The actions of `Rtl8139Tx` with open and stop around them, cut where the
handler can come in between: `request_irq`, the resets of `dirty_tx` and of
`cur_tx`, the reset of the chip, its interrupt mask, `netif_start_queue`; and
backwards. What stop leaves (ISR, descriptors, indices) is there at the next
open. The counts are of the current opening. The ghost `disturbed` says that
the handler moved `dirty_tx` between the two resets: it may be running for
another device, find a stale transmit bit and an outcome of the last opening,
and the interface then comes up with indices that differ (`pci.c:836-837`).

### Rtl8139Rx

The ring is a function from dwords to what the chip put there: frame, part of
the frame, size. Sizes are in dwords, since both chip and driver align
(`pci.c:725-731`), and include the header. A frame that begins near the end
runs on into the padding behind the ring (the WRAP bit of RCR). The position
`cur_rx` is kept as the code keeps it, unwrapped until the next frame; `hw_rd`
is what CAPR tells the chip. A header read from a place where no frame begins
is the state `lost`, and the model does not go on from there. The model begins
after a hardware start in which no frame came between the writes to RCR and to
RBSTART (`pci.c:1081-1096`): one that does goes to another address and moves the
position of the chip but not that of the driver. `Rtl8139Life` has that window.

### Rtl8139Life

Probe is a table of requests (`Rungs`), each with what it takes and the label a
refusal jumps to, and a table of labels that fall through (`Labels`); the two
actions that walk it are `ProbeGranted` and `ProbeRefused`. Open, stop and
remove are one action per call that can fail, wait, or be seen by the handler.
Ghosts record what was lost for good (`lost`), and why (`faults`). The handler
may be entered, as long as it is registered, for the card's own interrupt or
for another's; the one way it meets a null ring is named in `NullRingExplained`.

The hardware start is one action per register that matters: the reset, which
may or may not leave RCR alone, CR, RCR, TSAD0-3, RBSTART, and the interrupt
mask. `tsad` and `rbstart` say whose memory the chip has been told of: that of
this opening, or another, which is what a reset leaves or what the last stop has
freed. CR comes first and RBSTART last (`pci.c:1071-1096`), so between the two
the receiver is on, from RCR on with its filter open, and stores what it
receives elsewhere. `ChipOwnsMemory` names that window and says that there is no
other. The labels of probe give back sets: `pci_release_regions` also releases
the region of BAR0, which nobody requested (`pci.c:265, 465, 1140`); the ghost
`unheld` collects what is given back and was not there.

### PollDevice

Each process has its own program counter. A call is cut at every point where
another process can run and be seen: the test of `wait_event_interruptible`,
the sleep, `down_interruptible`, each byte, the wrap of the index after it,
`up`, and the wake-up. Signals may end every interruptible wait, and the code
goes on after the first (`poll.c:111, 170`) and returns from the second.
`poll` is two tests and, if both fail, one more after the process is on the
queues. `read` and `write` do not take the spin lock `poll` takes, so the
latter adds no exclusion with them; `open` and `release` take it for their
whole body and are one step each. A byte is its number in the order of storing.

`ByteQueue` knows who has the device open (`holders`, which `PollDevice` maps
to the processes that are not closed, and not to `use_count`): only an open that
finds nobody else may, and must, empty the queue.

### Rtl8150

A URB is idle, in flight, or in flight and unlinked. The callbacks are cut at
each use of `priv`: `read_bulk_callback` hands up `priv->rx_skb`, allocates the
next and submits `priv->rx_urb`; `write_bulk_callback` frees `priv->tx_skb` and
starts the queue. Each open allocates new URBs, so receive URBs are numbered by
open and transmit URBs by packet; `gen` and `tx_cur` are the ones `priv` points
at. The interrupt URB submits itself, touches nothing of the others, and is
followed for the last open only. Disconnect follows the USB core: it takes no
more URBs, unlinks those it has and calls the driver when they are back. The
source as it stands calls `usb_submit_urb` with one argument at line 321 and so
needs the second (allocation flags) to compile; the model is of the call.

Four ghosts name overlaps of one opening with the next, which the code does
nothing against: `left`, a receive URB that is in flight on an interface that
is down (a failed open, `usb.c:490`, or a callback that submits it again after
close has unlinked it, because it looks for `-ENOENT`, the status of
`usb_kill_urb`, and gets `-ECONNRESET`, `usb.c:278`); `mixed`, an open that
comes upon it; `late`, an open that starts the queue over a transmission close
did not wait for; `deaf`, a resubmission that was refused. `fate` says of each
packet whether it was freed.

### Blinkplus

The branch for kernels from 4.14. Handler, work, each caller and the set-up or
clean-up are processes of their own. The handler is cut between `queue_work`
and `add_timer`, the work between the spin lock and `KDSETLED`, SETINV between
`del_timer_sync`, which waits for the handler, and `add_timer`, which refuses a
timer that is pending (`BUG_ON`) or has no function yet. Set-up goes in the
code's order, the device first and the work queue last. `oops` says what has
stopped the kernel; nothing goes on after it. The interval is left out: a
pending timer may expire at any time. Ghosts mark the three ways to get there:
two SETINV at once, a set-up overtaken by the timer or an ioctl, or refused
with the timer armed, and a clean-up that passes a running handler.

### MmapDevice

The two areas are there after the device is, and either may be refused without
init noticing. The kmalloc area begins at the first page boundary in a block
that begins anywhere in a page, so that arithmetic is in bytes. Files are
opened in two steps, as the code writes two variables; mappings, of any length
`mmaper_mmap` accepts, go by the file's own. A page that is of no area is
`astray`. The ghosts `tried` and `early` name the two excuses of `MapsItsArea`:
a mapping longer than the area, since the length is compared with
`LEN * PAGE_SIZE`, and one made before the area was there.

### BlockDevice5, BlockDevice26, VirtualBlockDev

`Disk` knows requests, sectors and what has been moved of each; `BlockDevice5`
cuts a request into segments of any length and copies each sector by sector,
with `pos` and `nr_bytes` as the code counts them, any number of requests side
by side; the clamp at the end of the device and the `BUG` after a short report
are there. `BlockDevice26` serves under the lock of the queue: one call goes on
until the queue is empty, and `end_request` ends a chunk, after which the same
request comes back with the next. `VirtualBlockDev` is one of the two, chosen
at the start. Sectors hold values, so that a read that mixes two writes shows.
A write of a request that is underway and a read of the same sectors may mix
with kernels 5, where `Disk` does not forbid it, and may not with 2.6
(`Undivided`).

### Ladders

An init is a table of requests (`Tested`: a refusal is seen and jumps to a
label; `Hoped`: it is not seen; `Trusted`: it is dereferenced at once), an exit
the order in which things are given back, and `Calls` says what the device
file, interrupt, timer, tasklet, disk or net device of a module uses when it
calls in. The same actions walk all tables: poll, simple, helloplus, blinkplus,
mmap, those of `Basic-Tutorials` (atomic, hrtimer, interrupt, static and dynamic
tasklet, misc, and the block device twice) and the three Phase-I modules, whose
probe and remove take the place of init and exit. Error pointers matter:
`class_create`, `device_create` and `kthread_run` never return NULL, which the
tutorials test for. `found` collects what goes wrong, `held` what is left. The
structure of a cdev is not followed apart from its registration.

`OnTop` says what stands on what: a character device and its file on the
numbers, the file on its class, an added disk on its gendisk, a registered
interface on its net device, a mapping on its region. Giving something back with
another thing on it is an error of its own ("in use"): the kernel stops at a
registered net device and may stop at a gendisk whose last reference is dropped
before `del_gendisk`; the rest goes, from under what stands on it. The ghost
`late` holds what is there again, or still, after exit has given it back: a timer
its handler arms again, a tasklet the interrupt schedules again, and the mapping
the PCI template looks up in memory it has freed. `pci_release_regions` gives back
"ioport" with "iomem": the template requests only the memory of BAR1.

## Runs

| run | instance | distinct states | shows |
|---|---|---|---|
| `TxUp` | 3 descriptors, 5 packets, one CPU, any other interrupts | 160 000 | no buffer is overwritten, flow control is exact, every packet is sent and reported once, in order, and is reported in the end, a swallowed interrupt excepted |
| `TxSmpOverrun` | 2 descriptors, 4 packets, two CPUs | | violated: the handler wakes a queue just filled and stopped, and a packet is overwritten |
| `TxRxLost` | 2 descriptors, 4 packets, one CPU | | violated: a completion cleared unseen by the write of 0xfff leaves the queue stopped for good |
| `UpDown` | 2 descriptors, 2 openings, 3 packets each, one CPU | 574 000 | order and counts are those of this opening, a stopped queue is woken again, two interrupts excepted |
| `RxRing` | 7 dwords, frames of 2 and 3, 5 frames, 1 error | 178 000 | frames go up whole, once and in order, until a frame ends exactly at the end of the ring |
| `Life` | 2 failed opens | 9 400 | memory, addresses, registration and resources through every refusal and interleaving, the window before RBSTART excepted |
| `Poll` | 2 processes, one non-blocking, 3 slots, calls of up to 3 bytes, 4 bytes | 85 000 | a FIFO, no lost wake-up, a sleeping reader is served, a call that is past its wait returns |
| `Usb` | 2 opens, 2 packets | 4 570 000 | skbs, packets, listening, life time and the queue through every race with the callbacks |
| `Blink` | 2 callers, SETINV 3 times, SETLED with 2 patterns | 25 000 | the LEDs keep blinking; what can stop the kernel, and nothing else can |
| `Mmap` | 2 files, pages of 2 bytes, areas of 2 pages, mappings of up to 5 pages | 33 000 | mappings are of their own area, whatever other files do |
| `Block` | 2 sectors, 2 values, 2 requests, either kernel | 69 000 | each request moves its sectors once and is ended; with 2.6 no read finds half of a write |
| `Ladders` | 16 modules, any refusals, any calls meanwhile | 1 020 | what is left behind or goes wrong has a cause that is named, and nothing else is left or goes wrong |

Why the bounds are enough. For the safety properties of every module with
constants the theorems below hold for all their values (on one CPU, for the
transmit path), so the bounds matter only to liveness and to the mutants. A
ring of 3 descriptors with 5 packets is empty, part full and full, and all
three indices wrap; with 2 descriptors the full ring and the last completion
meet soonest, which is what `TxRxLost` and `UpDown` are about, and 3 packets
leave the indices of an opening at another place than they began. Two openings
are what something left over needs to meet something new. 7 dwords and sizes 2
and 3 make frames end short of, at and beyond the end of the ring, and 5
frames go round more than once; the two sizes distinguish a driver that steps
by the size from one that does not. Two failed opens let a handler that was
left over meet another. Three slots hold at most two bytes, so full, empty and
both places of a wrapped full buffer occur. Two opens are what an earlier URB
needs to meet a later one, and two packets what a completion needs to meet the
wrong skb. Two callers are what two overlapping SETINV need, the third call
meets what they leave. Pages of 2 bytes let a block begin inside a page; an
area has 2 pages, 4 are the longest mapping the code accepts, and 5 are one
more. Two sectors and two values let a read mix two writes; a request of 2
sectors has one segment or two. `Ladders` has no constants: its run is
exhaustive. `MaxPkts`, `MaxFrames`, `MaxErrs`, `MaxLeaks`, `MaxLen`,
`MaxBytes`, `MaxOpens`, `MaxSets` and `MaxPages` are bounds of the models and
not of the code; each stands in a guard or in the range of a quantifier.
`Skbs` of `Rtl8150` is a bound too: as many as can be in circulation at once.

Deadlock is checked in `Life`, `Poll` and `Block`. The others may really stop:
the network core may have no packet left (`TxUp`, `TxSmpOverrun`, `TxRxLost`)
or close for good (`UpDown`), the chip may have no frame left or the driver be
lost (`RxRing`), the device or the module may be gone, or the kernel stopped
(`Usb`, `Blink`, `Mmap`, `Ladders`).

Fairness. `TxUp`, `TxRxLost`, `UpDown`: start_xmit and the handler, once begun,
run on; the chip transmits what it owns; an interrupt whose bit stays set, and
in `UpDown` is enabled, is taken. `Poll`: a process in the kernel is scheduled;
semaphores queue their waiters, so one that waits is not overtaken for ever.
`Blink`: a pending timer expires, the handler, the work and a SETINV that has
begun run on; callers that restart the interval for ever are excluded by
`MaxSets`. `Block`: the block layer runs its queue, and the driver's function
comes to its end. Nobody is assumed to send, receive, open, close, or be
signalled, and no other device to raise an interrupt.

### What the violations say

* On two CPUs the advance of `dirty_tx`, the comparison and the wake in the
  handler are not one step, and nothing keeps `start_xmit` out.
* The read of ISR and the write of 0xfff are two accesses; what is raised in
  between is lost. When the handler had a transmit bit of its own, the loop
  makes good for the lost one; entered for another reason, it does not loop.

Further disagreements are named inside properties that hold, which say that
there are no others:

| where | what | named in |
|---|---|---|
| `pci.c:310` | the refused DMA mask jumps past the unmapping its comment asks for | `LossExplained` |
| `pci.c:1137` | remove reads `priv->mmio_addr` after freeing `priv` | `LossExplained` |
| `pci.c:865` | a failed open leaves its handler registered | `IrqBalance` |
| `pci.c:653` | a stale RxOK and another card's interrupt find no ring during open | `NullRingExplained` |
| `pci.c:641` | `cur_rx > RX_BUF_LEN` should be `>=` | `LostOnlyAtEnd` |
| `pci.c:836` | an interrupt between the two resets leaves indices that differ | `UpStopEnds` |
| `pci.c:547` | stop stops the queue, which makes the loop of the handler count what is not there (`CountsOnceWhileUp` is about an interface that is up) | `CountsOnceWhileUp` |
| `pci.c:1071` | the receiver is enabled, and lets frames in, before RBSTART is written | `ChipOwnsMemory` |
| `pci.c:465, 1140` | the region of BAR0 is released, and was never requested | `LossExplained` |
| `poll.c:48` | `is_buffer_full` compares with N where a wrapped full buffer gives N - 1 | `WriterSleepsWhenFull` |
| `blinkplus.c:231` | `del_timer_sync` does not "avoid any race condition in smp environment" between two SETINV | `AddedTwiceExplained` |
| `usb.c:278` | the unlinked receive URB has the status `-ECONNRESET`, the callback looks for `-ENOENT` and submits it again | `DownIsQuiet` |
| `usb.c:603` | close does not wait for the transmission it unlinks | `SentIsFreed` |
| `usb.c:655` | a packet whose transmission failed is freed by nobody | `FreedOrFailed` |
| `mmap.c` | a mapping may be as long as `LEN * PAGE_SIZE` allows, and come before the area | `MapsItsArea` |
| smaller modules | labels that free an interrupt never requested and leave a device, tests for NULL that an error pointer passes, a region given back with the wrong count, a tasklet freed before its interrupt, a net device freed while registered (`usb_template.c:335`), a gendisk put before it is deleted (`v2.6/main.c:111-113`), a class destroyed under its device (`static_tasklet/main.c:178-179`), a region released and never requested (`pci_template.c:469, 543`), a mapping and a device never given back (`8139regs.c:116, 153`) | `LeftExplained`, `StopsExplained` |

## Proofs

TLAPS checks the theorems for every value of the constants, under the named
assumptions of the modules only: at least one descriptor; at least two slots;
a receive ring longer than its longest frame, which has at least two dwords (a
header and data); whole pages in an area; at least one sector and a value it
can hold; `None` is not a request; bounds are naturals. The type invariants of
these modules are theorems (`TypeCorrect`, `BlockTyped`, `UpDownCorrect`,
`QueueCorrect`) and are in no run.

`Rtl8139TxProofs`. `TypeCorrect` and `AnyCpuBound` are for any number of CPUs.
The second says what an overrun leaves: a descriptor the chip owns was given to
it by a call whose turn has not come and holds the packet of that call or of a
later one (`AnyCpuInv`), so the chip never sends more often than it was told
to. The rest is for one CPU and goes through `RingInv`: the indices of driver and chip are the counts of
accepted, reported and transmitted packets modulo the ring (`IndexInv`), the
packets in between sit in their buffers with the status the chip gave them
(`SlotInv`), an awake queue has a descriptor to spare (`XmitInv`), and the
place of the handler in its loop bounds the fill (`IrqInv`). Safety properties
are not inductive alone: that `CopyTargetFree` holds depends on the queue
having been stopped in an earlier step, which depends on the comparison, which
depends on the handler having been kept out. `NoLostCompletion` adds
`PendingInv`. `Refinement` maps each step to one of `TxRing` or to a stutter.

For `Rtl8139UpDown` the invariant is `UpDownInv`: before the queue is started
nothing is sent and nothing to reclaim (`FreshInv`); an interface that is up
satisfies `RingInv`, or, when the handler has moved `dirty_tx` during open,
`SkewInv`: the ring is then used once, from its beginning up to `dirty_tx`, and
the descriptor the handler looks at was never used. Either way the chip sends
what comes next (`UpSends`, `SendsNext`), which is all that is left of it once
the queue is stopped (`ChipInv`) and gives `WiresInOrder`; `CountsOnce` holds
over `RingInv` because the handler stands at the oldest packet, and over
`SkewInv` because it counts nothing. A step of the interface that is up is one of
`Rtl8139Tx`, so `RingInv` is preserved by the lemma that `RingCorrect` uses.
`AgreeInv` tells the two apart: where the handler left `dirty_tx` alone, the
indices agree, and the interface keeps all that `Rtl8139Tx` keeps
(`UndisturbedKeepsAll`). Where it did not, each opening is still a ring of
`TxRing` and start_xmit still copies over nothing (`EachOpeningIsRing`,
`UpCopiesFree`), but the first stop of the queue is the last (`StuckIsStuck`).

`Rtl8139RxProofs`. `RxRingInv` says where each frame lies: there is a function
`dist` from the frames not yet given back to their distance from CAPR
(`RingInv`, `Laid`), it grows by the size of each frame, ends where the chip
writes, and the dwords of each are in the ring or run into the padding.
`ReceiveLays` shows that the chip, which only looks at CAPR, writes on none of
them (`WritesNoFrame`), and `AdvanceLays` that moving CAPR by the size just read
brings the others nearer by as much. `PlaceInv` adds that the driver stands
where the chip thinks, or a whole length further, and that no frame ever begins
at the very end, which is why the header cannot be found there. `Refinement`
follows: what `RxCopy` takes is the first frame not handled, whole.
`LeavesOnlySwallowed` needs only `ReportInv`.

`Rtl8139LifeProofs`. `LifeInv` says for each place of probe and remove what is
held (`LadderInv`), for each place of open and stop what memory there is and
what the chip may do and whose addresses it has (`PhaseInv`), and where a handler
may still be running (`HandlerInv`, `OtherCardInv`).

`PollDeviceProofs`. `IInv` adds `DataInv` to the properties: the bytes in the
ring are those from `next` to `sent`, an index is N exactly while its owner
wraps it, and a writer's limit is the slot before `ir`. `NoLostWakeup` is
inductive with it, and `QueueRefinement` reads each step as one of `ByteQueue`;
that an open empties the queue exactly when nobody else has the device open
needs `UseCountExact`, which ties `use_count` to who has.
`WritersSleep` is an action property: `DataInv` turns the arithmetic of
`is_buffer_full` into the number of bytes. `NobodyWaitsInACircle` follows from
`NoLostWakeup`, because a ring of two slots is not empty and full at once;
`CallsNotCut` from `SemaphoreExcludes`. The set of processes is any finite set.

`Rtl8150Proofs`. `UsbInv` has one part for each pipe under the ghost that says
its overlap has not happened: without `mixed` there is one receive URB in
circulation, with an skb that nobody else holds (`RxInv`); without `late` one
transmission, of the last packet, with the queue stopped (`TxInv`). `ListenInv`
follows the receive and the interrupt URB from open on, `GoneInv` the order of a
disconnect, `ShapeInv` what may be under way together. The proof has a lemma
for each action and each part.

`LaddersProofs`, on `Blinkplus`. `TimerInv`: how far the set-up is and what there is by then
(`SetUpInv`), and that one SETINV alone has timer and handler at rest between
its two calls (`AloneInv`). `TimerKeptGoing` and `AllOnEnds` are about the same
steps.

`MmapDeviceProofs`. `MapInv` adds to `MapsItsArea` that whoever maps is open,
and that an open file keeps the module. The arithmetic of alignment is for any
length of a page.

`BlockDeviceProofs`. `ServeInv` says that the position in the request, on the
device and the bytes reported agree however the request is cut; from it `BUG`
is not reached and each step is one of `Disk` or none. `QueueInv` does the same
for kernels 2.6 and contains `Undivided`: of a request that waits nothing has
been copied, so the one that is served may write without hurting another, and
what it has copied is the same on both sides. That needs the lock: with
`BlockDevice5` requests overlap, and the same is claimed of it only while the
block layer keeps apart what they write (`WholeIfApart`; its hypothesis is about
the callers, and any set of requests on different sectors meets it).
`NothingLeftInQueue` needs `NothingForgotten` alone.

On `Ladders` the proof has two halves. `TablesFit` goes through the sixteen
modules one by one: each list that an init jumps to, and the list of exit,
covers what the steps before have taken, less what `LeftAnyway` and `LeftOutFor`
name, and finds there what it must find (`Covers`); and it gives back nothing
before what stands on it (`Ordered`, from `Precedes`), but for what `Excused`
names. The other half follows the walk through tables that fit: `StepsInv`
relates what is held to the steps gone by, `ListInv` what is still to be given
back, and in which order, to what is held, `LeftInv` what will be left to both.
The order has to be in the invariant: that nothing stands on the head of the
list follows from what stood on it having come earlier in it. A table that is
changed needs its own lemma again and nothing else.

Left to TLC: the liveness properties, because TLAPS has no ENABLED; the
violations, which are counterexamples. What the liveness properties rest on is
proved as safety, for every value of the constants: that somebody can go on,
and that going on leads to an end because a number of steps left becomes less
and nobody else adds to it. `CallFinishes` and `ReaderServed` rest on
`CallsGoOn`, `CallsEnd` and `NoLostWakeups`; `EitherServed` on `ServingGoesOn`,
`ServingEnds`, `QueueGoesOn` and `QueueEnds`; `CompletionReported` and
`UpStopEnds` on `StoppedNeverAbandoned`, `UndisturbedKeepsAll`,
`HandlerComesToEnd` and `UpHandlerComesToEnd`; `Blinks` on `TimerKeptGoing`. In
these theorems "can go on" is the guards of the actions, written out. The
receive loop has no such end: it goes on as long as the chip receives, and
`HandlerComesToEnd` of `Rtl8139RxProofs` says that nothing else keeps it going,
and that a chip that falls silent leaves it `2 * RX_BUF_LEN` steps at most: each
frame in the ring takes two dwords of it or more (`FramesFit`), which `Laid` says
of the distances of any two frames, since a sum over frames is out of reach.

`PROJECT.json` lists the results; the type invariants and the inductive
invariants they rest on (`TypeCorrect`, `UpDownCorrect`, `PositionsAgree`,
`QueueCorrect`, `LadderCorrect`, `TimerCorrect`, `UsbCorrect`, `MapCorrect`) are
theorems of the same modules.

## Not modelled

* `pci.c`: ethtool and MII reads, `get_stats`, messages, the MAC address; the
  receive ring across a close, whose memory is new at each open. `Rtl8139UpDown`
  is about one CPU.
* `usb.c`: the registers of the hardware start, the counters and the carrier
  bits of the interrupt callback; failed allocations of a URB or skb (lines 317,
  468-471), which end in a null pointer at once.
* `blinkplus.c`: GETINV, the branch for kernels before 4.14.
* `mmap.c`: what /proc/mmap prints; `mmap_kmalloc.c` and `mmap_vmalloc.c`, which
  are drafts of two functions of `mmap.c` without a device.
* The counter and the bit that two threads of `atomic_oprs` change, each by one
  atomic operation; what the devices of `simple` and of the tutorials copy or
  print; the use count of `simple`, which nothing reads.
* The user-space tests are sequences of calls that the models allow in any
  order. Build files and generated `*.mod.c` hold no state.

A non-blocking read may sleep at `poll.c:111` when another reader took the
bytes it had seen at line 85. `PollDevice` has the behaviour; nothing in the
repository says otherwise, so no property forbids it.

## Plan

In order of importance; all but the last two are done.

1. `TxRing`, `Rtl8139Tx`, `Rtl8139TxProofs`.
2. `ByteQueue`, `PollDevice`, `PollDeviceProofs`.
3. `FrameStream`, `Rtl8139Rx`, `Rtl8139RxProofs`.
4. `Rtl8139Life`, `Rtl8139LifeProofs`.
5. `Rtl8150`, `Rtl8150Proofs`.
6. `Blinkplus`.
7. `Ladders`, with the Phase-I modules, and `LaddersProofs` for the two.
8. `Rtl8139UpDown`: transmission across close and open.
9. `MmapDevice`, `MmapDeviceProofs`.
10. `Disk`, `BlockDevice5`, `BlockDevice26`, `BlockDeviceProofs`.
11. The theorems about `Rtl8139UpDown`, from an invariant that adds to
    `RingInv` what an earlier opening has left in the descriptors.
12. The theorems about `BlockDevice26` and `VirtualBlockDev`, and about `Ladders`.
13. What the liveness properties rest on, as safety: the device drivers' loops
    end and somebody can always go on.
14. A bound on the frames in the receive ring, and with it on the steps of the
    receive loop while the chip is silent.
15. `Rtl8139UpDown` on two CPUs: `AnyCpuBound` is about one opening.
16. The receive ring in `Rtl8139UpDown`, for the frame that is being copied
    when the interface goes down.
