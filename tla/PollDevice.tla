----------------------------- MODULE PollDevice -----------------------------
(***************************************************************************)
(* /dev/poll_dev (Ground-Work/Assignment1/poll.c): a ring of N bytes that  *)
(* any number of processes read, write and poll.  A semaphore serialises   *)
(* the copy loops of read and write; the tests for an empty or a full ring *)
(* run outside it, in the wait for room or data and in poll.               *)
(*                                                                         *)
(* One step is one access to shared state that another process can see.    *)
(* A test of ir against iw is one step.  A system call is interrupted by a *)
(* signal at any point where it sleeps.                                    *)
(***************************************************************************)
EXTENDS Integers, FiniteSets

CONSTANTS
  N,           \* size of the ring
  Proc,        \* processes
  NonBlocking, \* those whose file has O_NONBLOCK
  MaxLen,      \* bound: bytes asked for in one call
  MaxBytes     \* bound: bytes ever passed to write

ASSUME RingAssumption == N \in Nat /\ N >= 2
ASSUME ProcAssumption == IsFiniteSet(Proc) /\ NonBlocking \subseteq Proc
ASSUME LenAssumption == MaxLen \in Nat /\ MaxBytes \in Nat

VARIABLES
  rbuf, ir, iw,     \* the ring, where to read and where to write
  use_count,        \* open files
  sema,             \* 1 when free
  pc,               \* where each process is
  len,              \* argument of its call
  i,                \* bytes its call has copied
  ih,               \* where its write has to stop
  want,             \* events its poll asks for
  asked,            \* ghost: bytes passed to write so far
  sent, next, last  \* ghost: bytes stored, bytes delivered, last delivered

ring  == <<rbuf, ir, iw>>
local == <<len, i, ih, want>>
ghost == <<asked, sent, next, last>>
vars  == <<ring, use_count, sema, pc, local, ghost>>

Slots  == 0 .. N - 1
NoByte == MaxBytes
Events == {"POLLIN", "POLLOUT"}

InRead  == {"rwait", "rsleep", "rdown", "rloop", "rwrap", "rwake"}
InWrite == {"wwait", "wsleep", "wdown", "wloop", "wwrap", "wwake"}
InPoll  == {"pin", "pout", "pmiss", "psleep"}
Holding == {"rloop", "rwrap", "wloop", "wwrap"}    \* between down and up

Init ==
  /\ rbuf = [s \in Slots |-> NoByte] /\ ir = 0 /\ iw = 0
  /\ use_count = 0 /\ sema = 1
  /\ pc = [p \in Proc |-> "closed"]
  /\ len = [p \in Proc |-> 0] /\ i = [p \in Proc |-> 0]
  /\ ih = [p \in Proc |-> 0] /\ want = [p \in Proc |-> {}]
  /\ asked = 0 /\ sent = 0 /\ next = 0 /\ last = NoByte

Goto(p, label) == pc' = [pc EXCEPT ![p] = label]

-----------------------------------------------------------------------------

is_buffer_empty == ir = iw

is_buffer_full ==
  \/ iw > ir /\ iw - ir + 1 = N
  \/ iw < ir /\ N - ir + iw = N

(* device_open, device_release                                             *)

\* Mutant: the ring is reset at every open.
OpenResets(p) ==
  /\ pc[p] = "closed"
  /\ ir' = 0 /\ iw' = 0 /\ next' = sent
  /\ use_count' = use_count + 1
  /\ Goto(p, "user")
  /\ UNCHANGED <<rbuf, sema, local, asked, sent, last>>

Open(p) ==
  /\ pc[p] = "closed"
  /\ IF use_count = 0 THEN ir' = 0 /\ iw' = 0 /\ next' = sent
                      ELSE UNCHANGED <<ir, iw, next>>
  /\ use_count' = use_count + 1
  /\ Goto(p, "user")
  /\ UNCHANGED <<rbuf, sema, local, asked, sent, last>>

Release(p) ==
  /\ pc[p] = "user"
  /\ use_count' = use_count - 1
  /\ Goto(p, "closed")
  /\ UNCHANGED <<ring, sema, local, ghost>>

-----------------------------------------------------------------------------
(* Sleeping and waking.                                                    *)

\* wake_up_interruptible on a queue: everybody asleep there tests again.
\* A poll is on both queues, from before its tests on: woken between them it
\* will not sleep.
Woken(own, asleep, test) ==
  [p \in Proc |-> CASE pc[p] = asleep   -> test
                    [] pc[p] = "psleep" -> "pin"
                    [] pc[p] = "pout"   -> "pmiss"
                    [] OTHER            -> own[p]]

Returned(p) == [pc EXCEPT ![p] = "user"]

\* The locals of a finished call are forgotten.
Forget(p) ==
  /\ len' = [len EXCEPT ![p] = 0]
  /\ i' = [i EXCEPT ![p] = 0]
  /\ ih' = [ih EXCEPT ![p] = 0]
  /\ UNCHANGED want

-----------------------------------------------------------------------------
(* device_read                                                             *)

\* An empty ring and O_NONBLOCK: the call returns -EAGAIN, nothing changes.
ReadCall(p) ==
  /\ pc[p] = "user"
  /\ ~(is_buffer_empty /\ p \in NonBlocking)
  /\ \E n \in 1..MaxLen:
       /\ len' = [len EXCEPT ![p] = n]
  /\ Goto(p, "rwait")
  /\ UNCHANGED <<ring, use_count, sema, i, ih, want, ghost>>

\* wait_event_interruptible(qin, !is_buffer_empty())
ReadWait(p) ==
  /\ pc[p] = "rwait"
  /\ Goto(p, IF is_buffer_empty THEN "rsleep" ELSE "rdown")
  /\ UNCHANGED <<ring, use_count, sema, local, ghost>>

\* A signal ends the wait; its result is ignored.
ReadInterrupted(p) ==
  /\ pc[p] = "rsleep"
  /\ Goto(p, "rdown")
  /\ UNCHANGED <<ring, use_count, sema, local, ghost>>

ReadDown(p) ==
  /\ pc[p] = "rdown" /\ sema = 1
  /\ sema' = 0
  /\ Goto(p, "rloop")
  /\ UNCHANGED <<ring, use_count, local, ghost>>

\* -ERESTARTSYS
ReadDownInterrupted(p) ==
  /\ pc[p] = "rdown" /\ sema = 0
  /\ Goto(p, "user") /\ Forget(p)
  /\ UNCHANGED <<ring, use_count, sema, ghost>>

ReadByte(p) ==
  /\ pc[p] = "rloop" /\ i[p] < len[p] /\ ir # iw
  /\ last' = rbuf[ir] /\ next' = next + 1
  /\ ir' = ir + 1
  /\ i' = [i EXCEPT ![p] = i[p] + 1]
  /\ IF ir + 1 = N THEN Goto(p, "rwrap") ELSE UNCHANGED pc
  /\ UNCHANGED <<rbuf, iw, use_count, sema, len, ih, want, asked, sent>>

ReadWrap(p) ==
  /\ pc[p] = "rwrap"
  /\ ir' = 0
  /\ Goto(p, "rloop")
  /\ UNCHANGED <<rbuf, iw, use_count, sema, local, ghost>>

\* Mutant: a read that found nothing returns with the semaphore held.
ReadUpKeepsSema(p) ==
  /\ pc[p] = "rloop" /\ (i[p] = len[p] \/ ir = iw)
  /\ sema' = IF i[p] > 0 THEN 1 ELSE 0
  /\ IF i[p] > 0 THEN Goto(p, "rwake") /\ UNCHANGED local
                 ELSE Goto(p, "user") /\ Forget(p)
  /\ UNCHANGED <<ring, use_count, ghost>>

ReadUp(p) ==
  /\ pc[p] = "rloop" /\ (i[p] = len[p] \/ ir = iw)
  /\ sema' = 1
  /\ IF i[p] > 0 THEN Goto(p, "rwake") /\ UNCHANGED local
                 ELSE Goto(p, "user") /\ Forget(p)
  /\ UNCHANGED <<ring, use_count, ghost>>

\* wake_up_interruptible(&qout)
ReadWake(p) ==
  /\ pc[p] = "rwake"
  /\ pc' = Woken(Returned(p), "wsleep", "wwait")
  /\ Forget(p)
  /\ UNCHANGED <<ring, use_count, sema, ghost>>

Read(p) == \/ ReadWait(p) \/ ReadDown(p) \/ ReadByte(p) \/ ReadWrap(p)
           \/ ReadUp(p) \/ ReadWake(p)

-----------------------------------------------------------------------------
(* device_write                                                            *)

WriteCall(p) ==
  /\ pc[p] = "user"
  /\ ~(is_buffer_full /\ p \in NonBlocking)
  /\ \E n \in 1..MaxLen:
       /\ asked + n <= MaxBytes
       /\ asked' = asked + n
       /\ len' = [len EXCEPT ![p] = n]
  /\ Goto(p, "wwait")
  /\ UNCHANGED <<ring, use_count, sema, i, ih, want, sent, next, last>>

\* Mutant: the writer's wait looks at the wrong end of the queue.
WriteWaitEmpty(p) ==
  /\ pc[p] = "wwait"
  /\ Goto(p, IF is_buffer_empty THEN "wsleep" ELSE "wdown")
  /\ UNCHANGED <<ring, use_count, sema, local, ghost>>

\* wait_event_interruptible(qout, !is_buffer_full())
WriteWait(p) ==
  /\ pc[p] = "wwait"
  /\ Goto(p, IF is_buffer_full THEN "wsleep" ELSE "wdown")
  /\ UNCHANGED <<ring, use_count, sema, local, ghost>>

WriteInterrupted(p) ==
  /\ pc[p] = "wsleep"
  /\ Goto(p, "wdown")
  /\ UNCHANGED <<ring, use_count, sema, local, ghost>>

WriteDown(p) ==
  /\ pc[p] = "wdown" /\ sema = 1
  /\ sema' = 0
  /\ ih' = [ih EXCEPT ![p] = IF ir - 1 < 0 THEN ir - 1 + N ELSE ir - 1]
  /\ Goto(p, "wloop")
  /\ UNCHANGED <<ring, use_count, len, i, want, ghost>>

WriteDownInterrupted(p) ==
  /\ pc[p] = "wdown" /\ sema = 0
  /\ Goto(p, "user") /\ Forget(p)
  /\ UNCHANGED <<ring, use_count, sema, ghost>>

WriteByte(p) ==
  /\ pc[p] = "wloop" /\ i[p] < len[p] /\ iw # ih[p]
  /\ rbuf' = [rbuf EXCEPT ![iw] = sent] /\ sent' = sent + 1
  /\ iw' = iw + 1
  /\ i' = [i EXCEPT ![p] = i[p] + 1]
  /\ IF iw + 1 = N THEN Goto(p, "wwrap") ELSE UNCHANGED pc
  /\ UNCHANGED <<ir, use_count, sema, len, ih, want, asked, next, last>>

WriteWrap(p) ==
  /\ pc[p] = "wwrap"
  /\ iw' = 0
  /\ Goto(p, "wloop")
  /\ UNCHANGED <<rbuf, ir, use_count, sema, local, ghost>>

\* Mutant: readers are woken only by a write that stored all it was given.
WriteUpFullOnly(p) ==
  /\ pc[p] = "wloop" /\ (i[p] = len[p] \/ iw = ih[p])
  /\ sema' = 1
  /\ IF i[p] = len[p] THEN Goto(p, "wwake") /\ UNCHANGED local
                      ELSE Goto(p, "user") /\ Forget(p)
  /\ UNCHANGED <<ring, use_count, ghost>>

WriteUp(p) ==
  /\ pc[p] = "wloop" /\ (i[p] = len[p] \/ iw = ih[p])
  /\ sema' = 1
  /\ IF i[p] > 0 THEN Goto(p, "wwake") /\ UNCHANGED local
                 ELSE Goto(p, "user") /\ Forget(p)
  /\ UNCHANGED <<ring, use_count, ghost>>

\* wake_up_interruptible(&qin)
WriteWake(p) ==
  /\ pc[p] = "wwake"
  /\ pc' = Woken(Returned(p), "rsleep", "rwait")
  /\ Forget(p)
  /\ UNCHANGED <<ring, use_count, sema, ghost>>

Write(p) == \/ WriteWait(p) \/ WriteDown(p) \/ WriteByte(p) \/ WriteWrap(p)
            \/ WriteUp(p) \/ WriteWake(p)

-----------------------------------------------------------------------------
(* device_poll, and the wait of the poll system call around it             *)

PollCall(p) ==
  /\ pc[p] = "user"
  /\ \E events \in SUBSET Events \ {{}}: want' = [want EXCEPT ![p] = events]
  /\ Goto(p, "pin")
  /\ UNCHANGED <<ring, use_count, sema, len, i, ih, ghost>>

\* An event the caller wants ends the call; what the other test finds is then
\* of no consequence here.  The lock held around the tests is not the semaphore
\* read and write take.
PollLeaves(p) == Goto(p, "user") /\ want' = [want EXCEPT ![p] = {}]

PollTestIn(p) ==
  /\ pc[p] = "pin"
  /\ IF "POLLIN" \in want[p] /\ ~is_buffer_empty
     THEN PollLeaves(p)
     ELSE Goto(p, "pout") /\ UNCHANGED want
  /\ UNCHANGED <<ring, use_count, sema, len, i, ih, ghost>>

PollTestOut(p) ==
  /\ pc[p] = "pout"
  /\ IF "POLLOUT" \in want[p] /\ ~is_buffer_full
     THEN PollLeaves(p)
     ELSE Goto(p, "psleep") /\ UNCHANGED want
  /\ UNCHANGED <<ring, use_count, sema, len, i, ih, ghost>>

\* Woken meanwhile, the poll system call asks the driver again.
PollTestAgain(p) ==
  /\ pc[p] = "pmiss"
  /\ IF "POLLOUT" \in want[p] /\ ~is_buffer_full
     THEN PollLeaves(p)
     ELSE Goto(p, "pin") /\ UNCHANGED want
  /\ UNCHANGED <<ring, use_count, sema, len, i, ih, ghost>>

Poll(p) == PollTestIn(p) \/ PollTestOut(p) \/ PollTestAgain(p)

\* The timeout passes or a signal arrives.
PollGivesUp(p) ==
  /\ pc[p] = "psleep"
  /\ want' = [want EXCEPT ![p] = {}]
  /\ Goto(p, "user")
  /\ UNCHANGED <<ring, use_count, sema, len, i, ih, ghost>>

-----------------------------------------------------------------------------

Calls(p) == Open(p) \/ Release(p) \/ ReadCall(p) \/ WriteCall(p) \/ PollCall(p)

Interrupts(p) == \/ ReadInterrupted(p) \/ ReadDownInterrupted(p)
                 \/ WriteInterrupted(p) \/ WriteDownInterrupted(p)
                 \/ PollGivesUp(p)

Runs(p) == Read(p) \/ Write(p) \/ Poll(p)

Next == \E p \in Proc: Calls(p) \/ Interrupts(p) \/ Runs(p)

Spec == Init /\ [][Next]_vars

\* A process inside a call is scheduled until it sleeps or returns, and the
\* semaphore, whose waiters queue up, is not taken past one for ever; nobody
\* has to call, and no signal has to come.
Fairness == \A p \in Proc: /\ WF_vars(Runs(p))
                           /\ SF_vars(ReadDown(p)) /\ SF_vars(WriteDown(p))

FairSpec == Spec /\ Fairness

-----------------------------------------------------------------------------
(* Properties                                                              *)

\* Every variable has its type; an index is N only between the step that
\* reaches it and the one that wraps it.
TypeOK ==
  /\ rbuf \in [Slots -> Nat]
  /\ ir \in 0..N /\ iw \in 0..N
  /\ use_count \in Int /\ sema \in {0, 1}
  /\ pc \in [Proc -> {"closed", "user"} \cup InRead \cup InWrite \cup InPoll]
  /\ len \in [Proc -> 0..MaxLen] /\ i \in [Proc -> 0..MaxLen]
  /\ ih \in [Proc -> 0..N-1] /\ want \in [Proc -> SUBSET Events]
  /\ asked \in 0..MaxBytes
  /\ sent \in Nat /\ next \in Nat /\ last \in Nat

\* Who has the device open.
Opened == {p \in Proc: pc[p] # "closed"}

Count == sent - next     \* bytes in the ring

\* The semaphore is held by at most one process, and taken exactly when one
\* holds it, whatever signals arrive (poll.c:113, 127, 172, 190).
SemaphoreExcludes ==
  /\ \A p, q \in Proc: pc[p] \in Holding /\ pc[q] \in Holding => p = q
  /\ sema = 1 <=> \A p \in Proc: pc[p] \notin Holding

\* Asleep, or past the test that would have kept it from going to sleep.
AsleepFor(p, label, event) ==
  \/ pc[p] = label
  \/ /\ event \in want[p]
     /\ pc[p] = "psleep" \/ (pc[p] = "pout" /\ event = "POLLIN")

\* A process that has copied something and has yet to wake the other side.
Waker(q, loop, wrap, wake) ==
  pc[q] = wake \/ (pc[q] \in {loop, wrap} /\ i[q] > 0)

\* Nobody oversleeps: when there is data, a sleeping reader or a poll for
\* input has a writer on its way to wake it; when there is room, a sleeping
\* writer or a poll for output has a reader on its way (poll.c:111, 130, 170,
\* 193).  The tests run without the semaphore the loops hold.
NoLostWakeup ==
  /\ Count > 0 /\ (\E p \in Proc: AsleepFor(p, "rsleep", "POLLIN"))
       => \E q \in Proc: Waker(q, "wloop", "wwrap", "wwake")
  /\ Count < N - 1 /\ (\E p \in Proc: AsleepFor(p, "wsleep", "POLLOUT"))
       => \E q \in Proc: Waker(q, "rloop", "rwrap", "rwake")

\* use_count is the number of open files, so the ring is only emptied by an
\* open when nobody can be inside read or write (poll.c:201-207, 217-219).
UseCountExact == use_count = Cardinality(Opened)

\* The device is a bounded FIFO of bytes that only an open with no other file open
\* empties, whatever use_count says (poll.c:201-207).
Queue == INSTANCE ByteQueue WITH Capacity <- N - 1, User <- Proc, holders <- Opened

RefinesByteQueue == Queue!Spec

\* A reader does not stay asleep over data that stays.
ReaderServed ==
  \A p \in Proc: pc[p] = "rsleep" /\ Count > 0 ~> pc[p] # "rsleep" \/ Count = 0

\* A call past its wait returns: the semaphore is always given back, on the
\* paths that copied nothing too.
CallFinishes ==
  \A p \in Proc: pc[p] \in {"rdown", "wdown"} \cup Holding ~> pc[p] = "user"

-----------------------------------------------------------------------------
(* The inductive invariant behind the safety properties.                   *)

Wrap(x) == IF x >= N THEN x - N ELSE x

\* The ring holds the bytes from next to sent, from ir on; an index stands at
\* N exactly while its holder is about to wrap it, and a writer's stop position
\* is the slot before ir, which no reader can move meanwhile.
DataInv ==
  /\ 0 <= Count /\ Count <= N - 1
  /\ Wrap(iw) = Wrap(Wrap(ir) + Count)
  /\ \A k \in 0 .. Count - 1: rbuf[Wrap(Wrap(ir) + k)] = next + k
  /\ ir = N <=> \E p \in Proc: pc[p] = "rwrap"
  /\ iw = N <=> \E p \in Proc: pc[p] = "wwrap"
  /\ \A p \in Proc: pc[p] \in {"wloop", "wwrap"} => ih[p] = Wrap(ir + N - 1)
  /\ \A p \in Proc:
       /\ i[p] <= len[p]
       /\ pc[p] \notin Holding \cup {"rwake", "wwake"} => i[p] = 0

IInv ==
  TypeOK /\ SemaphoreExcludes /\ UseCountExact /\ DataInv /\ NoLostWakeup

\* "put a process to sleep if no room to write" (poll.c:140): a writer goes past
\* its wait, when no signal ends it, only if there is room, with one exception.
\* is_buffer_full is wrong once iw has wrapped below ir: N - ir + iw is N - 1
\* when the ring is full, and N only when ir = iw (poll.c:48-53).
WriterSleepsWhenFull ==
  [][\A p \in Proc: pc[p] = "wwait" /\ pc'[p] = "wdown"
       => Count < N - 1 \/ iw < ir]_vars

-----------------------------------------------------------------------------
(* What follows from it.                                                   *)

\* In a copy loop, or at the wake-up behind it.
Busy(p) == pc[p] \in Holding \cup {"rwake", "wwake"}

\* A bound on the steps to the end of that call: two for each byte, its copy and
\* a wrap, the up and the wake-up.
StepsLeft(p) ==
  IF pc[p] \in {"rwrap", "wwrap"} THEN 2 * (len[p] - i[p]) + 3
  ELSE IF pc[p] \in {"rloop", "wloop"} THEN 2 * (len[p] - i[p]) + 2
  ELSE IF Busy(p) THEN 1 ELSE 0

\* The guards of the steps of a busy process.
CanGoOn(p) ==
  \/ pc[p] \in {"rwrap", "rwake", "wwrap", "wwake"}
  \/ pc[p] = "rloop" /\ i[p] < len[p] /\ ir # iw
  \/ pc[p] = "rloop" /\ (i[p] = len[p] \/ ir = iw)
  \/ pc[p] = "wloop" /\ i[p] < len[p] /\ iw # ih[p]
  \/ pc[p] = "wloop" /\ (i[p] = len[p] \/ iw = ih[p])

\* Whoever waits for the semaphore finds it free or in the hands of a process that
\* can go on, and nobody who is to wake others has to wait (poll.c:113-130,
\* 172-193).
NeverStuck ==
  /\ \A p \in Proc: pc[p] \in {"rdown", "wdown"} =>
       sema = 1 \/ \E q \in Proc: pc[q] \in Holding /\ CanGoOn(q)
  /\ \A p \in Proc: Busy(p) => CanGoOn(p) /\ StepsLeft(p) > 0

\* A busy process is done after StepsLeft steps of its own: each leaves fewer, and
\* nobody else adds any.  CallFinishes without the fairness.
Finishes ==
  [][\A p \in Proc: Busy(p) =>
       \/ Runs(p) /\ StepsLeft(p)' < StepsLeft(p)
       \/ StepsLeft(p)' = StepsLeft(p) /\ pc'[p] = pc[p]]_vars

\* Those who wait for data and those who wait for room do not wait for each other:
\* when both sleep, one poll for either event included, somebody is on the way to
\* wake one of them (poll.c:111, 170).
NotAllAsleep ==
  (\E p \in Proc: AsleepFor(p, "rsleep", "POLLIN"))
  /\ (\E p \in Proc: AsleepFor(p, "wsleep", "POLLOUT"))
     => \E q \in Proc: Busy(q)

\* The bytes of one read are consecutive ones of the queue, and so are those of one
\* write, however their copying is cut by a wrap (poll.c:113-127, 172-190).
CallsStayWhole ==
  [][\A p \in Proc:
       /\ {pc[p], pc'[p]} \subseteq {"rloop", "rwrap"} => next' - next = i'[p] - i[p]
       /\ {pc[p], pc'[p]} \subseteq {"wloop", "wwrap"} => sent' - sent = i'[p] - i[p]]_vars

=============================================================================
