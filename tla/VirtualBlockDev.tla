--------------------------- MODULE VirtualBlockDev ---------------------------
(***************************************************************************)
(* The tutorial of virtual_block_dev, built for one kernel or the other:   *)
(* BlockDevice5, where requests are served side by side and without a      *)
(* lock, or BlockDevice26, where they are served one by one under the lock *)
(* of the queue.  Both are to keep the same promise, that of Disk.         *)
(***************************************************************************)
EXTENDS BlockDevice5

CONSTANTS None    \* no request, and none of Req

ASSUME NoneAssumption == None \notin Req

VARIABLES
  kernel,    \* "5" or "2.6": what the driver was built for
  block_buf, unplugged, memblock_lock, head, fetched,    \* BlockDevice26's
  st26, op26, first26, last26, sector, current_nr_sectors, buf26

vars26 == <<block_buf, unplugged, memblock_lock, head, fetched, st26, op26, first26,
            last26, sector, current_nr_sectors, buf26>>

V26 == INSTANCE BlockDevice26 WITH
  Sectors <- capacity, st <- st26, op <- op26, first <- first26, last <- last26,
  buf <- buf26

EitherInit == kernel \in {"5", "2.6"} /\ Init /\ V26!Init

EitherNext ==
  \/ kernel = "5" /\ Next /\ UNCHANGED <<kernel, vars26>>
  \/ kernel = "2.6" /\ V26!Next /\ UNCHANGED <<kernel, vars>>

\* The block layer runs its queue, and the driver's function comes to its end.
\* The driver that is not there has no request to serve.
EitherSpec ==
  /\ EitherInit /\ [][EitherNext]_<<kernel, vars, vars26>>
  /\ \A r \in Req: WF_vars(Serve(r))
  /\ WF_vars26(V26!Serve)

-----------------------------------------------------------------------------

\* With kernels 2.6 a request is served as a whole, in however many chunks, so
\* that no read finds half of a write (v2.6/main.c:54-70).
Undivided == V26!Undivided

\* Each request moves each of its sectors once, and no other, and is completed
\* after that, chunk by chunk (v2.6/main.c:54-71).
RefinesDisk26 == V26!RefinesDisk

\* Every request the block layer makes is ended, with kernels 2.6 although the
\* function is not called again for what it has left in the queue
\* (v2.6/main.c:54, v5/main.c:119-130).
EitherServed == Served /\ V26!Served

=============================================================================
