---------------------------- MODULE BlockDevice26 ----------------------------
(***************************************************************************)
(* The virtual block device for kernels 2.6 (virtual_block_dev/v2.6):      *)
(* do_memblock_request, which the block layer calls with the lock of the   *)
(* queue held whenever there may be something in it, and which goes on     *)
(* until it finds the queue empty.  Lengths are in sectors.                *)
(***************************************************************************)
EXTENDS Integers

CONSTANTS
  Sectors,    \* sectors of the device
  Value,      \* what a sector can hold
  Req,        \* requests the block layer has
  None        \* no request, and none of Req

VARIABLES
  block_buf,   \* the memory that is the disk
  unplugged,   \* the function is to be called
  memblock_lock,   \* it runs
  head,        \* request it has been given, or none
  fetched,     \* its current chunk has been copied
  st,          \* of each request, "free", "queued" or "done"
  op,          \* rq_data_dir
  first, last, \* the sectors of the request
  sector,      \* where the current chunk begins
  current_nr_sectors,   \* how long it is
  buf          \* the pages of the request, addressed by sector

request == <<op, first, last>>
vars == <<block_buf, unplugged, memblock_lock, head, fetched, st, request, sector,
          current_nr_sectors, buf>>

Sector == 0 .. Sectors - 1
Buffer == [Sector -> Value]
Zero == CHOOSE v \in Value: TRUE     \* kzalloc
Blank == [s \in Sector |-> Zero]

Init ==
  /\ block_buf = Blank
  /\ unplugged = FALSE /\ memblock_lock = FALSE /\ head = None /\ fetched = FALSE
  /\ st = [r \in Req |-> "free"] /\ op = [r \in Req |-> "read"]
  /\ first = [r \in Req |-> 0] /\ last = [r \in Req |-> 0]
  /\ sector = [r \in Req |-> 0] /\ current_nr_sectors = [r \in Req |-> 0]
  /\ buf = [r \in Req |-> Blank]

\* The pieces a request is made of lie in memory of their own; the first of
\* them is the current one.  The queue is changed under its lock, and has to be
\* run when it was.
Submit(r) ==
  /\ st[r] = "free" /\ ~memblock_lock
  /\ \E f \in Sector, l \in Sector:
       /\ f <= l
       /\ first' = [first EXCEPT ![r] = f] /\ last' = [last EXCEPT ![r] = l]
       /\ sector' = [sector EXCEPT ![r] = f]
       /\ \E n \in 1 .. l - f + 1: current_nr_sectors' = [current_nr_sectors EXCEPT ![r] = n]
       /\ \/ op' = op /\ buf' = buf
          \/ /\ op' = [op EXCEPT ![r] = "write"]
             /\ \E b \in [f .. l -> Value]:
                  buf' = [buf EXCEPT ![r] = [s \in Sector |->
                            IF s \in DOMAIN b THEN b[s] ELSE Zero]]
  /\ st' = [st EXCEPT ![r] = "queued"] /\ unplugged' = TRUE
  /\ UNCHANGED <<block_buf, memblock_lock, head, fetched>>

\* The block layer takes the lock and calls the function.
Call ==
  /\ ~memblock_lock /\ unplugged
  /\ memblock_lock' = TRUE /\ unplugged' = FALSE
  /\ UNCHANGED <<block_buf, head, fetched, st, request, sector, current_nr_sectors, buf>>

\* elv_next_request, in the order of the elevator.
NextRequest ==
  /\ memblock_lock /\ head = None
  /\ \E r \in Req: st[r] = "queued" /\ head' = r
  /\ UNCHANGED <<block_buf, unplugged, memblock_lock, fetched, st, request, sector,
                 current_nr_sectors, buf>>

\* offset and len
Chunk(r) == sector[r] .. sector[r] + current_nr_sectors[r] - 1

\* Mutant: the chunk is copied to where the request begins.
CopyToFirst ==
  /\ head # None /\ ~fetched
  /\ LET C == Chunk(head) IN
     \/ /\ op[head] = "write"
        /\ block_buf' = [s \in Sector |->
             IF s + sector[head] - first[head] \in C
             THEN buf[head][s + sector[head] - first[head]] ELSE block_buf[s]]
        /\ UNCHANGED buf
     \/ /\ op[head] = "read"
        /\ buf' = [buf EXCEPT ![head] =
             [s \in Sector |-> IF s \in C THEN block_buf[s] ELSE @[s]]]
        /\ UNCHANGED block_buf
  /\ fetched' = TRUE
  /\ UNCHANGED <<unplugged, memblock_lock, head, st, request, sector, current_nr_sectors>>

\* memcpy; nothing else looks at the memory while the lock is held.
Copy ==
  /\ head # None /\ ~fetched
  /\ LET C == Chunk(head) IN
     \/ /\ op[head] = "write"
        /\ block_buf' = [s \in Sector |-> IF s \in C THEN buf[head][s] ELSE block_buf[s]]
        /\ UNCHANGED buf
     \/ /\ op[head] = "read"
        /\ buf' = [buf EXCEPT ![head] =
             [s \in Sector |-> IF s \in C THEN block_buf[s] ELSE @[s]]]
        /\ UNCHANGED block_buf
  /\ fetched' = TRUE
  /\ UNCHANGED <<unplugged, memblock_lock, head, st, request, sector, current_nr_sectors>>

\* end_request ends the current chunk.  A request that has another stays at the
\* head of the queue: elv_next_request returns it again.
EndChunk ==
  /\ head # None /\ fetched
  /\ LET next == sector[head] + current_nr_sectors[head] IN
     /\ next <= last[head]
     /\ sector' = [sector EXCEPT ![head] = next]
     /\ \E n \in 1 .. last[head] - next + 1:
          current_nr_sectors' = [current_nr_sectors EXCEPT ![head] = n]
  /\ fetched' = FALSE
  /\ UNCHANGED <<block_buf, unplugged, memblock_lock, head, st, request, buf>>

\* Mutant: the request is ended with its first chunk.
EndRequestEarly ==
  /\ head # None /\ fetched
  /\ st' = [st EXCEPT ![head] = "done"]
  /\ fetched' = FALSE /\ head' = None
  /\ UNCHANGED <<block_buf, unplugged, memblock_lock, request, sector, current_nr_sectors, buf>>

\* The last chunk: the request leaves the queue.
EndRequest ==
  /\ head # None /\ fetched
  /\ sector[head] + current_nr_sectors[head] > last[head]
  /\ st' = [st EXCEPT ![head] = "done"]
  /\ fetched' = FALSE /\ head' = None
  /\ UNCHANGED <<block_buf, unplugged, memblock_lock, request, sector, current_nr_sectors, buf>>

\* Mutant: one request for each call, an if in the place of the while.
ReturnAtOnce ==
  /\ memblock_lock /\ head = None
  /\ memblock_lock' = FALSE
  /\ UNCHANGED <<block_buf, unplugged, head, fetched, st, request, sector, current_nr_sectors, buf>>

\* The queue is empty.
Return ==
  /\ memblock_lock /\ head = None /\ \A r \in Req: st[r] # "queued"
  /\ memblock_lock' = FALSE
  /\ UNCHANGED <<block_buf, unplugged, head, fetched, st, request, sector, current_nr_sectors, buf>>

\* The block layer has looked at the request that was ended, and frees it.
Collect(r) ==
  /\ st[r] = "done"
  /\ st' = [st EXCEPT ![r] = "free"]
  /\ op' = [op EXCEPT ![r] = "read"]
  /\ first' = [first EXCEPT ![r] = 0] /\ last' = [last EXCEPT ![r] = 0]
  /\ sector' = [sector EXCEPT ![r] = 0]
  /\ current_nr_sectors' = [current_nr_sectors EXCEPT ![r] = 0]
  /\ buf' = [buf EXCEPT ![r] = Blank]
  /\ UNCHANGED <<block_buf, unplugged, memblock_lock, head, fetched>>

Serve == Call \/ NextRequest \/ Copy \/ EndChunk \/ EndRequest \/ Return

Next == Serve \/ \E r \in Req: Submit(r) \/ Collect(r)

Spec == Init /\ [][Next]_vars

-----------------------------------------------------------------------------
(* Properties                                                              *)

\* The sectors of a request already copied.
Moved(r) ==
  CASE st[r] = "queued" -> first[r] .. sector[r] - 1 +
                             (IF head = r /\ fetched THEN current_nr_sectors[r] ELSE 0)
    [] st[r] = "done"   -> first[r] .. last[r]
    [] OTHER            -> {}

\* A request is served as a whole, in however many chunks: until it is ended,
\* what it has read is what is there, and what it has written still is
\* (main.c:54-70): no read finds half of a write.
Undivided ==
  \A r \in Req: st[r] = "queued" => \A s \in Moved(r): buf[r][s] = block_buf[s]

\* How a request looks to the block layer.
stBar    == [r \in Req |-> IF st[r] = "queued" THEN "pending" ELSE st[r]]
wantBar  == [r \in Req |-> IF st[r] = "free" THEN {} ELSE first[r] .. last[r]]
movedBar == [r \in Req |-> Moved(r)]

Promise == INSTANCE Disk WITH
  disk <- block_buf, st <- stBar, want <- wantBar, moved <- movedBar

\* Each request moves each of its sectors once, and no other, and is completed
\* after that (main.c:54-71).
RefinesDisk == Promise!Spec

\* Every request is ended, although the function is not called again for what
\* it has left in the queue (main.c:54).
Served == \A r \in Req: st[r] = "queued" ~> st[r] = "done"

-----------------------------------------------------------------------------
(* The inductive invariant behind these properties.                        *)

\* Every variable has its type; no chunk reaches past the device.
TypeOK ==
  /\ block_buf \in Buffer /\ buf \in [Req -> Buffer]
  /\ unplugged \in BOOLEAN /\ memblock_lock \in BOOLEAN /\ fetched \in BOOLEAN
  /\ head \in Req \cup {None}
  /\ st \in [Req -> {"free", "queued", "done"}]
  /\ op \in [Req -> {"read", "write"}]
  /\ first \in [Req -> Sector] /\ last \in [Req -> Sector]
  /\ sector \in [Req -> Sector] /\ current_nr_sectors \in [Req -> 0 .. Sectors]

\* The request at the head is in the queue, and its current chunk a piece of
\* it; of the others in the queue nothing has been copied.
Place(r) ==
  /\ st[r] = "free" => op[r] = "read"
  /\ st[r] = "queued" =>
       /\ first[r] <= sector[r] /\ current_nr_sectors[r] > 0
       /\ sector[r] + current_nr_sectors[r] - 1 <= last[r]
       /\ head # r => sector[r] = first[r]

HeadInv ==
  /\ head # None => st[head] = "queued"
  /\ fetched => head # None

QueueInv == TypeOK /\ HeadInv /\ (\A r \in Req: Place(r)) /\ Undivided

-----------------------------------------------------------------------------
(* What keeps the queue going.                                             *)

\* A request in the queue has the function running, or about to be called: it is
\* left by nobody although it is called once for several (main.c:54-71).
NothingForgotten ==
  /\ (\E r \in Req: st[r] = "queued") => memblock_lock \/ unplugged
  /\ head # None => memblock_lock

\* The guards of the steps of Serve.
CanServe ==
  \/ ~memblock_lock /\ unplugged
  \/ memblock_lock /\ head = None    \* the next request, or the end
  \/ head # None /\ ~fetched
  \/ head # None /\ fetched /\ sector[head] + current_nr_sectors[head] <= last[head]
  \/ head # None /\ fetched /\ sector[head] + current_nr_sectors[head] > last[head]

\* The steps the function still makes for the request at the head, at most.
StepsLeft ==
  IF head = None THEN 0
  ELSE 2 * (last[head] - sector[head]) + 2 - (IF fetched THEN 1 ELSE 0)

\* The function goes on while there is a request, and each step for the one at the
\* head leaves fewer until it is ended (main.c:54-71).  Served without the fairness.
NeverStuck ==
  /\ (\E r \in Req: st[r] = "queued") => CanServe
  /\ StepsLeft \in Nat /\ (head # None => StepsLeft > 0)

Shortens ==
  [][head # None /\ Serve => StepsLeft' < StepsLeft]_vars

=============================================================================
