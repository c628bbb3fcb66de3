----------------------------- MODULE MmapDevice -----------------------------
(***************************************************************************)
(* The mmap device (Assignment3/mmap.c): two areas of kernel memory, one   *)
(* from kmalloc and one from vmalloc, that processes map through files of  *)
(* even and of odd minor number.  Ladders has the rest of init and exit:   *)
(* here the device is there from the start, the areas come after it and    *)
(* may be refused.                                                         *)
(*                                                                         *)
(* A physical page is [of, at]: page at of an area, or "astray", a page    *)
(* that is no part of either.  Bytes are counted where the code computes   *)
(* with them: kmalloc_ptr is the offset into a page.                       *)
(***************************************************************************)
EXTENDS Integers

CONSTANTS
  Files,       \* open files of the device
  PAGE_SIZE,   \* bytes of a page
  LEN,         \* bytes of an area
  MaxPages     \* bound: pages of a mapping

ASSUME SizeAssumption ==
  PAGE_SIZE \in Nat \ {0} /\ LEN \in Nat \ {0} /\ LEN % PAGE_SIZE = 0
ASSUME BoundAssumption == MaxPages \in Nat

VARIABLES
  phase,          \* "loading", "loaded", "unloading" or "unloaded"
  kmalloc_ptr,    \* where the memory kmalloc returned begins, or NULL
  kmalloc_area,   \* where the first whole page of it does, or NULL
  vmalloc_ptr,    \* NULL or the area of vmalloc
  reserved,       \* pages with PG_reserved set
  private_data,   \* of each file, the minor number it was opened with, or NULL
  opened,         \* files whose open has returned
  last_minor,     \* minor number of the last open, for /proc/mmap only
  mapped,         \* pages each file has mapped
  tried,          \* ghost: of each file, the longest mapping, in pages
  early           \* ghost: files mapped when their area was not there

memory  == <<phase, kmalloc_ptr, kmalloc_area, vmalloc_ptr, reserved>>
files   == <<private_data, opened, mapped, tried, early>>
vars    == <<memory, files, last_minor>>

NULL   == -1
Minors == 0..2                     \* mmaper, vmalloc_dev and kmalloc_dev
Areas  == {"kmalloc", "vmalloc"}
AreaOf(minor) == IF minor % 2 = 0 THEN "kmalloc" ELSE "vmalloc"

AreaPages   == LEN \div PAGE_SIZE
Page(a, i)  == [of |-> a, at |-> i]
PagesOf(a)  == {Page(a, i): i \in 0 .. AreaPages - 1}
Present     == {a \in Areas: (IF a = "kmalloc" THEN kmalloc_area ELSE vmalloc_ptr) # NULL}

Init ==
  /\ phase = "loading"
  /\ kmalloc_ptr = NULL /\ kmalloc_area = NULL /\ vmalloc_ptr = NULL
  /\ reserved = {}
  /\ private_data = [f \in Files |-> NULL] /\ opened = {}
  /\ mapped = [f \in Files |-> {}]
  /\ tried = [f \in Files |-> 0] /\ early = {}
  /\ last_minor = 0

-----------------------------------------------------------------------------
(* The end of mmaper_init, and mmaper_cleanup from kmalloc's cleanup on.    *)

KmallocSize == LEN + 2 * PAGE_SIZE

\* The next multiple of PAGE_SIZE: (ptr + PAGE_SIZE - 1) & PAGE_MASK.
Aligned(ptr) == ((ptr + PAGE_SIZE - 1) \div PAGE_SIZE) * PAGE_SIZE

\* mmap_kmalloc_init, whose result mmaper_init ignores.  The loop over virt_addr
\* reserves the pages of [kmalloc_area, kmalloc_area + LEN).
KmallocInit ==
  /\ phase = "loading" /\ kmalloc_ptr = NULL
  /\ \E ptr \in 0 .. PAGE_SIZE - 1:
       /\ kmalloc_ptr' = ptr
       /\ kmalloc_area' = Aligned(ptr)
  /\ reserved' = reserved \cup PagesOf("kmalloc")
  /\ UNCHANGED <<phase, vmalloc_ptr, files, last_minor>>

\* mmap_vmem_init: the same, of memory that is aligned.  It comes second, also
\* when kmalloc was refused.
VmemInit ==
  /\ phase = "loading" /\ vmalloc_ptr = NULL
  /\ vmalloc_ptr' = 0
  /\ reserved' = reserved \cup PagesOf("vmalloc")
  /\ phase' = "loaded"
  /\ UNCHANGED <<kmalloc_ptr, kmalloc_area, files, last_minor>>

\* mmap_vmem_init refused, and ignored.
VmemRefused ==
  /\ phase = "loading"
  /\ phase' = "loaded"
  /\ UNCHANGED <<kmalloc_ptr, kmalloc_area, vmalloc_ptr, reserved, files,
                 last_minor>>

\* .owner of the file operations; a mapping keeps its file open.
Pins(f) == private_data[f] # NULL

\* Without its areas the module does not survive its exit: Ladders.
Unload ==
  /\ phase = "loaded" /\ \A f \in Files: ~Pins(f)
  /\ Present = Areas
  /\ phase' = "unloading"
  /\ UNCHANGED <<kmalloc_ptr, kmalloc_area, vmalloc_ptr, reserved, files,
                 last_minor>>

KmallocCleanup ==
  /\ phase = "unloading" /\ kmalloc_ptr # NULL
  /\ reserved' = reserved \ PagesOf("kmalloc")
  /\ kmalloc_ptr' = NULL /\ kmalloc_area' = NULL
  /\ UNCHANGED <<phase, vmalloc_ptr, files, last_minor>>

VmemCleanup ==
  /\ phase = "unloading" /\ kmalloc_ptr = NULL
  /\ reserved' = reserved \ PagesOf("vmalloc")
  /\ vmalloc_ptr' = NULL
  /\ phase' = "unloaded"
  /\ UNCHANGED <<kmalloc_ptr, kmalloc_area, files, last_minor>>

-----------------------------------------------------------------------------
(* The file operations, of any number of processes at once                 *)

Live == phase \in {"loading", "loaded"}

\* mmaper_open stores the minor number in the file ...
OpenPrivate(f, m) ==
  /\ Live /\ private_data[f] = NULL
  /\ private_data' = [private_data EXCEPT ![f] = m]
  /\ UNCHANGED <<memory, opened, mapped, tried, early, last_minor>>

\* ... and in last_minor, which all files share.
OpenLast(f) ==
  /\ private_data[f] # NULL /\ f \notin opened
  /\ opened' = opened \cup {f}
  /\ last_minor' = private_data[f]
  /\ UNCHANGED <<memory, private_data, mapped, tried, early>>

\* What n pages from the beginning of an area are: the pages after those of the
\* area, and the pages found through a null pointer, are anybody's.
Remapped(a, n) ==
  {IF a \in Present /\ i < AreaPages THEN Page(a, i) ELSE Page("astray", i):
     i \in 0 .. n - 1}

\* length > LEN * PAGE_SIZE is refused.
LengthOK(n) == n * PAGE_SIZE <= LEN * PAGE_SIZE

\* Mutant: the area follows the last open in the place of the file.
MmapLast(f, n) ==
  /\ f \in opened /\ LengthOK(n)
  /\ mapped' = [mapped EXCEPT ![f] = @ \cup Remapped(AreaOf(last_minor), n)]
  /\ tried' = [tried EXCEPT ![f] = IF n > @ THEN n ELSE @]
  /\ early' = IF AreaOf(private_data[f]) \in Present THEN early ELSE early \cup {f}
  /\ UNCHANGED <<memory, private_data, opened, last_minor>>

\* mmappr_mmap with mmap_kmalloc and mmap_vmem.  A call that is refused, for its
\* length or half-way through the pages, leaves no mapping: the kernel undoes it.
Mmap(f, n) ==
  /\ f \in opened /\ LengthOK(n)
  /\ mapped' = [mapped EXCEPT ![f] = @ \cup Remapped(AreaOf(private_data[f]), n)]
  /\ tried' = [tried EXCEPT ![f] = IF n > @ THEN n ELSE @]
  /\ early' = IF AreaOf(private_data[f]) \in Present THEN early ELSE early \cup {f}
  /\ UNCHANGED <<memory, private_data, opened, last_minor>>

Unmap(f) ==
  /\ mapped[f] # {}
  /\ mapped' = [mapped EXCEPT ![f] = {}]
  /\ tried' = [tried EXCEPT ![f] = 0] /\ early' = early \ {f}
  /\ UNCHANGED <<memory, private_data, opened, last_minor>>

\* mmaper_release, called when the file is closed and nothing maps it.
Release(f) ==
  /\ f \in opened /\ mapped[f] = {}
  /\ private_data' = [private_data EXCEPT ![f] = NULL]
  /\ opened' = opened \ {f}
  /\ UNCHANGED <<memory, mapped, tried, early, last_minor>>

-----------------------------------------------------------------------------

Next ==
  \/ KmallocInit \/ VmemInit \/ VmemRefused
  \/ Unload \/ KmallocCleanup \/ VmemCleanup
  \/ \E f \in Files:
       \/ \E m \in Minors: OpenPrivate(f, m)
       \/ OpenLast(f) \/ Unmap(f) \/ Release(f)
       \/ \E n \in 1..MaxPages: Mmap(f, n)

Spec == Init /\ [][Next]_vars

-----------------------------------------------------------------------------
(* Properties                                                              *)

Pages == [of: Areas \cup {"astray"}, at: Nat]

\* Every variable has its type.
TypeOK ==
  /\ phase \in {"loading", "loaded", "unloading", "unloaded"}
  /\ kmalloc_ptr \in {NULL} \cup Nat /\ kmalloc_area \in {NULL} \cup Nat
  /\ vmalloc_ptr \in {NULL, 0}
  /\ reserved \subseteq Pages
  /\ private_data \in [Files -> Minors \cup {NULL}]
  /\ opened \subseteq Files /\ early \subseteq Files
  /\ mapped \in [Files -> SUBSET Pages] /\ tried \in [Files -> Nat]
  /\ last_minor \in Minors

\* The pages of the kmalloc area lie in what kmalloc returned, wherever in a
\* page that begins (mmap.c:152, 168, 179).
AreaInBlock ==
  kmalloc_ptr # NULL =>
    kmalloc_ptr <= kmalloc_area /\ kmalloc_area + LEN <= kmalloc_ptr + KmallocSize

\* The pages reserved are those of the areas there are: none is freed while it
\* is reserved, and none is mapped that might be swapped out (mmap.c:179-182,
\* 213-217, 234-250).
ReservedIsArea == reserved = UNION {PagesOf(a): a \in Present}

\* A process that maps no more than there is maps reserved pages of the area of
\* its own device, whatever other files were opened meanwhile, and the area, in
\* the memory that was allocated for it, stays as long as the mapping does
\* (mmap.c:168-182, 263, 283-287, 294, 387-388).
MapsItsArea ==
  /\ AreaInBlock /\ ReservedIsArea
  /\ \A f \in Files:
       mapped[f] # {} /\ f \notin early /\ tried[f] <= AreaPages =>
         /\ mapped[f] \subseteq PagesOf(AreaOf(private_data[f]))
         /\ AreaOf(private_data[f]) \in Present

-----------------------------------------------------------------------------
(* The inductive invariant behind it.                                      *)

\* A file that maps something is open, and one that is open keeps the module.
FilesInv ==
  /\ \A f \in Files: f \in opened => private_data[f] # NULL
  /\ \A f \in Files: mapped[f] # {} => f \in opened
  /\ ~Live => \A f \in Files: private_data[f] = NULL
  /\ kmalloc_ptr = NULL <=> kmalloc_area = NULL

MapInv == TypeOK /\ FilesInv /\ MapsItsArea

=============================================================================
