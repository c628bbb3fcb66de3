--------------------------- MODULE MmapDeviceProofs ---------------------------
(***************************************************************************)
(* Proofs about MmapDevice, for any set of files, any page size, any       *)
(* length of the areas and of the mappings.                                *)
(***************************************************************************)
EXTENDS MmapDevice, TLAPS

(* The arithmetic of pages                                                 *)

\* Rounding up to a page boundary stays within a page.
LEMMA AlignedBounds ==
  ASSUME NEW ptr \in 0 .. PAGE_SIZE - 1
  PROVE  Aligned(ptr) \in Nat /\ ptr <= Aligned(ptr) /\ Aligned(ptr) <= ptr + PAGE_SIZE
<1> DEFINE n == ptr + PAGE_SIZE - 1
           q == n \div PAGE_SIZE
<1>1. PAGE_SIZE \in Nat /\ PAGE_SIZE > 0 /\ n \in Nat
  BY SizeAssumption, SMT
<1>2. CASE ptr = 0
  <2>1. q = 0
    BY <1>1, <1>2, SMT
  <2>2. QED
    BY <1>1, <1>2, <2>1, SMT DEF Aligned
<1>3. CASE ptr > 0
  <2>1. q = 1
    BY <1>1, <1>3, SMT
  <2>2. QED
    BY <1>1, <1>3, <2>1, SMT DEF Aligned
<1>4. QED
  BY <1>1, <1>2, <1>3, SMT

\* An area is a whole number of pages.
LEMMA AreaPagesType == AreaPages \in Nat
BY SizeAssumption, SMT DEF AreaPages

\* The pages of an area are pages, and those of the other area are others.
LEMMA PagesOfType ==
  ASSUME NEW a \in Areas
  PROVE  PagesOf(a) \subseteq Pages
<1>1. ASSUME NEW i \in 0 .. AreaPages - 1 PROVE Page(a, i) \in Pages
  BY AreaPagesType, SMT DEF Page, Pages
<1>2. QED
  BY <1>1, Zenon DEF PagesOf

LEMMA PagesDisjoint == PagesOf("kmalloc") \cap PagesOf("vmalloc") = {}
<1>1. ASSUME NEW i, NEW j PROVE Page("kmalloc", i) # Page("vmalloc", j)
  BY SMT DEF Page
<1>2. QED
  BY <1>1, Zenon DEF PagesOf

\* What a mapping finds are pages, and pages of the area if it is there and the
\* mapping is no longer.
LEMMA RemappedType ==
  ASSUME NEW a \in Areas, NEW n \in Nat
  PROVE  /\ Remapped(a, n) \subseteq Pages
         /\ a \in Present /\ n <= AreaPages => Remapped(a, n) \subseteq PagesOf(a)
<1>1. ASSUME NEW i \in 0 .. n - 1
      PROVE  Page(a, i) \in Pages /\ Page("astray", i) \in Pages
  BY SMT DEF Page, Pages
<1>2. ASSUME NEW i \in 0 .. n - 1, n <= AreaPages
      PROVE  i < AreaPages /\ i \in 0 .. AreaPages - 1
  BY <1>2, AreaPagesType, SMT
<1>3. Remapped(a, n) \subseteq Pages
  BY <1>1, Zenon DEF Remapped
<1>4. a \in Present /\ n <= AreaPages => Remapped(a, n) \subseteq PagesOf(a)
  BY <1>2, Zenon DEF Remapped, PagesOf
<1>5. QED
  BY <1>3, <1>4

\* Both areas are areas, and every minor number has one.
LEMMA AreaOfType == ASSUME NEW m PROVE AreaOf(m) \in Areas
BY Zenon DEF AreaOf, Areas

(* The steps                                                               *)

LEMMA InitInv == Init => MapInv
<1> SUFFICES ASSUME Init PROVE MapInv
  OBVIOUS
<1>1. TypeOK
  BY SMT DEF Init, TypeOK, NULL, Minors, Pages
<1>2. Present = {}
  BY Zenon DEF Init, Present
<1>3. FilesInv
  BY Zenon DEF Init, FilesInv, Live
<1>4. AreaInBlock /\ ReservedIsArea
  BY <1>2, Zenon DEF Init, AreaInBlock, ReservedIsArea
<1>5. QED
  BY <1>1, <1>3, <1>4, Zenon DEF Init, MapInv, MapsItsArea

KPages == IF kmalloc_area = NULL THEN {} ELSE PagesOf("kmalloc")
VPages == IF vmalloc_ptr = NULL THEN {} ELSE PagesOf("vmalloc")

\* Which area is there, and what of the two is reserved.
LEMMA ReservedParts ==
  /\ "kmalloc" \in Present <=> kmalloc_area # NULL
  /\ "vmalloc" \in Present <=> vmalloc_ptr # NULL
  /\ ReservedIsArea <=> reserved = KPages \cup VPages
<1>1. /\ "kmalloc" \in Present <=> kmalloc_area # NULL
      /\ "vmalloc" \in Present <=> vmalloc_ptr # NULL
      /\ Present \subseteq {"kmalloc", "vmalloc"}
  BY SMT DEF Present, Areas
<1>2. ASSUME NEW x
      PROVE  x \in UNION {PagesOf(a): a \in Present} <=> x \in KPages \cup VPages
  BY <1>1, Zenon DEF KPages, VPages
<1>3. UNION {PagesOf(a): a \in Present} = KPages \cup VPages
  BY <1>2, Zenon
<1>4. QED
  BY <1>1, <1>3, Zenon DEF ReservedIsArea

\* Setting an area up, or giving it back, keeps the pages reserved with it, and
\* no mapping loses its area.
LEMMA MemoryKeeps ==
  ASSUME MapInv,
         KmallocInit \/ VmemInit \/ VmemRefused \/ Unload \/ KmallocCleanup \/ VmemCleanup
  PROVE  MapInv'
<1> USE DEF MapInv
<1>1. /\ last_minor' = last_minor /\ private_data' = private_data /\ opened' = opened
      /\ mapped' = mapped /\ tried' = tried /\ early' = early
  BY Zenon DEF KmallocInit, VmemInit, VmemRefused, Unload, KmallocCleanup, VmemCleanup,
               files
<1>2. /\ PagesOf("kmalloc") \subseteq Pages /\ PagesOf("vmalloc") \subseteq Pages
      /\ PagesOf("kmalloc") \cap PagesOf("vmalloc") = {}
  BY PagesOfType, PagesDisjoint, Zenon DEF Areas
<1>3. /\ "kmalloc" \in Present <=> kmalloc_area # NULL
      /\ "vmalloc" \in Present <=> vmalloc_ptr # NULL
      /\ reserved = KPages \cup VPages
      /\ "kmalloc" \in Present' <=> kmalloc_area' # NULL
      /\ "vmalloc" \in Present' <=> vmalloc_ptr' # NULL
      /\ ReservedIsArea' <=> reserved' = KPages' \cup VPages'
  <2>1. (/\ "kmalloc" \in Present <=> kmalloc_area # NULL
         /\ "vmalloc" \in Present <=> vmalloc_ptr # NULL
         /\ ReservedIsArea <=> reserved = KPages \cup VPages)'
    BY ReservedParts, PTL
  <2>2. /\ "kmalloc" \in Present <=> kmalloc_area # NULL
        /\ "vmalloc" \in Present <=> vmalloc_ptr # NULL
        /\ reserved = KPages \cup VPages
    BY ReservedParts, Zenon DEF MapsItsArea
  <2>3. QED
    BY <2>1, <2>2, Zenon
<1>4. /\ reserved \subseteq Pages /\ AreaInBlock
      /\ kmalloc_ptr = NULL <=> kmalloc_area = NULL
      /\ phase \in {"loading", "loaded", "unloading", "unloaded"}
      /\ kmalloc_ptr \in {NULL} \cup Nat /\ kmalloc_area \in {NULL} \cup Nat
      /\ vmalloc_ptr \in {NULL, 0}
  BY Zenon DEF TypeOK, FilesInv, MapsItsArea
<1>5. ~ Live' => \A f \in Files: private_data[f] = NULL
  BY <1>4, Zenon DEF KmallocInit, VmemInit, VmemRefused, Unload, KmallocCleanup,
     VmemCleanup, Live, FilesInv, Pins
\* What each step does to the two areas and what is reserved.
<1>6. /\ AreaInBlock' /\ reserved' \subseteq Pages /\ reserved' = KPages' \cup VPages'
      /\ kmalloc_ptr' = NULL <=> kmalloc_area' = NULL
      /\ phase' \in {"loading", "loaded", "unloading", "unloaded"}
      /\ kmalloc_ptr' \in {NULL} \cup Nat /\ kmalloc_area' \in {NULL} \cup Nat
      /\ vmalloc_ptr' \in {NULL, 0}
      /\ Live' /\ kmalloc_area # NULL => kmalloc_area' # NULL
      /\ Live' /\ vmalloc_ptr # NULL => vmalloc_ptr' # NULL
  <2>1. CASE KmallocInit
    <3>1. PICK ptr \in 0 .. PAGE_SIZE - 1:
            kmalloc_ptr' = ptr /\ kmalloc_area' = Aligned(ptr)
      BY <2>1, Zenon DEF KmallocInit
    <3>2. /\ Aligned(ptr) \in Nat /\ ptr <= Aligned(ptr)
          /\ Aligned(ptr) <= ptr + PAGE_SIZE /\ ptr \in Nat
      BY AlignedBounds, SizeAssumption, SMT
    <3>3. kmalloc_ptr' # NULL /\ kmalloc_area' # NULL /\ kmalloc_area = NULL
      BY <1>4, <2>1, <3>1, <3>2, SMT DEF NULL, KmallocInit
    <3>4. AreaInBlock'
      BY <3>1, <3>2, SizeAssumption, SMT DEF AreaInBlock, KmallocSize
    <3>5. /\ reserved' = reserved \cup PagesOf("kmalloc") /\ vmalloc_ptr' = vmalloc_ptr
          /\ phase' = phase
      BY <2>1, Zenon DEF KmallocInit
    <3>6. reserved' = KPages' \cup VPages'
      BY <1>3, <3>3, <3>5, Zenon DEF KPages, VPages
    <3>7. QED
      BY <1>2, <1>4, <3>1, <3>2, <3>3, <3>4, <3>5, <3>6, Zenon
  <2>2. CASE VmemInit
    <3>1. /\ vmalloc_ptr = NULL /\ vmalloc_ptr' = 0 /\ vmalloc_ptr' # NULL
          /\ kmalloc_ptr' = kmalloc_ptr /\ kmalloc_area' = kmalloc_area
          /\ reserved' = reserved \cup PagesOf("vmalloc") /\ phase' = "loaded"
      BY <2>2, SMT DEF VmemInit, NULL
    <3>2. reserved' = KPages' \cup VPages'
      BY <1>3, <3>1, Zenon DEF KPages, VPages
    <3>3. AreaInBlock'
      BY <1>4, <3>1, Zenon DEF AreaInBlock
    <3>4. QED
      BY <1>2, <1>4, <3>1, <3>2, <3>3, Zenon
  <2>3. CASE VmemRefused \/ Unload
    <3>1. /\ vmalloc_ptr' = vmalloc_ptr /\ reserved' = reserved
          /\ kmalloc_ptr' = kmalloc_ptr /\ kmalloc_area' = kmalloc_area
          /\ phase' \in {"loaded", "unloading"}
      BY <2>3, Zenon DEF VmemRefused, Unload
    <3>2. reserved' = KPages' \cup VPages' /\ AreaInBlock'
      BY <1>3, <1>4, <3>1, Zenon DEF KPages, VPages, AreaInBlock
    <3>3. QED
      BY <1>4, <3>1, <3>2, Zenon
  <2>4. CASE KmallocCleanup
    <3>1. /\ vmalloc_ptr' = vmalloc_ptr /\ reserved' = reserved \ PagesOf("kmalloc")
          /\ kmalloc_ptr' = NULL /\ kmalloc_area' = NULL
          /\ phase' = "unloading" /\ ~ Live'
      BY <2>4, Zenon DEF KmallocCleanup, Live
    <3>2. reserved' = KPages' \cup VPages'
      BY <1>2, <1>3, <3>1, Zenon DEF KPages, VPages
    <3>3. AreaInBlock'
      BY <3>1, Zenon DEF AreaInBlock
    <3>4. QED
      BY <1>4, <3>1, <3>2, <3>3, Zenon
  <2>5. CASE VmemCleanup
    <3>1. /\ vmalloc_ptr' = NULL /\ reserved' = reserved \ PagesOf("vmalloc")
          /\ kmalloc_ptr' = kmalloc_ptr /\ kmalloc_area' = kmalloc_area
          /\ phase' = "unloaded" /\ ~ Live'
      BY <2>5, Zenon DEF VmemCleanup, Live
    <3>2. reserved' = KPages' \cup VPages'
      BY <1>2, <1>3, <3>1, Zenon DEF KPages, VPages
    <3>3. AreaInBlock'
      BY <1>4, <3>1, Zenon DEF AreaInBlock
    <3>4. QED
      BY <1>4, <3>1, <3>2, <3>3, Zenon
  <2>6. QED
    BY <2>1, <2>2, <2>3, <2>4, <2>5
<1>7. TypeOK'
  BY <1>1, <1>6, Zenon DEF TypeOK
<1>8. FilesInv'
  BY <1>1, <1>5, <1>6, Zenon DEF FilesInv
<1>9. ASSUME NEW f \in Files, mapped'[f] # {}, f \notin early', tried'[f] <= AreaPages
      PROVE  /\ mapped'[f] \subseteq PagesOf(AreaOf(private_data'[f]))
             /\ AreaOf(private_data'[f]) \in Present'
  <2>1. Live'
    BY <1>1, <1>5, <1>9, Zenon DEF FilesInv
  <2>2. /\ mapped[f] \subseteq PagesOf(AreaOf(private_data[f]))
        /\ AreaOf(private_data[f]) \in Present
    BY <1>1, <1>9, Zenon DEF MapsItsArea
  <2>3. AreaOf(private_data[f]) \in Present'
    BY <1>3, <1>6, <2>1, <2>2, AreaOfType, Zenon DEF Areas
  <2>4. QED
    BY <1>1, <2>2, <2>3, Zenon
<1>10. QED
  BY <1>3, <1>6, <1>7, <1>8, <1>9, Zenon DEF MapsItsArea

\* The file operations change no area; a new mapping is of the file's own one.
LEMMA FileKeeps ==
  ASSUME MapInv, NEW f \in Files,
         \/ \E m \in Minors: OpenPrivate(f, m)
         \/ OpenLast(f) \/ Unmap(f) \/ Release(f)
         \/ \E n \in 1..MaxPages: Mmap(f, n)
  PROVE  MapInv'
<1> USE DEF MapInv
<1>1. /\ phase' = phase /\ kmalloc_ptr' = kmalloc_ptr /\ kmalloc_area' = kmalloc_area
      /\ vmalloc_ptr' = vmalloc_ptr /\ reserved' = reserved
  BY Zenon DEF OpenPrivate, OpenLast, Unmap, Release, Mmap, memory
<1>2. Present' = Present /\ (Live' <=> Live)
  BY <1>1, Zenon DEF Present, Live
<1>3. AreaInBlock' /\ ReservedIsArea'
  BY <1>1, <1>2, Zenon DEF MapsItsArea, AreaInBlock, ReservedIsArea
<1>4. ASSUME TypeOK', FilesInv',
             \A g \in Files:
               mapped'[g] # {} /\ g \notin early' /\ tried'[g] <= AreaPages =>
                 /\ mapped'[g] \subseteq PagesOf(AreaOf(private_data'[g]))
                 /\ AreaOf(private_data'[g]) \in Present'
      PROVE  MapInv'
  BY <1>3, <1>4, Zenon DEF MapsItsArea
<1>5. /\ private_data \in [Files -> Minors \cup {NULL}]
      /\ opened \subseteq Files /\ early \subseteq Files
      /\ mapped \in [Files -> SUBSET Pages] /\ tried \in [Files -> Nat]
      /\ last_minor \in Minors
  BY Zenon DEF TypeOK
<1>6. ASSUME NEW g \in Files, mapped[g] # {}, g \notin early, tried[g] <= AreaPages
      PROVE  /\ mapped[g] \subseteq PagesOf(AreaOf(private_data[g]))
             /\ AreaOf(private_data[g]) \in Present
  BY <1>6, Zenon DEF MapsItsArea
<1>7. NULL \notin Minors
  BY SMT DEF NULL, Minors
<1>8. ASSUME NEW m \in Minors, OpenPrivate(f, m)
      PROVE  MapInv'
  <2>1. /\ Live /\ private_data[f] = NULL /\ private_data' = [private_data EXCEPT ![f] = m]
        /\ opened' = opened /\ mapped' = mapped /\ tried' = tried /\ early' = early
        /\ last_minor' = last_minor
    BY <1>8, Zenon DEF OpenPrivate
  <2>2. TypeOK'
    BY <1>1, <1>5, <2>1, Zenon DEF TypeOK
  <2>3. FilesInv'
    BY <1>1, <1>2, <1>5, <1>7, <2>1, Zenon DEF FilesInv
  <2>4. f \notin opened /\ mapped[f] = {}
    BY <2>1, Zenon DEF FilesInv
  <2>5. ASSUME NEW g \in Files, mapped'[g] # {} PROVE private_data'[g] = private_data[g]
    BY <1>5, <2>1, <2>4, <2>5, Zenon
  <2>6. ASSUME NEW g \in Files, mapped'[g] # {}, g \notin early', tried'[g] <= AreaPages
        PROVE  /\ mapped'[g] \subseteq PagesOf(AreaOf(private_data'[g]))
               /\ AreaOf(private_data'[g]) \in Present'
    <3>1. /\ mapped[g] \subseteq PagesOf(AreaOf(private_data[g]))
          /\ AreaOf(private_data[g]) \in Present
      BY <1>6, <2>1, <2>6, Zenon
    <3>2. private_data'[g] = private_data[g]
      BY <2>5, <2>6, Zenon
    <3>3. mapped'[g] = mapped[g]
      BY <2>1, Zenon
    <3>4. QED
      BY <1>2, <3>1, <3>2, <3>3, Zenon
  <2>7. QED
    BY <1>4, <2>2, <2>3, <2>6, Zenon
<1>9. CASE OpenLast(f)
  <2>1. /\ private_data[f] # NULL /\ opened' = opened \cup {f}
        /\ last_minor' = private_data[f] /\ private_data' = private_data
        /\ mapped' = mapped /\ tried' = tried /\ early' = early
    BY <1>9, Zenon DEF OpenLast
  <2>2. TypeOK'
    BY <1>1, <1>5, <2>1, Zenon DEF TypeOK
  <2>3. FilesInv'
    BY <1>1, <1>2, <2>1, Zenon DEF FilesInv
  <2>4. QED
    BY <1>2, <1>4, <1>6, <2>1, <2>2, <2>3, Zenon
<1>10. CASE Unmap(f)
  <2>1. /\ mapped' = [mapped EXCEPT ![f] = {}] /\ tried' = [tried EXCEPT ![f] = 0]
        /\ early' = early \ {f} /\ private_data' = private_data /\ opened' = opened
        /\ last_minor' = last_minor
    BY <1>10, Zenon DEF Unmap
  <2>2. 0 \in Nat
    BY SMT
  <2>3. TypeOK'
    BY <1>1, <1>5, <2>1, <2>2, Zenon DEF TypeOK
  <2>4. FilesInv'
    BY <1>1, <1>2, <1>5, <2>1, Zenon DEF FilesInv
  <2>5. ASSUME NEW g \in Files, mapped'[g] # {}, g \notin early'
        PROVE  mapped'[g] = mapped[g] /\ tried'[g] = tried[g] /\ g \notin early
    BY <1>5, <2>1, <2>5, Zenon
  <2>6. QED
    BY <1>2, <1>4, <1>6, <2>1, <2>3, <2>4, <2>5, Zenon
<1>11. CASE Release(f)
  <2>1. /\ f \in opened /\ mapped[f] = {} /\ opened' = opened \ {f}
        /\ private_data' = [private_data EXCEPT ![f] = NULL]
        /\ mapped' = mapped /\ tried' = tried /\ early' = early
        /\ last_minor' = last_minor
    BY <1>11, Zenon DEF Release
  <2>2. TypeOK'
    BY <1>1, <1>5, <2>1, Zenon DEF TypeOK
  <2>3. FilesInv'
    BY <1>1, <1>2, <1>5, <2>1, Zenon DEF FilesInv
  <2>4. ASSUME NEW g \in Files, mapped'[g] # {} PROVE private_data'[g] = private_data[g]
    BY <1>5, <2>1, <2>4, Zenon
  <2>5. ASSUME NEW g \in Files, mapped'[g] # {}, g \notin early', tried'[g] <= AreaPages
        PROVE  /\ mapped'[g] \subseteq PagesOf(AreaOf(private_data'[g]))
               /\ AreaOf(private_data'[g]) \in Present'
    <3>1. /\ mapped[g] \subseteq PagesOf(AreaOf(private_data[g]))
          /\ AreaOf(private_data[g]) \in Present
      BY <1>6, <2>1, <2>5, Zenon
    <3>2. private_data'[g] = private_data[g]
      BY <2>4, <2>5, Zenon
    <3>3. mapped'[g] = mapped[g]
      BY <2>1, Zenon
    <3>4. QED
      BY <1>2, <3>1, <3>2, <3>3, Zenon
  <2>6. QED
    BY <1>4, <2>2, <2>3, <2>5, Zenon
<1>12. ASSUME NEW n \in 1..MaxPages, Mmap(f, n)
       PROVE  MapInv'
  <2> DEFINE a == AreaOf(private_data[f])
  <2>1. /\ f \in opened /\ private_data' = private_data /\ opened' = opened
        /\ mapped' = [mapped EXCEPT ![f] = mapped[f] \cup Remapped(a, n)]
        /\ tried' = [tried EXCEPT ![f] = IF n > tried[f] THEN n ELSE tried[f]]
        /\ early' = IF a \in Present THEN early ELSE early \cup {f}
        /\ last_minor' = last_minor
    BY <1>12, Zenon DEF Mmap
  <2>2. n \in Nat /\ a \in Areas
    BY BoundAssumption, AreaOfType, SMT
  <2>3. /\ Remapped(a, n) \subseteq Pages
        /\ a \in Present /\ n <= AreaPages => Remapped(a, n) \subseteq PagesOf(a)
    BY <2>2, RemappedType
  <2> HIDE DEF a
  <2>4. mapped' \in [Files -> SUBSET Pages] /\ early' \subseteq Files
    BY <1>5, <2>1, <2>3, Zenon
  <2>5. tried' \in [Files -> Nat]
    BY <1>5, <2>1, <2>2, SMT
  <2>6. TypeOK'
    BY <1>1, <1>5, <2>1, <2>4, <2>5, Zenon DEF TypeOK
  <2>7. FilesInv'
    BY <1>1, <1>2, <1>5, <2>1, Zenon DEF FilesInv
  <2>8. ASSUME NEW g \in Files, mapped'[g] # {}, g \notin early', tried'[g] <= AreaPages
        PROVE  /\ mapped'[g] \subseteq PagesOf(AreaOf(private_data'[g]))
               /\ AreaOf(private_data'[g]) \in Present'
    <3>1. CASE g = f
      <4>1. a \in Present /\ f \notin early
        BY <2>1, <2>8, <3>1, Zenon
      <4>2. n <= AreaPages /\ tried[f] <= AreaPages
        BY <1>5, <2>1, <2>2, <2>8, <3>1, AreaPagesType, SMT
      <4>3. mapped[f] \subseteq PagesOf(a)
        BY <1>6, <4>1, <4>2, Zenon DEF a
      <4>4. mapped'[f] = mapped[f] \cup Remapped(a, n)
        BY <1>5, <2>1, Zenon
      <4>5. QED
        BY <1>2, <2>1, <2>3, <3>1, <4>1, <4>2, <4>3, <4>4, Zenon DEF a
    <3>2. CASE g # f
      <4>1. mapped'[g] = mapped[g] /\ tried'[g] = tried[g] /\ g \notin early
        BY <1>5, <2>1, <2>8, <3>2, Zenon
      <4>2. QED
        BY <1>2, <1>6, <2>1, <2>8, <4>1, Zenon
    <3>3. QED
      BY <3>1, <3>2
  <2>9. QED
    BY <1>4, <2>6, <2>7, <2>8, Zenon
<1>13. QED
  BY <1>8, <1>9, <1>10, <1>11, <1>12, Zenon

\* What is reserved, what is mapped and who is open stay in step.
THEOREM MapCorrect == Spec => []MapInv
<1>1. MapInv /\ [Next]_vars => MapInv'
  <2> SUFFICES ASSUME MapInv, [Next]_vars PROVE MapInv'
    OBVIOUS
  <2>1. CASE Next
    BY <2>1, MemoryKeeps, FileKeeps, Zenon DEF Next
  <2>2. CASE UNCHANGED vars
    <3>1. /\ UNCHANGED <<phase, kmalloc_ptr, kmalloc_area, vmalloc_ptr, reserved>>
          /\ UNCHANGED <<private_data, opened, mapped, tried, early, last_minor>>
      BY <2>2, Zenon DEF vars, memory, files
    <3>2. TypeOK' /\ FilesInv' /\ AreaInBlock' /\ ReservedIsArea' /\ Present' = Present
      BY <3>1, Zenon DEF MapInv, TypeOK, FilesInv, Live, MapsItsArea, AreaInBlock,
                         ReservedIsArea, Present
    <3>3. QED
      BY <3>1, <3>2, Zenon DEF MapInv, MapsItsArea
  <2>3. QED
    BY <2>1, <2>2
<1>2. QED
  BY <1>1, InitInv, PTL DEF Spec

\* Every variable keeps its type.
THEOREM TypeCorrect == Spec => []TypeOK
<1>1. MapInv => TypeOK
  BY DEF MapInv
<1>2. QED
  BY <1>1, MapCorrect, PTL

\* A mapping that came after its area and is no longer than it is of reserved
\* pages of the file's own area, which stays as long as the mapping does.
THEOREM MappingIsOfItsArea == Spec => []MapsItsArea
<1>1. MapInv => MapsItsArea
  BY DEF MapInv
<1>2. QED
  BY <1>1, MapCorrect, PTL

=============================================================================
