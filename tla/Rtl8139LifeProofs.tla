-------------------------- MODULE Rtl8139LifeProofs --------------------------
(***************************************************************************)
(* What holds of the life of a card, for any number of failed opens: the   *)
(* inductive invariant LifeInv and the properties that follow from it.     *)
(***************************************************************************)
EXTENDS Rtl8139Life, TLAPS

\* The ladder of rtl8139_probe has nine rungs (pci.c:185-435).
LEMMA RungCount == DOMAIN Rungs = 1..9 /\ Len(Rungs) = 9
BY DEF Rungs

\* Which rung gets what.
LEMMA RungGets ==
  \A r \in 1..9:
    /\ "enabled" \in Rungs[r].gets    <=> r = 1
    /\ "mwi" \in Rungs[r].gets        <=> r = 2
    /\ "region" \in Rungs[r].gets     <=> r = 5
    /\ "iomap" \in Rungs[r].gets      <=> r = 6
    /\ "netdev" \in Rungs[r].gets     <=> r = 8
    /\ "registered" \in Rungs[r].gets <=> r = 9
    /\ Rungs[r].gets \subseteq Resources
<1>1. /\ Rungs[1].gets = {"enabled"} /\ Rungs[2].gets = {"mwi"}
      /\ Rungs[3].gets = {} /\ Rungs[4].gets = {}
      /\ Rungs[5].gets = {"region"} /\ Rungs[6].gets = {"iomap"}
      /\ Rungs[7].gets = {} /\ Rungs[8].gets = {"netdev"}
      /\ Rungs[9].gets = {"registered"}
  BY DEF Rungs
<1>. QED  BY <1>1 DEF Resources

\* Where a refusal jumps.
LEMMA RungFails ==
  /\ Rungs[1].fails = "return" /\ Rungs[2].fails = "disable"
  /\ Rungs[3].fails = "mwi" /\ Rungs[4].fails = "mwi" /\ Rungs[5].fails = "mwi"
  /\ Rungs[6].fails = "release" /\ Rungs[7].fails = "release"
  /\ Rungs[8].fails = "unmap" /\ Rungs[9].fails = "freedev"
  /\ Rungs[7].asks = "DMA mask"
BY DEF Rungs

\* What the labels of rtl8139_probe give back, each with those below it
\* (pci.c:458-472).
LEMMA UnwoundFacts ==
  /\ Unwound("return") = {}
  /\ Unwound("disable") = {"enabled"}
  /\ Unwound("mwi") = {"mwi", "enabled"}
  /\ Unwound("release") = {"region", "BAR0", "mwi", "enabled"}
  /\ Unwound("unmap") = {"iomap", "region", "BAR0", "mwi", "enabled"}
  /\ Unwound("freedev") = {"netdev", "iomap", "region", "BAR0", "mwi", "enabled"}
<1>1. /\ DOMAIN Labels = 1..5
      /\ Labels[1] = [name |-> "freedev", frees |-> {"netdev"}]
      /\ Labels[2] = [name |-> "unmap", frees |-> {"iomap"}]
      /\ Labels[3] = [name |-> "release", frees |-> {"region", "BAR0"}]
      /\ Labels[4] = [name |-> "mwi", frees |-> {"mwi"}]
      /\ Labels[5] = [name |-> "disable", frees |-> {"enabled"}]
  BY DEF Labels, Released
<1>2. ASSUME NEW r, NEW label
      PROVE  r \in Unwound(label) <=>
               \E l, from \in 1..5: /\ r \in Labels[l].frees /\ from <= l
                                    /\ Labels[from].name = label
  BY <1>1, Zenon DEF Unwound
<1>3. ASSUME NEW label, label \notin {"freedev", "unmap", "release", "mwi", "disable"}
      PROVE  Unwound(label) = {}
  BY <1>1, <1>2, <1>3
<1>4. ASSUME NEW r, NEW from \in 1..5
      PROVE  r \in Unwound(Labels[from].name) <=>
               \E l \in 1..5: r \in Labels[l].frees /\ from <= l
  BY <1>1, <1>2
<1>5. Unwound("return") = {}
  BY <1>3
<1>6. ASSUME NEW r PROVE r \in Unwound("disable") <=> r = "enabled"
  BY <1>1, <1>4
<1>7. ASSUME NEW r PROVE r \in Unwound("mwi") <=> r \in {"mwi", "enabled"}
  BY <1>1, <1>4
<1>8. ASSUME NEW r
      PROVE  r \in Unwound("release") <=> r \in {"region", "BAR0", "mwi", "enabled"}
  BY <1>1, <1>4
<1>9. ASSUME NEW r
      PROVE  r \in Unwound("unmap") <=>
               r \in {"iomap", "region", "BAR0", "mwi", "enabled"}
  BY <1>1, <1>4
<1>10. ASSUME NEW r
       PROVE  r \in Unwound("freedev") <=>
                r \in {"netdev", "iomap", "region", "BAR0", "mwi", "enabled"}
  BY <1>1, <1>4
<1>. QED  BY <1>5, <1>6, <1>7, <1>8, <1>9, <1>10

-----------------------------------------------------------------------------

\* Nothing is bound, up or registered to begin with.
LEMMA LifeInit == Init => LifeInv
<1>. SUFFICES ASSUME Init PROVE LifeInv
  OBVIOUS
<1>1. TypeOK
  <2>1. rung \in DOMAIN Rungs
    BY RungCount DEF Init
  <2>2. handlers \in Nat /\ leaked \in Nat
    BY DEF Init
  <2>. QED  BY <2>1, <2>2 DEF Init, TypeOK, BindingType, OpeningType, CardType
<1>2. LadderInv /\ PhaseInv /\ HandlerInv /\ OtherCardInv /\ IrqBalance /\ LossExplained
  BY
     DEF Init, LadderInv, PhaseInv, Starting, HandlerInv, OtherCardInv, IrqBalance, LossExplained
<1>. QED  BY <1>1, <1>2 DEF LifeInv

\* No step of probe breaks the invariant.
LEMMA ProbeKeeps == LifeInv /\ Probe => LifeInv'
<1>. SUFFICES ASSUME LifeInv, Probe PROVE LifeInv'
  OBVIOUS
<1>a. /\ TypeOK /\ LadderInv /\ PhaseInv /\ HandlerInv /\ OtherCardInv
      /\ IrqBalance /\ LossExplained
  BY DEF LifeInv
<1>b. handlers \in Nat /\ leaked \in Nat /\ rung \in 1..9
  BY <1>a, RungCount DEF TypeOK, BindingType, OpeningType
<1>1. CASE ProbeCall
  <2>1. TypeOK'
    <3>1. BindingType'
      <4>1. rung' \in DOMAIN Rungs
        BY <1>1, RungCount DEF ProbeCall
      <4>2. res' \subseteq Resources
        BY <1>1, <1>a DEF TypeOK, BindingType, ProbeCall
      <4>3. /\ lost' \subseteq Resources /\ unheld' \subseteq Resources \cup {"BAR0"}
            /\ faults' \subseteq {"DMA mask", "priv reused", "stale handler"}
        BY <1>1, <1>a DEF TypeOK, BindingType, ProbeCall, ghost
      <4>4. ppc' \in {"unbound", "probing", "bound", "removing", "closing", "freeing",
                     "unmapping"}
        BY <1>1 DEF ProbeCall
      <4>. QED  BY <4>1, <4>2, <4>3, <4>4 DEF BindingType
    <3>2. OpeningType'
      BY <1>1, <1>a, <1>b
         DEF TypeOK, OpeningType, ProbeCall, ghost, memory, card, dma, handler
    <3>3. CardType'
      BY <1>1, <1>a DEF TypeOK, CardType, ProbeCall, ghost, memory, card, dma, handler
    <3>. QED  BY <3>1, <3>2, <3>3 DEF TypeOK
  <2>2. LadderInv'
    BY <1>1, <1>a, <1>b, RungCount
       DEF LadderInv, ProbeCall, memory, card, dma, handler, ghost
  <2>3. PhaseInv'
    BY <1>1, <1>a DEF PhaseInv, Starting, ProbeCall, memory, card, dma, handler, ghost
  <2>4. HandlerInv'
    BY <1>1, <1>a DEF HandlerInv, ProbeCall, memory, card, dma, handler, ghost
  <2>5. OtherCardInv'
    BY <1>1, <1>a DEF OtherCardInv, ProbeCall, memory, card, dma, handler, ghost
  <2>6. IrqBalance'
    BY <1>1, <1>a, <1>b DEF IrqBalance, ProbeCall, memory, card, dma, handler, ghost
  <2>7. LossExplained'
    BY <1>1, <1>a DEF LossExplained, ProbeCall, memory, card, dma, handler, ghost
  <2>. QED  BY <2>1, <2>2, <2>3, <2>4, <2>5, <2>6, <2>7 DEF LifeInv
<1>2. CASE ProbeGranted
  <2>1. TypeOK'
    <3>1. BindingType'
      <4>1. rung' \in DOMAIN Rungs
        BY <1>2, <1>b, RungCount DEF ProbeGranted
      <4>2. res' \subseteq Resources
        BY <1>2, <1>a, <1>b, RungGets DEF TypeOK, BindingType, ProbeGranted
      <4>3. /\ lost' \subseteq Resources /\ unheld' \subseteq Resources \cup {"BAR0"}
            /\ faults' \subseteq {"DMA mask", "priv reused", "stale handler"}
        BY <1>2, <1>a DEF TypeOK, BindingType, ProbeGranted, ghost
      <4>4. ppc' \in {"unbound", "probing", "bound", "removing", "closing", "freeing",
                     "unmapping"}
        BY <1>2 DEF ProbeGranted
      <4>. QED  BY <4>1, <4>2, <4>3, <4>4 DEF BindingType
    <3>2. OpeningType'
      BY <1>2, <1>a, <1>b
         DEF TypeOK, OpeningType, ProbeGranted, ghost, memory, card, dma, handler
    <3>3. CardType'
      BY <1>2, <1>a DEF TypeOK, CardType, ProbeGranted, ghost, memory, card, dma, handler
    <3>. QED  BY <3>1, <3>2, <3>3 DEF TypeOK
  <2>2. LadderInv'
    <3>1. /\ rung \in 1..9 /\ res \subseteq Resources
          /\ "enabled" \in res <=> rung > 1
          /\ "mwi" \in res     <=> rung > 2
          /\ "region" \in res  <=> rung > 5
          /\ "iomap" \in res   <=> rung > 6
          /\ "netdev" \in res  <=> rung > 8
          /\ "registered" \notin res
      BY <1>2, <1>a, <1>b DEF TypeOK, BindingType, LadderInv, ProbeGranted, ghost
    <3>2. /\ "enabled" \in res' <=> rung > 0
          /\ "mwi" \in res'     <=> rung > 1
          /\ "region" \in res'  <=> rung > 4
          /\ "iomap" \in res'   <=> rung > 5
          /\ "netdev" \in res'  <=> rung > 7
          /\ "registered" \in res' <=> rung > 8
          /\ res' \subseteq Resources
      BY <1>2, <3>1, RungGets DEF ProbeGranted, ghost
    <3>3. CASE rung = 9
      <4>0. /\ "enabled" \in res' /\ "mwi" \in res' /\ "region" \in res'
            /\ "iomap" \in res' /\ "netdev" \in res' /\ "registered" \in res'
        BY <3>2, <3>3
      <4>1. res' = Resources
        BY <3>2, <4>0 DEF Resources
      <4>2. ppc' = "bound"
        BY <1>2, <3>3, RungCount DEF ProbeGranted, ghost
      <4>. QED  BY <4>1, <4>2 DEF LadderInv
    <3>4. CASE rung # 9
      <4>1. ppc' = "probing" /\ rung' = rung + 1
        BY <1>2, <3>4, RungCount DEF ProbeGranted, ghost
      <4>. QED  BY <3>1, <3>2, <3>4, <4>1 DEF LadderInv
    <3>. QED  BY <3>3, <3>4
  <2>3. PhaseInv'
    BY <1>2, <1>a DEF PhaseInv, Starting, ProbeGranted, memory, card, dma, handler, ghost
  <2>4. HandlerInv'
    BY <1>2, <1>a DEF HandlerInv, ProbeGranted, memory, card, dma, handler, ghost
  <2>5. OtherCardInv'
    BY <1>2, <1>a DEF OtherCardInv, ProbeGranted, memory, card, dma, handler, ghost
  <2>6. IrqBalance'
    BY <1>2, <1>a, <1>b DEF IrqBalance, ProbeGranted, memory, card, dma, handler, ghost
  <2>7. LossExplained'
    BY <1>2, <1>a DEF LossExplained, ProbeGranted, memory, card, dma, handler, ghost
  <2>. QED  BY <2>1, <2>2, <2>3, <2>4, <2>5, <2>6, <2>7 DEF LifeInv
<1>3. CASE ProbeRefused
  <2>1. TypeOK'
    <3>1. BindingType'
      <4>1. rung' \in DOMAIN Rungs
        <5>1. rung' = 1
          BY <1>3 DEF ProbeRefused
        <5>. QED  BY <5>1, RungCount
      <4>2. res' \subseteq Resources
        BY <1>3 DEF ProbeRefused
      <4>3. Unwound(Rungs[rung].fails) \subseteq Resources \cup {"BAR0"}
        <5>1. Rungs[rung].fails \in
                {"return", "disable", "mwi", "release", "unmap", "freedev"}
          <6>1. \/ rung = 1 \/ rung = 2 \/ rung = 3 \/ rung = 4 \/ rung = 5
                \/ rung = 6 \/ rung = 7 \/ rung = 8 \/ rung = 9
            BY <1>b
          <6>. QED  BY <6>1, RungFails
        <5>. QED  BY <5>1, UnwoundFacts DEF Resources
      <4>4. lost' \subseteq Resources /\ unheld' \subseteq Resources \cup {"BAR0"}
        BY <1>3, <1>a, <4>3 DEF TypeOK, BindingType, ProbeRefused
      <4>5. faults' \subseteq {"DMA mask", "priv reused", "stale handler"}
        BY <1>3, <1>a DEF TypeOK, BindingType, ProbeRefused
      <4>6. ppc' = "unbound"
        BY <1>3 DEF ProbeRefused
      <4>. QED  BY <4>1, <4>2, <4>4, <4>5, <4>6 DEF BindingType
    <3>2. OpeningType'
      BY <1>3, <1>a, <1>b
         DEF TypeOK, OpeningType, ProbeRefused, ghost, memory, card, dma, handler
    <3>3. CardType'
      BY <1>3, <1>a DEF TypeOK, CardType, ProbeRefused, ghost, memory, card, dma, handler
    <3>. QED  BY <3>1, <3>2, <3>3 DEF TypeOK
  <2>2. LadderInv'
    BY <1>3, <1>a, <1>b, RungCount
       DEF LadderInv, ProbeRefused, memory, card, dma, handler, ghost
  <2>3. PhaseInv'
    BY <1>3, <1>a DEF PhaseInv, Starting, ProbeRefused, memory, card, dma, handler, ghost
  <2>4. HandlerInv'
    BY <1>3, <1>a DEF HandlerInv, ProbeRefused, memory, card, dma, handler, ghost
  <2>5. OtherCardInv'
    BY <1>3, <1>a DEF OtherCardInv, ProbeRefused, memory, card, dma, handler, ghost
  <2>6. IrqBalance'
    BY <1>3, <1>a, <1>b DEF IrqBalance, ProbeRefused, memory, card, dma, handler, ghost
  <2>7. LossExplained'
    <3>0. res \subseteq Resources
      BY <1>a DEF TypeOK, BindingType
    <3>1. /\ rung \in 1..9
          /\ "enabled" \in res <=> rung > 1
          /\ "mwi" \in res     <=> rung > 2
          /\ "region" \in res  <=> rung > 5
          /\ "iomap" \in res   <=> rung > 6
          /\ "netdev" \in res  <=> rung > 8
          /\ "registered" \notin res
      BY <1>3, <1>a, <1>b DEF TypeOK, LadderInv, ProbeRefused, ghost
    <3>2. /\ res \ Unwound(Rungs[rung].fails)
               \subseteq IF rung = 7 THEN {"iomap"} ELSE {}
          /\ Unwound(Rungs[rung].fails) \ res \subseteq {"BAR0"}
      <4>1. CASE rung = 1
        <5>1. /\ "enabled" \notin res
              /\ "mwi" \notin res
              /\ "region" \notin res
              /\ "iomap" \notin res
              /\ "netdev" \notin res
              /\ "registered" \notin res
          BY <3>1, <4>1
        <5>2. res \subseteq {}
          BY <3>0, <5>1 DEF Resources
        <5>3. Unwound(Rungs[rung].fails) = {}
          BY <4>1, RungFails, UnwoundFacts
        <5>. QED  BY <5>2, <5>3
      <4>2. CASE rung = 2
        <5>1. /\ "mwi" \notin res
              /\ "region" \notin res
              /\ "iomap" \notin res
              /\ "netdev" \notin res
              /\ "registered" \notin res
          BY <3>1, <4>2
        <5>2. res \subseteq {"enabled"}
          BY <3>0, <5>1 DEF Resources
        <5>3. Rungs[rung].fails = "disable"
          BY <4>2, RungFails
        <5>4. {"enabled"} \subseteq res
          BY <3>1, <4>2
        <5>5. res \ Unwound("disable") = {} /\ Unwound("disable") \ res \subseteq {"BAR0"}
          BY <5>2, <5>4, UnwoundFacts
        <5>. QED  BY <4>2, <5>3, <5>5
      <4>3. CASE rung \in {3, 4, 5}
        <5>1. /\ "region" \notin res
              /\ "iomap" \notin res
              /\ "netdev" \notin res
              /\ "registered" \notin res
          BY <3>1, <4>3
        <5>2. res \subseteq {"enabled", "mwi"}
          BY <3>0, <5>1 DEF Resources
        <5>3. Rungs[rung].fails = "mwi"
          BY <4>3, RungFails
        <5>4. {"enabled", "mwi"} \subseteq res
          BY <3>1, <4>3
        <5>5. res \ Unwound("mwi") = {} /\ Unwound("mwi") \ res \subseteq {"BAR0"}
          BY <5>2, <5>4, UnwoundFacts
        <5>. QED  BY <4>3, <5>3, <5>5
      <4>4. CASE rung = 6
        <5>1. /\ "iomap" \notin res
              /\ "netdev" \notin res
              /\ "registered" \notin res
          BY <3>1, <4>4
        <5>2. res \subseteq {"enabled", "mwi", "region"}
          BY <3>0, <5>1 DEF Resources
        <5>3. Rungs[rung].fails = "release"
          BY <4>4, RungFails
        <5>4. {"enabled", "mwi", "region"} \subseteq res
          BY <3>1, <4>4
        <5>5. res \ Unwound("release") = {} /\ Unwound("release") \ res \subseteq {"BAR0"}
          BY <5>2, <5>4, UnwoundFacts
        <5>. QED  BY <4>4, <5>3, <5>5
      <4>5. CASE rung = 7
        <5>1. /\ "netdev" \notin res
              /\ "registered" \notin res
          BY <3>1, <4>5
        <5>2. res \subseteq {"enabled", "mwi", "region", "iomap"}
          BY <3>0, <5>1 DEF Resources
        <5>3. Rungs[rung].fails = "release"
          BY <4>5, RungFails
        <5>4. {"enabled", "mwi", "region"} \subseteq res
          BY <3>1, <4>5
        <5>5. /\ res \ Unwound("release") \subseteq {"iomap"}
              /\ Unwound("release") \ res \subseteq {"BAR0"}
          BY <5>2, <5>4, UnwoundFacts
        <5>. QED  BY <4>5, <5>3, <5>5
      <4>6. CASE rung = 8
        <5>1. /\ "netdev" \notin res
              /\ "registered" \notin res
          BY <3>1, <4>6
        <5>2. res \subseteq {"enabled", "mwi", "region", "iomap"}
          BY <3>0, <5>1 DEF Resources
        <5>3. Rungs[rung].fails = "unmap"
          BY <4>6, RungFails
        <5>4. {"enabled", "mwi", "region", "iomap"} \subseteq res
          BY <3>1, <4>6
        <5>5. res \ Unwound("unmap") = {} /\ Unwound("unmap") \ res \subseteq {"BAR0"}
          BY <5>2, <5>4, UnwoundFacts
        <5>. QED  BY <4>6, <5>3, <5>5
      <4>7. CASE rung = 9
        <5>1. "registered" \notin res
          BY <3>1, <4>7
        <5>2. res \subseteq {"enabled", "mwi", "region", "iomap", "netdev"}
          BY <3>0, <5>1 DEF Resources
        <5>3. Rungs[rung].fails = "freedev"
          BY <4>7, RungFails
        <5>4. {"enabled", "mwi", "region", "iomap", "netdev"} \subseteq res
          BY <3>1, <4>7
        <5>5. res \ Unwound("freedev") = {} /\ Unwound("freedev") \ res \subseteq {"BAR0"}
          BY <5>2, <5>4, UnwoundFacts
        <5>. QED  BY <4>7, <5>3, <5>5
      <4>. QED  BY <3>1, <4>1, <4>2, <4>3, <4>4, <4>5, <4>6, <4>7
    <3>3. /\ lost' = lost \cup (res \ Unwound(Rungs[rung].fails))
          /\ unheld' = unheld \cup (Unwound(Rungs[rung].fails) \ res)
      BY <1>3 DEF ProbeRefused, ghost
    <3>4. faults \subseteq faults' /\ (rung = 7 => "DMA mask" \in faults')
      BY <1>3, RungFails DEF ProbeRefused, ghost
    <3>5. /\ lost # {} => lost = {"iomap"} /\ faults \cap {"DMA mask", "priv reused"} # {}
          /\ unheld \subseteq {"BAR0"}
      BY <1>a DEF LossExplained
    <3>8. unheld' \subseteq {"BAR0"}
      BY <3>2, <3>3, <3>5
    <3>6. CASE rung = 7
      BY <3>2, <3>3, <3>4, <3>5, <3>6, <3>8 DEF LossExplained
    <3>7. CASE rung # 7
      BY <3>2, <3>3, <3>4, <3>5, <3>7, <3>8 DEF LossExplained
    <3>. QED  BY <3>6, <3>7
  <2>. QED  BY <2>1, <2>2, <2>3, <2>4, <2>5, <2>6, <2>7 DEF LifeInv
<1>. QED  BY <1>1, <1>2, <1>3 DEF Probe

\* No step of remove breaks the invariant.
LEMMA RemoveKeeps == LifeInv /\ Remove => LifeInv'
<1>. SUFFICES ASSUME LifeInv, Remove PROVE LifeInv'
  OBVIOUS
<1>a. /\ TypeOK /\ LadderInv /\ PhaseInv /\ HandlerInv /\ OtherCardInv
      /\ IrqBalance /\ LossExplained
  BY DEF LifeInv
<1>b. handlers \in Nat /\ leaked \in Nat /\ rung \in 1..9
  BY <1>a, RungCount DEF TypeOK, BindingType, OpeningType
<1>1. CASE RemoveCall
  <2>1. TypeOK'
    <3>1. BindingType'
      BY <1>1, <1>a, <1>b, RungCount
         DEF TypeOK, BindingType, RemoveCall, ghost, memory, card, dma, handler
    <3>2. OpeningType'
      BY <1>1, <1>a, <1>b
         DEF TypeOK, OpeningType, RemoveCall, ghost, memory, card, dma, handler
    <3>3. CardType'
      BY <1>1, <1>a DEF TypeOK, CardType, RemoveCall, ghost, memory, card, dma, handler
    <3>. QED  BY <3>1, <3>2, <3>3 DEF TypeOK
  <2>2. LadderInv'
    BY <1>1, <1>a DEF LadderInv, RemoveCall, memory, card, dma, handler, ghost
  <2>3. PhaseInv'
    BY <1>1, <1>a DEF PhaseInv, Starting, RemoveCall, memory, card, dma, handler, ghost
  <2>4. HandlerInv'
    BY <1>1, <1>a DEF HandlerInv, RemoveCall, memory, card, dma, handler, ghost
  <2>5. OtherCardInv'
    BY <1>1, <1>a DEF OtherCardInv, RemoveCall, memory, card, dma, handler, ghost
  <2>6. IrqBalance'
    BY <1>1, <1>a, <1>b DEF IrqBalance, RemoveCall, memory, card, dma, handler, ghost
  <2>7. LossExplained'
    BY <1>1, <1>a DEF LossExplained, RemoveCall, memory, card, dma, handler, ghost
  <2>. QED  BY <2>1, <2>2, <2>3, <2>4, <2>5, <2>6, <2>7 DEF LifeInv
<1>2. CASE RemoveClose
  <2>1. TypeOK'
    <3>1. BindingType'
      BY <1>2, <1>a, <1>b, RungCount
         DEF TypeOK, BindingType, RemoveClose, ghost, memory, card, dma, handler
    <3>2. OpeningType'
      BY <1>2, <1>a, <1>b
         DEF TypeOK, OpeningType, RemoveClose, ghost, memory, card, dma, handler
    <3>3. CardType'
      BY <1>2, <1>a DEF TypeOK, CardType, RemoveClose, ghost, memory, card, dma, handler
    <3>. QED  BY <3>1, <3>2, <3>3 DEF TypeOK
  <2>2. LadderInv'
    BY <1>2, <1>a DEF LadderInv, RemoveClose, memory, card, dma, handler, ghost
  <2>3. PhaseInv'
    BY <1>2, <1>a DEF PhaseInv, Starting, RemoveClose, memory, card, dma, handler, ghost
  <2>4. HandlerInv'
    BY <1>2, <1>a DEF HandlerInv, RemoveClose, memory, card, dma, handler, ghost
  <2>5. OtherCardInv'
    BY <1>2, <1>a DEF OtherCardInv, RemoveClose, memory, card, dma, handler, ghost
  <2>6. IrqBalance'
    BY <1>2, <1>a, <1>b DEF IrqBalance, RemoveClose, memory, card, dma, handler, ghost
  <2>7. LossExplained'
    BY <1>2, <1>a DEF LossExplained, RemoveClose, memory, card, dma, handler, ghost
  <2>. QED  BY <2>1, <2>2, <2>3, <2>4, <2>5, <2>6, <2>7 DEF LifeInv
<1>3. CASE RemoveUnregister
  <2>1. TypeOK'
    <3>1. BindingType'
      BY <1>3, <1>a, <1>b, RungCount
         DEF TypeOK, BindingType, RemoveUnregister, ghost, memory, card, dma, handler
    <3>2. OpeningType'
      BY <1>3, <1>a, <1>b
         DEF TypeOK, OpeningType, RemoveUnregister, ghost, memory, card, dma, handler
    <3>3. CardType'
      BY <1>3, <1>a
         DEF TypeOK, CardType, RemoveUnregister, ghost, memory, card, dma, handler
    <3>. QED  BY <3>1, <3>2, <3>3 DEF TypeOK
  <2>2. LadderInv'
    BY <1>3, <1>a
       DEF LadderInv, RemoveUnregister, memory, card, dma, handler, Resources, ghost
  <2>3. PhaseInv'
    BY <1>3, <1>a
       DEF PhaseInv, Starting, RemoveUnregister, memory, card, dma, handler, Resources, ghost
  <2>4. HandlerInv'
    BY <1>3, <1>a DEF HandlerInv, RemoveUnregister, memory, card, dma, handler, ghost
  <2>5. OtherCardInv'
    BY <1>3, <1>a DEF OtherCardInv, RemoveUnregister, memory, card, dma, handler, ghost
  <2>6. IrqBalance'
    BY <1>3, <1>a, <1>b
       DEF IrqBalance, RemoveUnregister, memory, card, dma, handler, ghost
  <2>7. LossExplained'
    BY <1>3, <1>a DEF LossExplained, RemoveUnregister, memory, card, dma, handler, ghost
  <2>. QED  BY <2>1, <2>2, <2>3, <2>4, <2>5, <2>6, <2>7 DEF LifeInv
<1>4. CASE RemoveFree
  <2>1. TypeOK'
    <3>1. BindingType'
      BY <1>4, <1>a, <1>b, RungCount
         DEF TypeOK, BindingType, RemoveFree, ghost, memory, card, dma, handler
    <3>2. OpeningType'
      BY <1>4, <1>a, <1>b
         DEF TypeOK, OpeningType, RemoveFree, ghost, memory, card, dma, handler
    <3>3. CardType'
      BY <1>4, <1>a DEF TypeOK, CardType, RemoveFree, ghost, memory, card, dma, handler
    <3>. QED  BY <3>1, <3>2, <3>3 DEF TypeOK
  <2>2. LadderInv'
    BY <1>4, <1>a DEF LadderInv, RemoveFree, memory, card, dma, handler, Resources, ghost
  <2>3. PhaseInv'
    BY <1>4, <1>a, <1>b
       DEF PhaseInv, Starting, RemoveFree, memory, card, dma, handler, ghost
  <2>4. HandlerInv'
    BY <1>4, <1>a DEF HandlerInv, RemoveFree, memory, card, dma, handler, ghost
  <2>0. npc = "down" /\ npc' = npc
    BY <1>4, <1>a DEF PhaseInv, Starting, RemoveFree, ghost
  <2>5. OtherCardInv'
    <3>1. handlers = 0 => leaked = 0
      BY <1>a, <1>b, <2>0 DEF IrqBalance
    <3>2. handlers > 0 => "stale handler" \in faults'
      BY <1>4 DEF RemoveFree, ghost
    <3>3. handlers = 0 \/ handlers > 0
      BY <1>b
    <3>. QED  BY <1>4, <1>a, <2>0, <3>1, <3>2, <3>3
              DEF OtherCardInv, RemoveFree, handler, ghost
  <2>6. IrqBalance'
    <3>1. handlers' = 0 /\ leaked' = 0
      BY <1>4 DEF RemoveFree, ghost
    <3>. QED  BY <2>0, <3>1 DEF IrqBalance
  <2>7. LossExplained'
    BY <1>4, <1>a DEF LossExplained, RemoveFree, memory, card, dma, handler, ghost
  <2>. QED  BY <2>1, <2>2, <2>3, <2>4, <2>5, <2>6, <2>7 DEF LifeInv
<1>5. CASE RemoveUnmap
  <2>1. TypeOK'
    <3>1. BindingType'
      <4>1. PICK intact \in BOOLEAN:
              LET given == Released \cup {"mwi", "enabled"} \cup
                           (IF intact THEN {"iomap"} ELSE {}) IN
              /\ lost' = lost \cup (res \ given) /\ unheld' = unheld \cup (given \ res)
              /\ faults' = faults \cup (IF intact THEN {} ELSE {"priv reused"})
        BY <1>5 DEF RemoveUnmap
      <4>2. lost' \subseteq Resources /\ unheld' \subseteq Resources \cup {"BAR0"}
        BY <1>a, <4>1 DEF TypeOK, BindingType, Released, Resources
      <4>3. faults' \subseteq {"DMA mask", "priv reused", "stale handler"}
        BY <1>a, <4>1 DEF TypeOK, BindingType
      <4>4. rung' = rung /\ res' = {} /\ ppc' = "unbound"
        BY <1>5 DEF RemoveUnmap
      <4>. QED  BY <1>a, <4>2, <4>3, <4>4 DEF TypeOK, BindingType
    <3>2. OpeningType'
      BY <1>5, <1>a, <1>b
         DEF TypeOK, OpeningType, RemoveUnmap, ghost, memory, card, dma, handler
    <3>3. CardType'
      BY <1>5, <1>a DEF TypeOK, CardType, RemoveUnmap, ghost, memory, card, dma, handler
    <3>. QED  BY <3>1, <3>2, <3>3 DEF TypeOK
  <2>2. LadderInv'
    BY <1>5, <1>a DEF LadderInv, RemoveUnmap, memory, card, dma, handler, ghost
  <2>3. PhaseInv'
    BY <1>5, <1>a
       DEF PhaseInv, Starting, RemoveUnmap, memory, card, dma, handler, LadderInv, ghost
  <2>4. HandlerInv'
    BY <1>5, <1>a DEF HandlerInv, RemoveUnmap, memory, card, dma, handler, ghost
  <2>5. OtherCardInv'
    BY <1>5, <1>a DEF OtherCardInv, RemoveUnmap, memory, card, dma, handler, ghost
  <2>6. IrqBalance'
    BY <1>5, <1>a, <1>b DEF IrqBalance, RemoveUnmap, memory, card, dma, handler, ghost
  <2>7. LossExplained'
    <3>1. res = Resources \ {"registered", "netdev"}
      BY <1>5, <1>a DEF LadderInv, RemoveUnmap
    <3>2. PICK intact \in BOOLEAN:
            LET given == Released \cup {"mwi", "enabled"} \cup
                         (IF intact THEN {"iomap"} ELSE {}) IN
            /\ lost' = lost \cup (res \ given) /\ unheld' = unheld \cup (given \ res)
            /\ faults' = faults \cup (IF intact THEN {} ELSE {"priv reused"})
      BY <1>5 DEF RemoveUnmap
    <3>3. CASE intact
      BY <1>a, <3>1, <3>2, <3>3 DEF LossExplained, Released, Resources
    <3>4. CASE ~intact
      BY <1>a, <3>1, <3>2, <3>4 DEF LossExplained, Released, Resources
    <3>. QED  BY <3>2, <3>3, <3>4
  <2>. QED  BY <2>1, <2>2, <2>3, <2>4, <2>5, <2>6, <2>7 DEF LifeInv
<1>. QED  BY <1>1, <1>2, <1>3, <1>4, <1>5 DEF Remove

\* No step of open breaks the invariant.
LEMMA OpenKeeps == LifeInv /\ Open => LifeInv'
<1>. SUFFICES ASSUME LifeInv, Open PROVE LifeInv'
  OBVIOUS
<1>a. /\ TypeOK /\ LadderInv /\ PhaseInv /\ HandlerInv /\ OtherCardInv
      /\ IrqBalance /\ LossExplained
  BY DEF LifeInv
<1>b. handlers \in Nat /\ leaked \in Nat /\ rung \in 1..9
  BY <1>a, RungCount DEF TypeOK, BindingType, OpeningType
<1>1. CASE OpenIrq
  <2>1. TypeOK'
    <3>1. BindingType'
      BY <1>1, <1>a, <1>b, RungCount
         DEF TypeOK, BindingType, OpenIrq, binding, ghost, memory, card, dma, handler
    <3>2. OpeningType'
      BY <1>1, <1>a, <1>b
         DEF TypeOK, OpeningType, OpenIrq, binding, ghost, memory, card, dma, handler
    <3>3. CardType'
      BY <1>1, <1>a
         DEF TypeOK, CardType, OpenIrq, binding, ghost, memory, card, dma, handler
    <3>. QED  BY <3>1, <3>2, <3>3 DEF TypeOK
  <2>2. LadderInv'
    BY <1>1, <1>a DEF LadderInv, OpenIrq, binding, ghost, memory, card, dma, handler
  <2>0. npc = "down" /\ ppc \in {"bound", "removing"}
    BY <1>1, <1>a DEF OpenIrq, MayOpen, TypeOK, BindingType, LadderInv
  <2>3. PhaseInv'
    BY <1>1, <1>a, <2>0 DEF PhaseInv, Starting, OpenIrq, binding, ghost, memory, card, dma
  <2>4. HandlerInv'
    BY <1>1, <1>a, <2>0 DEF HandlerInv, OpenIrq, handler
  <2>5. OtherCardInv'
    BY <1>1, <1>a
       DEF OtherCardInv, OpenIrq, binding, ghost, memory, card, dma, handler, MayOpen
  <2>6. IrqBalance'
    BY <1>1, <1>a, <1>b
       DEF IrqBalance, OpenIrq, binding, ghost, memory, card, dma, handler, MayOpen
  <2>7. LossExplained'
    BY <1>1, <1>a DEF LossExplained, OpenIrq, binding, ghost, memory, card, dma, handler
  <2>. QED  BY <2>1, <2>2, <2>3, <2>4, <2>5, <2>6, <2>7 DEF LifeInv
<1>2. CASE OpenTxAlloc
  <2>1. TypeOK'
    <3>1. BindingType'
      BY <1>2, <1>a, <1>b, RungCount
         DEF TypeOK, BindingType, OpenTxAlloc, binding, ghost, memory, card, dma, handler
    <3>2. OpeningType'
      BY <1>2, <1>a, <1>b
         DEF TypeOK, OpeningType, OpenTxAlloc, binding, ghost, memory, card, dma, handler
    <3>3. CardType'
      BY <1>2, <1>a
         DEF TypeOK, CardType, OpenTxAlloc, binding, ghost, memory, card, dma, handler
    <3>. QED  BY <3>1, <3>2, <3>3 DEF TypeOK
  <2>2. LadderInv'
    BY <1>2, <1>a DEF LadderInv, OpenTxAlloc, binding, ghost, card, dma, handler
  <2>3. PhaseInv'
    BY <1>2, <1>a DEF PhaseInv, Starting, OpenTxAlloc, binding, ghost, card, dma, handler
  <2>4. HandlerInv'
    BY <1>2, <1>a DEF HandlerInv, OpenTxAlloc, binding, ghost, card, dma, handler
  <2>5. OtherCardInv'
    BY <1>2, <1>a DEF OtherCardInv, OpenTxAlloc, binding, ghost, card, dma, handler
  <2>6. IrqBalance'
    BY <1>2, <1>a, <1>b DEF IrqBalance, OpenTxAlloc, binding, ghost, card, dma, handler
  <2>7. LossExplained'
    BY <1>2, <1>a DEF LossExplained, OpenTxAlloc, binding, ghost, card, dma, handler
  <2>. QED  BY <2>1, <2>2, <2>3, <2>4, <2>5, <2>6, <2>7 DEF LifeInv
<1>3. CASE OpenTxRefused
  <2>1. TypeOK'
    <3>1. BindingType'
      BY <1>3, <1>a, <1>b, RungCount
         DEF TypeOK, BindingType, OpenTxRefused, binding, ghost, memory, card, dma, handler
    <3>2. OpeningType'
      BY <1>3, <1>a, <1>b
         DEF TypeOK, OpeningType, OpenTxRefused, binding, ghost, memory, card, dma, handler
    <3>3. CardType'
      BY <1>3, <1>a
         DEF TypeOK, CardType, OpenTxRefused, binding, ghost, memory, card, dma, handler
    <3>. QED  BY <3>1, <3>2, <3>3 DEF TypeOK
  <2>2. LadderInv'
    BY <1>3, <1>a DEF LadderInv, OpenTxRefused, binding, ghost, card, dma, handler
  <2>3. PhaseInv'
    BY <1>3, <1>a
       DEF PhaseInv, Starting, OpenTxRefused, binding, ghost, card, dma, handler
  <2>4. HandlerInv'
    BY <1>3, <1>a DEF HandlerInv, OpenTxRefused, binding, ghost, card, dma, handler
  <2>5. OtherCardInv'
    <3>1. leaked' = leaked + 1
      BY <1>3 DEF OpenTxRefused
    <3>2. leaked' # 0
      BY <1>b, <3>1
    <3>. QED  BY <3>2 DEF OtherCardInv
  <2>6. IrqBalance'
    BY <1>3, <1>a, <1>b DEF IrqBalance, OpenTxRefused, binding, ghost, card, dma, handler
  <2>7. LossExplained'
    BY <1>3, <1>a DEF LossExplained, OpenTxRefused, binding, ghost, card, dma, handler
  <2>. QED  BY <2>1, <2>2, <2>3, <2>4, <2>5, <2>6, <2>7 DEF LifeInv
<1>4. CASE OpenRxAlloc
  <2>1. TypeOK'
    <3>1. BindingType'
      BY <1>4, <1>a, <1>b, RungCount
         DEF TypeOK, BindingType, OpenRxAlloc, binding, ghost, memory, card, dma, handler
    <3>2. OpeningType'
      BY <1>4, <1>a, <1>b
         DEF TypeOK, OpeningType, OpenRxAlloc, binding, ghost, memory, card, dma, handler
    <3>3. CardType'
      BY <1>4, <1>a
         DEF TypeOK, CardType, OpenRxAlloc, binding, ghost, memory, card, dma, handler
    <3>. QED  BY <3>1, <3>2, <3>3 DEF TypeOK
  <2>2. LadderInv'
    BY <1>4, <1>a DEF LadderInv, OpenRxAlloc, binding, ghost, card, dma, handler
  <2>3. PhaseInv'
    BY <1>4, <1>a DEF PhaseInv, Starting, OpenRxAlloc, binding, ghost, card, dma, handler
  <2>4. HandlerInv'
    BY <1>4, <1>a DEF HandlerInv, OpenRxAlloc, binding, ghost, card, dma, handler
  <2>5. OtherCardInv'
    BY <1>4, <1>a DEF OtherCardInv, OpenRxAlloc, binding, ghost, card, dma, handler
  <2>6. IrqBalance'
    BY <1>4, <1>a, <1>b DEF IrqBalance, OpenRxAlloc, binding, ghost, card, dma, handler
  <2>7. LossExplained'
    BY <1>4, <1>a DEF LossExplained, OpenRxAlloc, binding, ghost, card, dma, handler
  <2>. QED  BY <2>1, <2>2, <2>3, <2>4, <2>5, <2>6, <2>7 DEF LifeInv
<1>5. CASE OpenRxRefused
  <2>1. TypeOK'
    <3>1. BindingType'
      BY <1>5, <1>a, <1>b, RungCount
         DEF TypeOK, BindingType, OpenRxRefused, binding, ghost, memory, card, dma, handler
    <3>2. OpeningType'
      BY <1>5, <1>a, <1>b
         DEF TypeOK, OpeningType, OpenRxRefused, binding, ghost, memory, card, dma, handler
    <3>3. CardType'
      BY <1>5, <1>a
         DEF TypeOK, CardType, OpenRxRefused, binding, ghost, memory, card, dma, handler
    <3>. QED  BY <3>1, <3>2, <3>3 DEF TypeOK
  <2>2. LadderInv'
    BY <1>5, <1>a DEF LadderInv, OpenRxRefused, binding, ghost, card, dma, handler
  <2>3. PhaseInv'
    BY <1>5, <1>a
       DEF PhaseInv, Starting, OpenRxRefused, binding, ghost, card, dma, handler
  <2>4. HandlerInv'
    BY <1>5, <1>a DEF HandlerInv, OpenRxRefused, binding, ghost, card, dma, handler
  <2>5. OtherCardInv'
    <3>1. leaked' = leaked + 1
      BY <1>5 DEF OpenRxRefused
    <3>2. leaked' # 0
      BY <1>b, <3>1
    <3>. QED  BY <3>2 DEF OtherCardInv
  <2>6. IrqBalance'
    BY <1>5, <1>a, <1>b DEF IrqBalance, OpenRxRefused, binding, ghost, card, dma, handler
  <2>7. LossExplained'
    BY <1>5, <1>a DEF LossExplained, OpenRxRefused, binding, ghost, card, dma, handler
  <2>. QED  BY <2>1, <2>2, <2>3, <2>4, <2>5, <2>6, <2>7 DEF LifeInv
<1>6. CASE OpenReset
  <2>1. TypeOK'
    <3>1. BindingType'
      BY <1>6, <1>a, <1>b, RungCount
         DEF TypeOK, BindingType, OpenReset, binding, ghost, memory, card, dma, handler
    <3>2. OpeningType'
      BY <1>6, <1>a, <1>b
         DEF TypeOK, OpeningType, OpenReset, binding, ghost, memory, card, dma, handler
    <3>3. CardType'
      BY <1>6, <1>a
         DEF TypeOK, CardType, OpenReset, binding, ghost, memory, card, dma, handler
    <3>. QED  BY <3>1, <3>2, <3>3 DEF TypeOK
  <2>2. LadderInv'
    BY <1>6, <1>a DEF LadderInv, OpenReset, binding, ghost, memory, handler, dma
  <2>3. PhaseInv'
    BY <1>6, <1>a DEF PhaseInv, Starting, OpenReset, binding, ghost, memory, handler, dma
  <2>4. HandlerInv'
    BY <1>6, <1>a DEF HandlerInv, OpenReset, binding, ghost, memory, handler, dma
  <2>5. OtherCardInv'
    BY <1>6, <1>a DEF OtherCardInv, OpenReset, binding, ghost, memory, handler, dma
  <2>6. IrqBalance'
    BY <1>6, <1>a, <1>b DEF IrqBalance, OpenReset, binding, ghost, memory, handler
  <2>7. LossExplained'
    BY <1>6, <1>a DEF LossExplained, OpenReset, binding, ghost, memory, handler
  <2>. QED  BY <2>1, <2>2, <2>3, <2>4, <2>5, <2>6, <2>7 DEF LifeInv
<1>7. CASE OpenUnmask
  <2>1. TypeOK'
    <3>1. BindingType'
      BY <1>7, <1>a, <1>b, RungCount
         DEF TypeOK, BindingType, OpenUnmask, binding, ghost, memory, card, dma, handler
    <3>2. OpeningType'
      BY <1>7, <1>a, <1>b
         DEF TypeOK, OpeningType, OpenUnmask, binding, ghost, memory, card, dma, handler
    <3>3. CardType'
      BY <1>7, <1>a
         DEF TypeOK, CardType, OpenUnmask, binding, ghost, memory, card, dma, handler
    <3>. QED  BY <3>1, <3>2, <3>3 DEF TypeOK
  <2>2. LadderInv'
    BY <1>7, <1>a DEF LadderInv, OpenUnmask, binding, ghost, memory, handler, dma
  <2>3. PhaseInv'
    BY <1>7, <1>a DEF PhaseInv, Starting, OpenUnmask, binding, ghost, memory, handler, dma
  <2>4. HandlerInv'
    BY <1>7, <1>a DEF HandlerInv, OpenUnmask, binding, ghost, memory, handler, dma
  <2>5. OtherCardInv'
    BY <1>7, <1>a DEF OtherCardInv, OpenUnmask, binding, ghost, memory, handler, dma
  <2>6. IrqBalance'
    BY <1>7, <1>a, <1>b DEF IrqBalance, OpenUnmask, binding, ghost, memory, handler
  <2>7. LossExplained'
    BY <1>7, <1>a DEF LossExplained, OpenUnmask, binding, ghost, memory, handler
  <2>. QED  BY <2>1, <2>2, <2>3, <2>4, <2>5, <2>6, <2>7 DEF LifeInv
<1>8. CASE OpenEnable
  <2>1. TypeOK'
    <3>1. BindingType'
      BY <1>8, <1>a, <1>b, RungCount
         DEF TypeOK, BindingType, OpenEnable, binding, ghost, memory, card, dma, handler
    <3>2. OpeningType'
      BY <1>8, <1>a, <1>b
         DEF TypeOK, OpeningType, OpenEnable, binding, ghost, memory, card, dma, handler
    <3>3. CardType'
      BY <1>8, <1>a
         DEF TypeOK, CardType, OpenEnable, binding, ghost, memory, card, dma, handler
    <3>. QED  BY <3>1, <3>2, <3>3 DEF TypeOK
  <2>2. LadderInv'
    BY <1>8, <1>a DEF LadderInv, OpenEnable, binding, ghost, memory, handler, dma
  <2>3. PhaseInv'
    BY <1>8, <1>a DEF PhaseInv, Starting, OpenEnable, binding, ghost, memory, handler, dma
  <2>4. HandlerInv'
    BY <1>8, <1>a DEF HandlerInv, OpenEnable, binding, ghost, memory, handler, dma
  <2>5. OtherCardInv'
    BY <1>8, <1>a DEF OtherCardInv, OpenEnable, binding, ghost, memory, handler, dma
  <2>6. IrqBalance'
    BY <1>8, <1>a, <1>b DEF IrqBalance, OpenEnable, binding, ghost, memory, handler
  <2>7. LossExplained'
    BY <1>8, <1>a DEF LossExplained, OpenEnable, binding, ghost, memory, handler
  <2>. QED  BY <2>1, <2>2, <2>3, <2>4, <2>5, <2>6, <2>7 DEF LifeInv
<1>9. CASE OpenAccept
  <2>1. TypeOK'
    <3>1. BindingType'
      BY <1>9, <1>a, <1>b, RungCount
         DEF TypeOK, BindingType, OpenAccept, binding, ghost, memory, card, dma, handler
    <3>2. OpeningType'
      BY <1>9, <1>a, <1>b
         DEF TypeOK, OpeningType, OpenAccept, binding, ghost, memory, card, dma, handler
    <3>3. CardType'
      BY <1>9, <1>a
         DEF TypeOK, CardType, OpenAccept, binding, ghost, memory, card, dma, handler
    <3>. QED  BY <3>1, <3>2, <3>3 DEF TypeOK
  <2>2. LadderInv'
    BY <1>9, <1>a DEF LadderInv, OpenAccept, binding, ghost, memory, handler, dma
  <2>3. PhaseInv'
    BY <1>9, <1>a DEF PhaseInv, Starting, OpenAccept, binding, ghost, memory, handler, dma
  <2>4. HandlerInv'
    BY <1>9, <1>a DEF HandlerInv, OpenAccept, binding, ghost, memory, handler, dma
  <2>5. OtherCardInv'
    BY <1>9, <1>a DEF OtherCardInv, OpenAccept, binding, ghost, memory, handler, dma
  <2>6. IrqBalance'
    BY <1>9, <1>a, <1>b DEF IrqBalance, OpenAccept, binding, ghost, memory, handler
  <2>7. LossExplained'
    BY <1>9, <1>a DEF LossExplained, OpenAccept, binding, ghost, memory, handler
  <2>. QED  BY <2>1, <2>2, <2>3, <2>4, <2>5, <2>6, <2>7 DEF LifeInv
<1>10. CASE OpenTsad
  <2>1. TypeOK'
    <3>1. BindingType'
      BY <1>10, <1>a, <1>b, RungCount
         DEF TypeOK, BindingType, OpenTsad, binding, ghost, memory, card, dma, handler
    <3>2. OpeningType'
      BY <1>10, <1>a, <1>b
         DEF TypeOK, OpeningType, OpenTsad, binding, ghost, memory, card, dma, handler
    <3>3. CardType'
      BY <1>10, <1>a
         DEF TypeOK, CardType, OpenTsad, binding, ghost, memory, card, dma, handler
    <3>. QED  BY <3>1, <3>2, <3>3 DEF TypeOK
  <2>2. LadderInv'
    BY <1>10, <1>a DEF LadderInv, OpenTsad, binding, ghost, memory, handler, dma
  <2>3. PhaseInv'
    BY <1>10, <1>a DEF PhaseInv, Starting, OpenTsad, binding, ghost, memory, handler, dma
  <2>4. HandlerInv'
    BY <1>10, <1>a DEF HandlerInv, OpenTsad, binding, ghost, memory, handler, dma
  <2>5. OtherCardInv'
    BY <1>10, <1>a DEF OtherCardInv, OpenTsad, binding, ghost, memory, handler, dma
  <2>6. IrqBalance'
    BY <1>10, <1>a, <1>b DEF IrqBalance, OpenTsad, binding, ghost, memory, handler
  <2>7. LossExplained'
    BY <1>10, <1>a DEF LossExplained, OpenTsad, binding, ghost, memory, handler
  <2>. QED  BY <2>1, <2>2, <2>3, <2>4, <2>5, <2>6, <2>7 DEF LifeInv
<1>11. CASE OpenRbstart
  <2>1. TypeOK'
    <3>1. BindingType'
      BY <1>11, <1>a, <1>b, RungCount
         DEF TypeOK, BindingType, OpenRbstart, binding, ghost, memory, card, dma, handler
    <3>2. OpeningType'
      BY <1>11, <1>a, <1>b
         DEF TypeOK, OpeningType, OpenRbstart, binding, ghost, memory, card, dma, handler
    <3>3. CardType'
      BY <1>11, <1>a
         DEF TypeOK, CardType, OpenRbstart, binding, ghost, memory, card, dma, handler
    <3>. QED  BY <3>1, <3>2, <3>3 DEF TypeOK
  <2>2. LadderInv'
    BY <1>11, <1>a DEF LadderInv, OpenRbstart, binding, ghost, memory, handler, dma
  <2>3. PhaseInv'
    BY <1>11, <1>a
       DEF PhaseInv, Starting, OpenRbstart, binding, ghost, memory, handler, dma
  <2>4. HandlerInv'
    BY <1>11, <1>a DEF HandlerInv, OpenRbstart, binding, ghost, memory, handler, dma
  <2>5. OtherCardInv'
    BY <1>11, <1>a DEF OtherCardInv, OpenRbstart, binding, ghost, memory, handler, dma
  <2>6. IrqBalance'
    BY <1>11, <1>a, <1>b DEF IrqBalance, OpenRbstart, binding, ghost, memory, handler
  <2>7. LossExplained'
    BY <1>11, <1>a DEF LossExplained, OpenRbstart, binding, ghost, memory, handler
  <2>. QED  BY <2>1, <2>2, <2>3, <2>4, <2>5, <2>6, <2>7 DEF LifeInv
<1>. QED  BY <1>1, <1>2, <1>3, <1>4, <1>5, <1>6, <1>7,
             <1>8, <1>9, <1>10, <1>11
          DEF Open

\* No step of stop breaks the invariant.
LEMMA StopKeeps == LifeInv /\ Stop => LifeInv'
<1>. SUFFICES ASSUME LifeInv, Stop PROVE LifeInv'
  OBVIOUS
<1>a. /\ TypeOK /\ LadderInv /\ PhaseInv /\ HandlerInv /\ OtherCardInv
      /\ IrqBalance /\ LossExplained
  BY DEF LifeInv
<1>b. handlers \in Nat /\ leaked \in Nat /\ rung \in 1..9
  BY <1>a, RungCount DEF TypeOK, BindingType, OpeningType
<1>1. CASE StopCall
  <2>1. TypeOK'
    <3>1. BindingType'
      BY <1>1, <1>a, <1>b, RungCount
         DEF TypeOK, BindingType, StopCall, binding, ghost, memory, card, dma, handler
    <3>2. OpeningType'
      BY <1>1, <1>a, <1>b
         DEF TypeOK, OpeningType, StopCall, binding, ghost, memory, card, dma, handler
    <3>3. CardType'
      BY <1>1, <1>a
         DEF TypeOK, CardType, StopCall, binding, ghost, memory, card, dma, handler
    <3>. QED  BY <3>1, <3>2, <3>3 DEF TypeOK
  <2>2. LadderInv'
    BY <1>1, <1>a DEF LadderInv, StopCall, binding, ghost, memory, card, dma, handler
  <2>3. PhaseInv'
    BY <1>1, <1>a
       DEF PhaseInv, Starting, StopCall, binding, ghost, memory, card, dma, handler
  <2>4. HandlerInv'
    BY <1>1, <1>a DEF HandlerInv, StopCall, binding, ghost, memory, card, dma, handler
  <2>5. OtherCardInv'
    BY <1>1, <1>a DEF OtherCardInv, StopCall, binding, ghost, memory, card, dma, handler
  <2>6. IrqBalance'
    BY <1>1, <1>a, <1>b
       DEF IrqBalance, StopCall, binding, ghost, memory, card, dma, handler
  <2>7. LossExplained'
    BY <1>1, <1>a DEF LossExplained, StopCall, binding, ghost, memory, card, dma, handler
  <2>. QED  BY <2>1, <2>2, <2>3, <2>4, <2>5, <2>6, <2>7 DEF LifeInv
<1>2. CASE StopChip
  <2>1. TypeOK'
    <3>1. BindingType'
      BY <1>2, <1>a, <1>b, RungCount
         DEF TypeOK, BindingType, StopChip, binding, ghost, memory, card, dma, handler
    <3>2. OpeningType'
      BY <1>2, <1>a, <1>b
         DEF TypeOK, OpeningType, StopChip, binding, ghost, memory, card, dma, handler
    <3>3. CardType'
      BY <1>2, <1>a
         DEF TypeOK, CardType, StopChip, binding, ghost, memory, card, dma, handler
    <3>. QED  BY <3>1, <3>2, <3>3 DEF TypeOK
  <2>2. LadderInv'
    BY <1>2, <1>a DEF LadderInv, StopChip, binding, ghost, memory, handler, dma
  <2>3. PhaseInv'
    BY <1>2, <1>a DEF PhaseInv, Starting, StopChip, binding, ghost, memory, handler, dma
  <2>4. HandlerInv'
    BY <1>2, <1>a DEF HandlerInv, StopChip, binding, ghost, memory, handler, dma
  <2>5. OtherCardInv'
    BY <1>2, <1>a DEF OtherCardInv, StopChip, binding, ghost, memory, handler, dma
  <2>6. IrqBalance'
    BY <1>2, <1>a, <1>b DEF IrqBalance, StopChip, binding, ghost, memory, handler
  <2>7. LossExplained'
    BY <1>2, <1>a DEF LossExplained, StopChip, binding, ghost, memory, handler
  <2>. QED  BY <2>1, <2>2, <2>3, <2>4, <2>5, <2>6, <2>7 DEF LifeInv
<1>3. CASE StopFreeIrq
  <2>1. TypeOK'
    <3>1. BindingType'
      BY <1>3, <1>a, <1>b, RungCount
         DEF TypeOK, BindingType, StopFreeIrq, binding, ghost, memory, card, dma, handler
    <3>2. OpeningType'
      <4>1. handlers' \in Nat /\ leaked' \in Nat /\ npc' = "freedma"
        BY <1>3, <1>a, <1>b DEF StopFreeIrq, IrqBalance
      <4>. QED  BY <1>3, <1>a, <4>1 DEF TypeOK, OpeningType, StopFreeIrq, memory
    <3>3. CardType'
      BY <1>3, <1>a
         DEF TypeOK, CardType, StopFreeIrq, binding, ghost, memory, card, dma, handler
    <3>. QED  BY <3>1, <3>2, <3>3 DEF TypeOK
  <2>2. LadderInv'
    BY <1>3, <1>a DEF LadderInv, StopFreeIrq, binding, ghost, memory, card, dma, handler
  <2>3. PhaseInv'
    BY <1>3, <1>a
       DEF PhaseInv, Starting, StopFreeIrq, binding, ghost, memory, card, dma, handler
  <2>4. HandlerInv'
    BY <1>3, <1>a DEF HandlerInv, StopFreeIrq, binding, ghost, memory, card, dma, handler
  <2>5. OtherCardInv'
    BY <1>3, <1>a
       DEF OtherCardInv, StopFreeIrq, binding, ghost, memory, card, dma, handler
  <2>6. IrqBalance'
    BY <1>3, <1>a, <1>b
       DEF IrqBalance, StopFreeIrq, binding, ghost, memory, card, dma, handler
  <2>7. LossExplained'
    BY <1>3, <1>a
       DEF LossExplained, StopFreeIrq, binding, ghost, memory, card, dma, handler
  <2>. QED  BY <2>1, <2>2, <2>3, <2>4, <2>5, <2>6, <2>7 DEF LifeInv
<1>4. CASE StopFreeDma
  <2>1. TypeOK'
    <3>1. BindingType'
      BY <1>4, <1>a, <1>b, RungCount
         DEF TypeOK, BindingType, StopFreeDma, binding, ghost, memory, card, dma, handler
    <3>2. OpeningType'
      BY <1>4, <1>a, <1>b
         DEF TypeOK, OpeningType, StopFreeDma, binding, ghost, memory, card, dma, handler
    <3>3. CardType'
      BY <1>4, <1>a
         DEF TypeOK, CardType, StopFreeDma, binding, ghost, memory, card, dma, handler
    <3>. QED  BY <3>1, <3>2, <3>3 DEF TypeOK
  <2>2. LadderInv'
    BY <1>4, <1>a DEF LadderInv, StopFreeDma, binding, ghost, card, dma, handler
  <2>3. PhaseInv'
    BY <1>4, <1>a DEF PhaseInv, Starting, StopFreeDma, binding, ghost, card, dma, handler
  <2>4. HandlerInv'
    BY <1>4, <1>a DEF HandlerInv, StopFreeDma, binding, ghost, card, dma, handler
  <2>5. OtherCardInv'
    BY <1>4, <1>a DEF OtherCardInv, StopFreeDma, binding, ghost, card, dma, handler
  <2>6. IrqBalance'
    BY <1>4, <1>a, <1>b DEF IrqBalance, StopFreeDma, binding, ghost, card, dma, handler
  <2>7. LossExplained'
    BY <1>4, <1>a DEF LossExplained, StopFreeDma, binding, ghost, card, dma, handler
  <2>. QED  BY <2>1, <2>2, <2>3, <2>4, <2>5, <2>6, <2>7 DEF LifeInv
<1>. QED  BY <1>1, <1>2, <1>3, <1>4 DEF Stop

\* No step of the interrupt handler breaks the invariant.
LEMMA IrqKeeps == LifeInv /\ Irq => LifeInv'
<1>. SUFFICES ASSUME LifeInv, Irq PROVE LifeInv'
  OBVIOUS
<1>a. /\ TypeOK /\ LadderInv /\ PhaseInv /\ HandlerInv /\ OtherCardInv
      /\ IrqBalance /\ LossExplained
  BY DEF LifeInv
<1>b. handlers \in Nat /\ leaked \in Nat /\ rung \in 1..9
  BY <1>a, RungCount DEF TypeOK, BindingType, OpeningType
<1>1. CASE IrqEnter
  <2>1. TypeOK'
    <3>1. BindingType'
      BY <1>1, <1>a, <1>b, RungCount
         DEF TypeOK, BindingType, IrqEnter, binding, ghost, memory, card, dma, handler
    <3>2. OpeningType'
      BY <1>1, <1>a, <1>b
         DEF TypeOK, OpeningType, IrqEnter, binding, ghost, memory, card, dma, handler
    <3>3. CardType'
      BY <1>1, <1>a
         DEF TypeOK, CardType, IrqEnter, binding, ghost, memory, card, dma, handler
    <3>. QED  BY <3>1, <3>2, <3>3 DEF TypeOK
  <2>2. LadderInv'
    BY <1>1, <1>a DEF LadderInv, IrqEnter, binding, ghost, memory, card, dma
  <2>3. PhaseInv'
    BY <1>1, <1>a DEF PhaseInv, Starting, IrqEnter, binding, ghost, memory, card, dma
  <2>4. HandlerInv'
    BY <1>1, <1>a
       DEF HandlerInv, IrqEnter, binding, ghost, memory, card, dma, PhaseInv, Starting
  <2>5. OtherCardInv'
    <3>1. handlers > 0 /\ npc' = npc /\ leaked' = leaked
      BY <1>1 DEF IrqEnter
    <3>2. leaked = 0 => npc \notin {"down", "freedma"}
      BY <1>a, <1>b, <3>1 DEF IrqBalance
    <3>. QED  BY <3>1, <3>2 DEF OtherCardInv
  <2>6. IrqBalance'
    BY <1>1, <1>a, <1>b DEF IrqBalance, IrqEnter, binding, ghost, memory, card, dma
  <2>7. LossExplained'
    BY <1>1, <1>a DEF LossExplained, IrqEnter, binding, ghost, memory, card, dma
  <2>. QED  BY <2>1, <2>2, <2>3, <2>4, <2>5, <2>6, <2>7 DEF LifeInv
<1>2. CASE IrqReadIsr
  <2>1. TypeOK'
    <3>1. BindingType'
      BY <1>2, <1>a, <1>b, RungCount
         DEF TypeOK, BindingType, IrqReadIsr, binding, ghost, memory, card, dma, handler
    <3>2. OpeningType'
      BY <1>2, <1>a, <1>b
         DEF TypeOK, OpeningType, IrqReadIsr, binding, ghost, memory, card, dma, handler
    <3>3. CardType'
      BY <1>2, <1>a
         DEF TypeOK, CardType, IrqReadIsr, binding, ghost, memory, card, dma, handler
    <3>. QED  BY <3>1, <3>2, <3>3 DEF TypeOK
  <2>2. LadderInv'
    BY <1>2, <1>a DEF LadderInv, IrqReadIsr, binding, ghost, memory, card, dma
  <2>3. PhaseInv'
    BY <1>2, <1>a DEF PhaseInv, Starting, IrqReadIsr, binding, ghost, memory, card, dma
  <2>4. HandlerInv'
    BY <1>2, <1>a DEF HandlerInv, IrqReadIsr, binding, ghost, memory, card, dma
  <2>5. OtherCardInv'
    BY <1>2, <1>a DEF OtherCardInv, IrqReadIsr, binding, ghost, memory, card, dma
  <2>6. IrqBalance'
    BY <1>2, <1>a, <1>b DEF IrqBalance, IrqReadIsr, binding, ghost, memory, card, dma
  <2>7. LossExplained'
    BY <1>2, <1>a DEF LossExplained, IrqReadIsr, binding, ghost, memory, card, dma
  <2>. QED  BY <2>1, <2>2, <2>3, <2>4, <2>5, <2>6, <2>7 DEF LifeInv
<1>3. CASE IrqReceive
  <2>1. TypeOK'
    <3>1. BindingType'
      BY <1>3, <1>a, <1>b, RungCount
         DEF TypeOK, BindingType, IrqReceive, binding, ghost, memory, card, dma, handler
    <3>2. OpeningType'
      BY <1>3, <1>a, <1>b
         DEF TypeOK, OpeningType, IrqReceive, binding, ghost, memory, card, dma, handler
    <3>3. CardType'
      BY <1>3, <1>a
         DEF TypeOK, CardType, IrqReceive, binding, ghost, memory, card, dma, handler
    <3>. QED  BY <3>1, <3>2, <3>3 DEF TypeOK
  <2>2. LadderInv'
    BY <1>3, <1>a DEF LadderInv, IrqReceive, binding, ghost, memory
  <2>3. PhaseInv'
    BY <1>3, <1>a DEF PhaseInv, Starting, IrqReceive, binding, ghost, memory, dma
  <2>4. HandlerInv'
    BY <1>3, <1>a DEF HandlerInv, IrqReceive, binding, ghost, memory
  <2>5. OtherCardInv'
    BY <1>3, <1>a DEF OtherCardInv, IrqReceive, binding, ghost, memory
  <2>6. IrqBalance'
    BY <1>3, <1>a, <1>b DEF IrqBalance, IrqReceive, binding, ghost, memory
  <2>7. LossExplained'
    BY <1>3, <1>a DEF LossExplained, IrqReceive, binding, ghost, memory
  <2>. QED  BY <2>1, <2>2, <2>3, <2>4, <2>5, <2>6, <2>7 DEF LifeInv
<1>. QED  BY <1>1, <1>2, <1>3 DEF Irq

\* Nor does a frame that arrives.
LEMMA ReceiveKeeps == LifeInv /\ ChipReceive => LifeInv'
<1>. SUFFICES ASSUME LifeInv, ChipReceive PROVE LifeInv'
  OBVIOUS
<1>a. /\ TypeOK /\ LadderInv /\ PhaseInv /\ HandlerInv /\ OtherCardInv
      /\ IrqBalance /\ LossExplained
  BY DEF LifeInv
<1>1. /\ UNCHANGED <<binding, npc, handlers, memory, chip_on, accepts, dma, imr, handler, leaked>>
      /\ frame' = TRUE
  BY DEF ChipReceive
<1>2. TypeOK'
  <2>1. BindingType'
    BY <1>1, <1>a DEF TypeOK, BindingType, binding, ghost
  <2>2. OpeningType'
    BY <1>1, <1>a DEF TypeOK, OpeningType, memory
  <2>3. CardType'
    BY <1>1, <1>a DEF TypeOK, CardType, dma, handler
  <2>. QED  BY <2>1, <2>2, <2>3 DEF TypeOK
<1>3. LadderInv' /\ LossExplained'
  BY <1>a, <1>1 DEF LadderInv, LossExplained, binding, ghost
<1>4. PhaseInv' /\ HandlerInv' /\ OtherCardInv'
  BY <1>a, <1>1
     DEF PhaseInv, Starting, HandlerInv, OtherCardInv, binding, ghost, memory, handler, dma
<1>5. IrqBalance'
  BY <1>a, <1>1 DEF IrqBalance
<1>. QED  BY <1>2, <1>3, <1>4, <1>5 DEF LifeInv

\* LifeInv is inductive.
LEMMA LifeInductive == LifeInv /\ [Next]_vars => LifeInv'
<1>. SUFFICES ASSUME LifeInv, [Next]_vars PROVE LifeInv'
  OBVIOUS
<1>1. CASE Next
  BY <1>1, ProbeKeeps, RemoveKeeps, OpenKeeps, StopKeeps, IrqKeeps, ReceiveKeeps
     DEF Next
<1>2. CASE UNCHANGED vars
  <2>1. /\ TypeOK /\ LadderInv /\ PhaseInv /\ HandlerInv /\ OtherCardInv
        /\ IrqBalance /\ LossExplained
    BY DEF LifeInv
  <2>2. TypeOK'
    <3>1. BindingType'
      BY <1>2, <2>1 DEF TypeOK, BindingType, vars, binding, ghost
    <3>2. OpeningType'
      BY <1>2, <2>1 DEF TypeOK, OpeningType, vars, memory
    <3>3. CardType'
      BY <1>2, <2>1 DEF TypeOK, CardType, vars, card, dma, handler
    <3>. QED  BY <3>1, <3>2, <3>3 DEF TypeOK
  <2>3. LadderInv' /\ LossExplained'
    BY <1>2, <2>1 DEF vars, binding, ghost, LadderInv, LossExplained
  <2>4. PhaseInv' /\ HandlerInv' /\ OtherCardInv'
    BY <1>2, <2>1
       DEF vars, binding, ghost, memory, card, dma, handler, PhaseInv, Starting, HandlerInv,
                      OtherCardInv
  <2>5. IrqBalance'
    BY <1>2, <2>1 DEF vars, IrqBalance
  <2>. QED  BY <2>2, <2>3, <2>4, <2>5 DEF LifeInv
<1>. QED  BY <1>1, <1>2

\* The invariant holds in every reachable state.
THEOREM LifeCorrect == Spec => []LifeInv
BY LifeInit, LifeInductive, PTL DEF Spec

-----------------------------------------------------------------------------

\* Every variable keeps its type.
THEOREM TypeCorrect == Spec => []TypeOK
<1>1. LifeInv => TypeOK
  BY DEF LifeInv
<1>. QED  BY <1>1, LifeCorrect, PTL

\* The chip is never enabled over DMA memory that is not there, and it holds this
\* opening's addresses but for the hardware start, where the receiver is on and its
\* filter open before RBSTART is written (pci.c:899-931, 1071, 1081, 1088-1096).
THEOREM DmaSafe == Spec => []ChipOwnsMemory
<1>1. LifeInv => ChipOwnsMemory
  BY DEF LifeInv, PhaseInv, Starting, ChipOwnsMemory, TypeOK, CardType
<1>. QED  BY <1>1, LifeCorrect, PTL

\* A handler entered for this card finds everything it touches in place
\* (pci.c:482, 497, 653, 923).
THEOREM HandlerFindsMemory == Spec => []HandlerSafe
<1>1. LifeInv => HandlerSafe
  <2>. SUFFICES ASSUME LifeInv PROVE HandlerSafe
    OBVIOUS
  <2>1. hpc # "idle" /\ (own \/ (leaked = 0 /\ "stale handler" \notin faults))
          => npc # "down"
    BY DEF LifeInv, HandlerInv, OtherCardInv
  <2>2. npc # "down" => Mapped
    BY DEF LifeInv, PhaseInv, Starting, LadderInv, Mapped, Resources
  <2>3. hpc = "receive" /\ own => rx_ring = "live"
    BY DEF LifeInv, PhaseInv, Starting, HandlerInv
  <2>. QED  BY <2>1, <2>2, <2>3 DEF HandlerSafe
<1>. QED  BY <1>1, LifeCorrect, PTL

\* The handler meets a null receive ring only when another card's interrupt
\* brings it to a stale RxOK (pci.c:653, 795, 823, 865).
THEOREM NullRingCauses == Spec => []NullRingExplained
<1>1. LifeInv => NullRingExplained
  <2>. SUFFICES ASSUME LifeInv, hpc = "receive", rx_ring = "null"
                PROVE  /\ ~own
                       /\ \/ npc \in {"txalloc", "rxalloc"} \/ leaked > 0
                          \/ "stale handler" \in faults
    BY DEF NullRingExplained
  <2>1. npc \in {"down", "txalloc", "rxalloc"}
    BY DEF LifeInv, TypeOK, OpeningType, PhaseInv, Starting
  <2>2. ~own
    BY <2>1 DEF LifeInv, HandlerInv
  <2>3. npc = "down" => leaked # 0 \/ "stale handler" \in faults
    BY DEF LifeInv, OtherCardInv
  <2>4. leaked \in Nat
    BY DEF LifeInv, TypeOK, OpeningType
  <2>5. leaked # 0 => leaked > 0
    BY <2>4
  <2>. QED  BY <2>1, <2>2, <2>3, <2>5, Zenon
<1>. QED  BY <1>1, LifeCorrect, PTL

\* A close gives back the one registration its open took, whatever opens have
\* failed before (pci.c:795, 860-867, 923).
THEOREM HandlersBalance == Spec => []IrqBalance
<1>1. LifeInv => IrqBalance
  BY DEF LifeInv
<1>. QED  BY <1>1, LifeCorrect, PTL

\* Nothing but the mapping of the registers is ever left behind, and that for
\* two reasons only; nothing is given back that was not held but the region of
\* BAR0 (pci.c:265-277, 308-311, 458-472, 1135-1146).
THEOREM NothingElseLost == Spec => []LossExplained
<1>1. LifeInv => LossExplained
  BY DEF LifeInv
<1>. QED  BY <1>1, LifeCorrect, PTL

=============================================================================
