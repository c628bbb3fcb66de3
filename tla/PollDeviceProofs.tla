-------------------------- MODULE PollDeviceProofs --------------------------
(***************************************************************************)
(* Proofs about PollDevice, for every size of the ring, every finite set   *)
(* of processes and every pattern of signals.                              *)
(***************************************************************************)
EXTENDS PollDevice, FiniteSetTheorems, TLAPS

LEMMA Params ==
  /\ N \in Nat /\ N >= 2 /\ MaxLen \in Nat /\ MaxBytes \in Nat
  /\ IsFiniteSet(Proc)
BY RingAssumption, LenAssumption, ProcAssumption

\* Where a process stands in a copy loop, the indices are inside the ring:
\* only the holder of the semaphore can have left one at N.
LEMMA IndexInside ==
  ASSUME TypeOK, SemaphoreExcludes, DataInv, NEW p \in Proc, pc[p] \in Holding
  PROVE  /\ pc[p] # "rwrap" => ir \in Slots
         /\ pc[p] # "wwrap" => iw \in Slots
<1> USE Params
<1>1. ASSUME ir = N
      PROVE  pc[p] = "rwrap"
  <2>1. PICK q \in Proc: pc[q] = "rwrap"
    BY <1>1 DEF DataInv
  <2>2. QED
    BY <2>1 DEF SemaphoreExcludes, Holding
<1>2. ASSUME iw = N
      PROVE  pc[p] = "wwrap"
  <2>1. PICK q \in Proc: pc[q] = "wwrap"
    BY <1>2 DEF DataInv
  <2>2. QED
    BY <2>1 DEF SemaphoreExcludes, Holding
<1>3. QED
  BY <1>1, <1>2 DEF TypeOK, Slots

-----------------------------------------------------------------------------
(* Type correctness                                                        *)

LEMMA TypeStep ==
  ASSUME TypeOK, NEW p \in Proc, Calls(p) \/ Interrupts(p) \/ Runs(p),
         DataInv, SemaphoreExcludes
  PROVE  TypeOK'
<1> USE Params DEF TypeOK, ring, local, ghost, Goto, Forget, Woken, Returned,
                   InRead, InWrite, InPoll, Slots, Holding, Events
<1>1. CASE Open(p)
  <2>1. ir' \in 0 .. N /\ iw' \in 0 .. N /\ use_count' \in Int /\ next' \in Nat
    BY <1>1 DEF Open
  <2>2. pc' \in [Proc -> {"closed", "user"} \cup InRead \cup InWrite \cup InPoll]
    BY <1>1 DEF Open
  <2>3. QED
    BY <1>1, <2>1, <2>2 DEF Open
<1>2. CASE Release(p)
  <2>1. pc' \in [Proc -> {"closed", "user"} \cup InRead \cup InWrite \cup InPoll]
    BY <1>2 DEF Release
  <2>2. QED
    BY <1>2, <2>1 DEF Release
<1>3. CASE ReadCall(p)
  BY <1>3 DEF ReadCall
<1>4. CASE WriteCall(p)
  BY <1>4 DEF WriteCall
<1>5. CASE PollCall(p)
  BY <1>5 DEF PollCall
<1>6. CASE ReadInterrupted(p)
  BY <1>6 DEF ReadInterrupted
<1>7. CASE ReadDownInterrupted(p)
  BY <1>7 DEF ReadDownInterrupted
<1>8. CASE WriteInterrupted(p)
  BY <1>8 DEF WriteInterrupted
<1>9. CASE WriteDownInterrupted(p)
  BY <1>9 DEF WriteDownInterrupted
<1>10. CASE PollGivesUp(p)
  BY <1>10 DEF PollGivesUp
<1>11. CASE ReadWait(p)
  BY <1>11 DEF ReadWait
<1>12. CASE ReadDown(p)
  BY <1>12 DEF ReadDown
<1>13. CASE ReadByte(p)
  <2>1. ir \in 0 .. N - 1 /\ iw \in 0 .. N - 1
    BY <1>13, IndexInside DEF ReadByte
  <2>2. ir' \in 0 .. N /\ next' \in Nat /\ last' \in Nat
    BY <1>13, <2>1 DEF ReadByte
  <2>3. i' \in [Proc -> 0..MaxLen]
    <3>1. i[p] + 1 \in 0 .. MaxLen
      BY <1>13 DEF ReadByte
    <3>2. QED
      BY <1>13, <3>1 DEF ReadByte
  <2>4. pc' \in [Proc -> {"closed", "user"} \cup InRead \cup InWrite \cup InPoll]
    BY <1>13 DEF ReadByte
  <2>5. QED
    BY <1>13, <2>2, <2>3, <2>4 DEF ReadByte
<1>14. CASE ReadWrap(p)
  BY <1>14 DEF ReadWrap
<1>15. CASE ReadUp(p)
  <2>1. pc' \in [Proc -> {"closed", "user"} \cup InRead \cup InWrite \cup InPoll]
    <3>1. \E l \in {"user", "rwake"}: pc' = [pc EXCEPT ![p] = l]
      BY <1>15 DEF ReadUp
    <3>2. QED
      BY <3>1
  <2>2. /\ len' \in [Proc -> 0..MaxLen] /\ i' \in [Proc -> 0..MaxLen]
        /\ ih' \in [Proc -> 0..N-1] /\ want' = want
    <3>1. CASE UNCHANGED local
      BY <3>1
    <3>2. CASE Forget(p)
      BY <3>2
    <3>3. QED
      BY <1>15, <3>1, <3>2 DEF ReadUp
  <2>3. QED
    BY <1>15, <2>1, <2>2 DEF ReadUp
<1>16. CASE ReadWake(p)
  <2>1. pc' \in [Proc -> {"closed", "user"} \cup InRead \cup InWrite \cup InPoll]
    BY <1>16 DEF ReadWake
  <2>2. /\ len' \in [Proc -> 0..MaxLen] /\ i' \in [Proc -> 0..MaxLen]
        /\ ih' \in [Proc -> 0..N-1] /\ want' = want
    BY <1>16 DEF ReadWake
  <2>3. QED
    BY <1>16, <2>1, <2>2 DEF ReadWake
<1>17. CASE WriteWait(p)
  BY <1>17 DEF WriteWait
<1>18. CASE WriteDown(p)
  BY <1>18 DEF WriteDown
<1>19. CASE WriteByte(p)
  <2>1. ir \in 0 .. N - 1 /\ iw \in 0 .. N - 1
    BY <1>19, IndexInside DEF WriteByte
  <2>2. iw' \in 0 .. N /\ sent' \in Nat /\ rbuf' \in [Slots -> Nat]
    BY <1>19, <2>1 DEF WriteByte
  <2>3. i' \in [Proc -> 0..MaxLen]
    <3>1. i[p] + 1 \in 0 .. MaxLen
      BY <1>19 DEF WriteByte
    <3>2. QED
      BY <1>19, <3>1 DEF WriteByte
  <2>4. pc' \in [Proc -> {"closed", "user"} \cup InRead \cup InWrite \cup InPoll]
    BY <1>19 DEF WriteByte
  <2>5. QED
    BY <1>19, <2>2, <2>3, <2>4 DEF WriteByte
<1>20. CASE WriteWrap(p)
  BY <1>20 DEF WriteWrap
<1>21. CASE WriteUp(p)
  <2>1. pc' \in [Proc -> {"closed", "user"} \cup InRead \cup InWrite \cup InPoll]
    <3>1. \E l \in {"user", "wwake"}: pc' = [pc EXCEPT ![p] = l]
      BY <1>21 DEF WriteUp
    <3>2. QED
      BY <3>1
  <2>2. /\ len' \in [Proc -> 0..MaxLen] /\ i' \in [Proc -> 0..MaxLen]
        /\ ih' \in [Proc -> 0..N-1] /\ want' = want
    <3>1. CASE UNCHANGED local
      BY <3>1
    <3>2. CASE Forget(p)
      BY <3>2
    <3>3. QED
      BY <1>21, <3>1, <3>2 DEF WriteUp
  <2>3. QED
    BY <1>21, <2>1, <2>2 DEF WriteUp
<1>22. CASE WriteWake(p)
  <2>1. pc' \in [Proc -> {"closed", "user"} \cup InRead \cup InWrite \cup InPoll]
    BY <1>22 DEF WriteWake
  <2>2. /\ len' \in [Proc -> 0..MaxLen] /\ i' \in [Proc -> 0..MaxLen]
        /\ ih' \in [Proc -> 0..N-1] /\ want' = want
    BY <1>22 DEF WriteWake
  <2>3. QED
    BY <1>22, <2>1, <2>2 DEF WriteWake
<1>23. CASE Poll(p)
  BY <1>23 DEF Poll, PollTestIn, PollTestOut, PollTestAgain, PollLeaves
<1>24. QED
  BY <1>1, <1>2, <1>3, <1>4, <1>5, <1>6, <1>7, <1>8, <1>9, <1>10, <1>11,
     <1>12, <1>13, <1>14, <1>15, <1>16, <1>17, <1>18, <1>19, <1>20, <1>21,
     <1>22, <1>23
     DEF Calls, Interrupts, Runs, Read, Write

-----------------------------------------------------------------------------
(* Mutual exclusion                                                        *)

LEMMA SemaStep ==
  ASSUME TypeOK, SemaphoreExcludes, NEW p \in Proc,
         Calls(p) \/ Interrupts(p) \/ Runs(p)
  PROVE  SemaphoreExcludes'
<1> USE DEF TypeOK, SemaphoreExcludes, Goto, Forget, Woken, Returned, Holding
<1>1. CASE Open(p)
  BY <1>1 DEF Open
<1>2. CASE Release(p)
  BY <1>2 DEF Release
<1>3. CASE ReadCall(p)
  BY <1>3 DEF ReadCall
<1>4. CASE WriteCall(p)
  BY <1>4 DEF WriteCall
<1>5. CASE PollCall(p)
  BY <1>5 DEF PollCall
<1>6. CASE ReadInterrupted(p)
  BY <1>6 DEF ReadInterrupted
<1>7. CASE ReadDownInterrupted(p)
  BY <1>7 DEF ReadDownInterrupted
<1>8. CASE WriteInterrupted(p)
  BY <1>8 DEF WriteInterrupted
<1>9. CASE WriteDownInterrupted(p)
  BY <1>9 DEF WriteDownInterrupted
<1>10. CASE PollGivesUp(p)
  BY <1>10 DEF PollGivesUp
<1>11. CASE ReadWait(p)
  BY <1>11 DEF ReadWait
<1>12. CASE ReadDown(p)
  BY <1>12 DEF ReadDown
<1>13. CASE ReadByte(p)
  BY <1>13 DEF ReadByte
<1>14. CASE ReadWrap(p)
  BY <1>14 DEF ReadWrap
<1>15. CASE ReadUp(p)
  BY <1>15 DEF ReadUp
<1>16. CASE ReadWake(p)
  BY <1>16 DEF ReadWake
<1>17. CASE WriteWait(p)
  BY <1>17 DEF WriteWait
<1>18. CASE WriteDown(p)
  BY <1>18 DEF WriteDown
<1>19. CASE WriteByte(p)
  BY <1>19 DEF WriteByte
<1>20. CASE WriteWrap(p)
  BY <1>20 DEF WriteWrap
<1>21. CASE WriteUp(p)
  BY <1>21 DEF WriteUp
<1>22. CASE WriteWake(p)
  BY <1>22 DEF WriteWake
<1>23. CASE Poll(p)
  BY <1>23 DEF Poll, PollTestIn, PollTestOut, PollTestAgain, PollLeaves
<1>24. QED
  BY <1>1, <1>2, <1>3, <1>4, <1>5, <1>6, <1>7, <1>8, <1>9, <1>10, <1>11,
     <1>12, <1>13, <1>14, <1>15, <1>16, <1>17, <1>18, <1>19, <1>20, <1>21,
     <1>22, <1>23
     DEF Calls, Interrupts, Runs, Read, Write

-----------------------------------------------------------------------------
(* The count of open files                                                 *)

\* Only open and release change who has the device open.
LEMMA OpenedKept ==
  ASSUME TypeOK, NEW p \in Proc, Calls(p) \/ Interrupts(p) \/ Runs(p),
         ~Open(p), ~Release(p)
  PROVE  Opened' = Opened /\ UNCHANGED use_count
<1> USE DEF TypeOK, Goto
<1>1. CASE ReadCall(p) \/ WriteCall(p) \/ PollCall(p)
  BY <1>1 DEF Opened, ReadCall, WriteCall, PollCall
<1>2. CASE Interrupts(p)
  BY <1>2 DEF Opened, Interrupts, ReadInterrupted, ReadDownInterrupted,
              WriteInterrupted, WriteDownInterrupted, PollGivesUp
<1>3. CASE ReadWait(p) \/ ReadDown(p) \/ ReadByte(p) \/ ReadWrap(p) \/ ReadUp(p)
  BY <1>3 DEF Opened, ReadWait, ReadDown, ReadByte, ReadWrap, ReadUp
<1>4. CASE WriteWait(p) \/ WriteDown(p) \/ WriteByte(p) \/ WriteWrap(p) \/ WriteUp(p)
  BY <1>4 DEF Opened, WriteWait, WriteDown, WriteByte, WriteWrap, WriteUp
<1>5. CASE ReadWake(p) \/ WriteWake(p)
  BY <1>5 DEF Opened, ReadWake, WriteWake, Woken, Returned
<1>6. CASE Poll(p)
  BY <1>6 DEF Opened, Poll, PollTestIn, PollTestOut, PollTestAgain, PollLeaves
<1>7. QED
  BY <1>1, <1>2, <1>3, <1>4, <1>5, <1>6 DEF Calls, Runs, Read, Write

LEMMA OpenedByOpen ==
  ASSUME TypeOK, NEW p \in Proc, Open(p)
  PROVE  Opened' = Opened \cup {p} /\ p \notin Opened
BY DEF TypeOK, Goto, Open, Opened

LEMMA OpenedByRelease ==
  ASSUME TypeOK, NEW p \in Proc, Release(p)
  PROVE  Opened' = Opened \ {p} /\ p \in Opened
BY DEF TypeOK, Goto, Release, Opened

LEMMA OpenedCount ==
  ASSUME UseCountExact
  PROVE  IsFiniteSet(Opened) /\ (use_count = 0 <=> Opened = {})
<1>1. IsFiniteSet(Opened)
  BY Params, FS_Subset DEF Opened
<1>2. QED
  BY <1>1, FS_EmptySet DEF UseCountExact

LEMMA UseStep ==
  ASSUME TypeOK, UseCountExact, NEW p \in Proc,
         Calls(p) \/ Interrupts(p) \/ Runs(p)
  PROVE  UseCountExact'
<1>1. IsFiniteSet(Opened) /\ use_count = Cardinality(Opened)
  BY OpenedCount DEF UseCountExact
<1>2. CASE Open(p)
  <2>1. Opened' = Opened \cup {p} /\ p \notin Opened
    BY <1>2, OpenedByOpen
  <2>2. Cardinality(Opened \cup {p}) = Cardinality(Opened) + 1
    BY <1>1, <2>1, FS_AddElement
  <2>3. QED
    BY <1>1, <1>2, <2>1, <2>2 DEF Open, UseCountExact
<1>3. CASE Release(p)
  <2>1. Opened' = Opened \ {p} /\ p \in Opened
    BY <1>3, OpenedByRelease
  <2>2. Cardinality(Opened \ {p}) = Cardinality(Opened) - 1
    BY <1>1, <2>1, FS_RemoveElement
  <2>3. QED
    BY <1>1, <1>3, <2>1, <2>2 DEF Release, UseCountExact
<1>4. CASE ~Open(p) /\ ~Release(p)
  <2>1. Opened' = Opened /\ use_count' = use_count
    BY <1>4, OpenedKept
  <2>2. QED
    BY <1>1, <2>1 DEF UseCountExact
<1>5. QED
  BY <1>2, <1>3, <1>4

-----------------------------------------------------------------------------
(* The content of the ring                                                 *)

\* Steps that leave the ring alone, and neither enter nor leave a copy loop in
\* a way the invariant sees.
LEMMA DataFrame ==
  ASSUME TypeOK, DataInv,
         UNCHANGED <<ring, sent, next, ih>>,
         \A q \in Proc: /\ pc'[q] = "rwrap" <=> pc[q] = "rwrap"
                        /\ pc'[q] = "wwrap" <=> pc[q] = "wwrap"
                        /\ pc'[q] = "wloop" => pc[q] = "wloop"
                        /\ i'[q] <= len'[q]
                        /\ pc'[q] \notin Holding \cup {"rwake", "wwake"} => i'[q] = 0
  PROVE  DataInv'
<1>1. Count' = Count
  BY DEF Count
<1>2. QED
  BY <1>1 DEF DataInv, ring

\* A process alone on a semaphore keeps every other out of the copy loops.
LEMMA Alone ==
  ASSUME SemaphoreExcludes, NEW p \in Proc, pc[p] \in Holding,
         NEW q \in Proc, q # p
  PROVE  pc[q] \notin Holding
BY DEF SemaphoreExcludes

\* Two different indices inside the ring mean that there is data; a write
\* index that has not reached the slot before the read index, that there is
\* room.
LEMMA Indices ==
  ASSUME TypeOK, DataInv, ir \in Slots, iw \in Slots
  PROVE  /\ iw = Wrap(ir + Count)
         /\ ir = Wrap(ir)
         /\ ir # iw <=> Count > 0
         /\ iw # Wrap(ir + N - 1) <=> Count < N - 1
BY Params DEF TypeOK, DataInv, Count, Wrap, Slots

\* What the end of a call does to the locals.
LEMMA Forgotten ==
  ASSUME TypeOK, DataInv, NEW p \in Proc, Forget(p), NEW q \in Proc
  PROVE  /\ i'[q] <= len'[q]
         /\ i'[q] = IF q = p THEN 0 ELSE i[q]
         /\ q # p => ih'[q] = ih[q]
BY DEF TypeOK, DataInv, Forget

\* A process outside the copy loops ends its call.
LEMMA DataEnd ==
  ASSUME TypeOK, DataInv, NEW p \in Proc, Forget(p),
         UNCHANGED <<ring, sent, next>>,
         pc[p] \notin {"rwrap", "wwrap"},
         pc'[p] \notin Holding,
         \A q \in Proc: q # p => /\ pc'[q] \in Holding <=> pc[q] \in Holding
                                 /\ pc'[q] \in Holding => pc'[q] = pc[q]
                                 /\ pc'[q] \in {"rwake", "wwake"}
                                      <=> pc[q] \in {"rwake", "wwake"}
  PROVE  DataInv'
<1>1. \A q \in Proc: /\ pc'[q] = "rwrap" <=> pc[q] = "rwrap"
                     /\ pc'[q] = "wwrap" <=> pc[q] = "wwrap"
  BY DEF Holding
<1>2. \A q \in Proc: /\ i'[q] <= len'[q]
                     /\ pc'[q] \notin Holding \cup {"rwake", "wwake"} => i'[q] = 0
  BY Forgotten DEF DataInv
<1>3. \A q \in Proc: pc'[q] \in {"wloop", "wwrap"}
                       => pc[q] \in {"wloop", "wwrap"} /\ ih'[q] = ih[q]
  BY Forgotten DEF Holding
<1>4. Count' = Count
  BY DEF Count
<1>5. QED
  BY <1>1, <1>2, <1>3, <1>4 DEF DataInv, ring

LEMMA DataInterrupted ==
  ASSUME TypeOK, DataInv, NEW p \in Proc, pc[p] \in {"rdown", "wdown"},
         Goto(p, "user"), Forget(p), UNCHANGED <<ring, use_count, sema, ghost>>
  PROVE  DataInv'
<1>1. pc'[p] = "user" /\ \A q \in Proc: q # p => pc'[q] = pc[q]
  BY DEF TypeOK, Goto
<1>2. QED
  BY <1>1, DataEnd DEF Holding, ghost

LEMMA DataUp ==
  ASSUME TypeOK, DataInv, NEW p \in Proc, pc[p] \in {"rloop", "wloop"},
         \/ \E w \in {"rwake", "wwake"}: Goto(p, w) /\ UNCHANGED local
         \/ Goto(p, "user") /\ Forget(p),
         UNCHANGED <<ring, ghost>>
  PROVE  DataInv'
<1>1. \A q \in Proc: q # p => pc'[q] = pc[q]
  BY DEF TypeOK, Goto
<1>2. CASE Goto(p, "user") /\ Forget(p)
  <2>1. pc'[p] = "user"
    BY <1>2 DEF TypeOK, Goto
  <2>2. QED
    BY <1>1, <1>2, <2>1, DataEnd DEF Holding, ghost
<1>3. CASE \E w \in {"rwake", "wwake"}: Goto(p, w) /\ UNCHANGED local
  <2>1. pc'[p] \in {"rwake", "wwake"} /\ UNCHANGED <<i, len, ih>>
    BY <1>3 DEF TypeOK, Goto, local
  <2>2. \A q \in Proc: /\ i'[q] <= len'[q]
                       /\ pc'[q] \notin Holding \cup {"rwake", "wwake"} => i'[q] = 0
    BY <1>1, <2>1 DEF DataInv
  <2>3. QED
    BY <1>1, <2>1, <2>2, DataFrame DEF ghost
<1>4. QED
  BY <1>2, <1>3

LEMMA DataWake ==
  ASSUME TypeOK, DataInv, NEW p \in Proc, pc[p] \in {"rwake", "wwake"}, Forget(p),
         \/ pc' = Woken(Returned(p), "wsleep", "wwait")
         \/ pc' = Woken(Returned(p), "rsleep", "rwait"),
         UNCHANGED <<ring, use_count, sema, ghost>>
  PROVE  DataInv'
<1>1. pc'[p] = "user"
  BY DEF Woken, Returned, TypeOK
<1>2. \A q \in Proc: q # p => \/ pc'[q] = pc[q]
                              \/ /\ pc[q] \in {"wsleep", "rsleep", "psleep", "pout"}
                                 /\ pc'[q] \in {"wwait", "rwait", "pin", "pmiss"}
  BY DEF Woken, Returned, TypeOK
<1>3. QED
  BY <1>1, <1>2, DataEnd DEF Holding, ghost

LEMMA DataStep ==
  ASSUME TypeOK, TypeOK', SemaphoreExcludes, UseCountExact, DataInv,
         NEW p \in Proc, Calls(p) \/ Interrupts(p) \/ Runs(p)
  PROVE  DataInv'
<1> USE Params DEF Goto
<1>0. \A q \in Proc:
        /\ i[q] \in Nat /\ len[q] \in Nat /\ i[q] <= len[q]
        /\ pc[q] \notin Holding \cup {"rwake", "wwake"} => i[q] = 0
  BY DEF TypeOK, DataInv
<1>1. CASE Open(p)
  <2>1. CASE use_count = 0
    <3>1. \A q \in Proc: pc[q] = "closed"
      <4>1. Opened = {}
        <5>1. IsFiniteSet(Opened) /\ Cardinality(Opened) = 0
          BY <2>1, FS_Subset DEF Opened, UseCountExact
        <5>2. QED
          BY <5>1, FS_EmptySet
      <4>2. QED
        BY <4>1 DEF Opened
    <3>2. Count' = 0 /\ ir' = 0 /\ iw' = 0
      BY <1>1, <2>1 DEF Open, Count, TypeOK
    <3>3. \A q \in Proc: pc'[q] \in {"closed", "user"} /\ UNCHANGED <<i, len>>
      BY <1>1, <3>1 DEF Open, TypeOK, local
    <3>4. QED
      BY <1>0, <3>1, <3>2, <3>3 DEF DataInv, Wrap, Holding
  <2>2. CASE use_count # 0
    <3>1. UNCHANGED <<ring, sent, next, ih, i, len>>
      BY <1>1, <2>2 DEF Open, ring, local
    <3>2. \A q \in Proc: q # p => pc'[q] = pc[q]
      BY <1>1 DEF Open, TypeOK
    <3>3. pc[p] = "closed" /\ pc'[p] = "user"
      BY <1>1 DEF Open, TypeOK
    <3>4. QED
      BY <1>0, <3>1, <3>2, <3>3, DataFrame DEF Holding
  <2>3. QED
    BY <2>1, <2>2
<1>2. CASE Release(p)
  BY <1>0, <1>2, DataFrame DEF Release, TypeOK, Holding, local, ghost
<1>3. CASE ReadCall(p)
  BY <1>0, <1>3, DataFrame DEF ReadCall, TypeOK, Holding, ghost
<1>4. CASE WriteCall(p)
  BY <1>0, <1>4, DataFrame DEF WriteCall, TypeOK, Holding
<1>5. CASE PollCall(p)
  BY <1>0, <1>5, DataFrame DEF PollCall, TypeOK, Holding, ghost
<1>6. CASE ReadInterrupted(p)
  BY <1>0, <1>6, DataFrame DEF ReadInterrupted, TypeOK, Holding, local, ghost
<1>7. CASE ReadDownInterrupted(p)
  BY <1>0, <1>7, DataInterrupted DEF ReadDownInterrupted
<1>8. CASE WriteInterrupted(p)
  BY <1>0, <1>8, DataFrame DEF WriteInterrupted, TypeOK, Holding, local, ghost
<1>9. CASE WriteDownInterrupted(p)
  BY <1>0, <1>9, DataInterrupted DEF WriteDownInterrupted
<1>10. CASE PollGivesUp(p)
  BY <1>0, <1>10, DataFrame DEF PollGivesUp, TypeOK, Holding, ghost
<1>11. CASE ReadWait(p)
  BY <1>0, <1>11, DataFrame DEF ReadWait, TypeOK, Holding, local, ghost
<1>12. CASE ReadDown(p)
  BY <1>0, <1>12, DataFrame DEF ReadDown, TypeOK, Holding, local, ghost
<1>13. CASE ReadByte(p)
  <2>1. /\ pc[p] = "rloop" /\ ir # iw
        /\ ir' = ir + 1 /\ next' = next + 1 /\ UNCHANGED <<rbuf, iw, sent, ih, len>>
        /\ i' = [i EXCEPT ![p] = i[p] + 1] /\ i[p] < len[p]
        /\ pc' = [pc EXCEPT ![p] = IF ir + 1 = N THEN "rwrap" ELSE "rloop"]
    BY <1>13 DEF ReadByte, TypeOK
  <2>2. /\ ir \in Slots /\ iw \in Slots /\ Count > 0 /\ iw = Wrap(ir + Count)
        /\ Count \in Nat /\ ir \in Nat /\ iw \in Nat
    <3>1. ir \in Slots /\ iw \in Slots
      BY <2>1, IndexInside DEF Holding
    <3>2. Count > 0 /\ iw = Wrap(ir + Count)
      BY <2>1, <3>1, Indices
    <3>3. Count \in Int /\ ir \in Nat /\ iw \in Nat
      BY <3>1 DEF Slots, Count, TypeOK
    <3>4. QED
      BY <3>1, <3>2, <3>3
  <2>3. Count' = Count - 1
    BY <2>1 DEF TypeOK, Count
  <2>4. Wrap(iw') = Wrap(Wrap(ir') + Count')
    BY <2>1, <2>2, <2>3 DEF DataInv, Wrap, Slots
  <2>5. ASSUME NEW k \in 0 .. Count' - 1
        PROVE  rbuf'[Wrap(Wrap(ir') + k)] = next' + k
    <3>1. k + 1 \in 0 .. Count - 1
      BY <2>2, <2>3
    <3>2. rbuf[Wrap(Wrap(ir) + (k + 1))] = next + (k + 1)
      BY <3>1 DEF DataInv
    <3>3. Wrap(Wrap(ir) + (k + 1)) = Wrap(Wrap(ir') + k)
      BY <2>1, <2>2, <2>3 DEF DataInv, Wrap, Slots
    <3>4. QED
      BY <2>1, <3>2, <3>3 DEF TypeOK
  <2>6. \A q \in Proc: q # p => pc'[q] = pc[q] /\ pc[q] \notin Holding
    BY <2>1, Alone DEF TypeOK, Holding
  <2>7. pc'[p] = IF ir + 1 = N THEN "rwrap" ELSE "rloop"
    BY <2>1 DEF TypeOK
  <2>8. /\ ir' = N <=> \E q \in Proc: pc'[q] = "rwrap"
        /\ iw' = N <=> \E q \in Proc: pc'[q] = "wwrap"
    BY <2>1, <2>2, <2>6, <2>7 DEF Slots, Holding
  <2>9. \A q \in Proc: pc'[q] \notin {"wloop", "wwrap"}
    BY <2>6, <2>7 DEF Holding
  <2>10. \A q \in Proc:
           /\ i'[q] <= len'[q]
           /\ pc'[q] \notin Holding \cup {"rwake", "wwake"} => i'[q] = 0
    BY <1>0, <2>1, <2>6, <2>7 DEF TypeOK, Holding
  <2>11. 0 <= Count' /\ Count' <= N - 1
    BY <2>2, <2>3 DEF DataInv
  <2>12. QED
    BY <2>4, <2>5, <2>8, <2>9, <2>10, <2>11 DEF DataInv
<1>14. CASE ReadWrap(p)
  <2>1. /\ pc[p] = "rwrap" /\ ir' = 0 /\ pc' = [pc EXCEPT ![p] = "rloop"]
        /\ UNCHANGED <<rbuf, iw, sent, next, ih, len, i>>
    BY <1>14 DEF ReadWrap, local, ghost
  <2>2. ir = N /\ Wrap(ir') = Wrap(ir) /\ Count' = Count
    BY <2>1 DEF DataInv, Wrap, Count
  <2>3. \A q \in Proc: q # p => pc'[q] = pc[q] /\ pc[q] \notin Holding
    BY <2>1, Alone DEF TypeOK, Holding
  <2>4. pc'[p] = "rloop"
    BY <2>1 DEF TypeOK
  <2>5. ir' # N /\ \A q \in Proc: pc'[q] \notin {"rwrap", "wwrap", "wloop"}
    BY <2>1, <2>3, <2>4 DEF Holding
  <2>6. iw' # N
    BY <2>1, IndexInside DEF Holding, Slots
  <2>7. QED
    BY <1>0, <2>1, <2>2, <2>3, <2>4, <2>5, <2>6 DEF DataInv, Holding
<1>15. CASE ReadUp(p)
  BY <1>15, DataUp DEF ReadUp
<1>16. CASE ReadWake(p)
  BY <1>16, DataWake DEF ReadWake
<1>17. CASE WriteWait(p)
  BY <1>0, <1>17, DataFrame DEF WriteWait, TypeOK, Holding, local, ghost
<1>18. CASE WriteDown(p)
  <2>1. /\ sema = 1 /\ pc[p] = "wdown" /\ pc' = [pc EXCEPT ![p] = "wloop"]
        /\ ih' = [ih EXCEPT ![p] = IF ir - 1 < 0 THEN ir - 1 + N ELSE ir - 1]
        /\ UNCHANGED <<ring, sent, next, i, len>>
    BY <1>18 DEF WriteDown, ghost
  <2>2. \A q \in Proc: pc[q] \notin Holding
    BY <2>1 DEF SemaphoreExcludes
  <2>3. ir # N /\ iw # N
    BY <2>2 DEF DataInv, Holding
  <2>4. ih'[p] = Wrap(ir + N - 1)
    BY <2>1, <2>3 DEF TypeOK, Wrap
  <2>5. \A q \in Proc: q # p => pc'[q] = pc[q]
    BY <2>1 DEF TypeOK
  <2>6. pc'[p] = "wloop" /\ Count' = Count
    BY <2>1 DEF TypeOK, Count
  <2>7. QED
    BY <1>0, <2>1, <2>2, <2>3, <2>4, <2>5, <2>6 DEF DataInv, Holding, ring
<1>19. CASE WriteByte(p)
  <2>1. /\ pc[p] = "wloop" /\ iw # ih[p]
        /\ rbuf' = [rbuf EXCEPT ![iw] = sent] /\ sent' = sent + 1
        /\ iw' = iw + 1 /\ UNCHANGED <<ir, next, ih, len>>
        /\ i' = [i EXCEPT ![p] = i[p] + 1] /\ i[p] < len[p]
        /\ pc' = [pc EXCEPT ![p] = IF iw + 1 = N THEN "wwrap" ELSE "wloop"]
    BY <1>19 DEF WriteByte, TypeOK
  <2>2. /\ ir \in Slots /\ iw \in Slots /\ Count < N - 1 /\ iw = Wrap(ir + Count)
        /\ Count \in Nat /\ ir \in Nat /\ iw \in Nat /\ Wrap(ir) = ir
    <3>1. ih[p] = Wrap(ir + N - 1)
      BY <2>1 DEF DataInv
    <3>2. ir \in Slots /\ iw \in Slots
      BY <2>1, IndexInside DEF Holding
    <3>3. Count < N - 1 /\ iw = Wrap(ir + Count) /\ Wrap(ir) = ir
      BY <2>1, <3>1, <3>2, Indices
    <3>4. Count \in Nat /\ ir \in Nat /\ iw \in Nat
      BY <3>2 DEF Slots, Count, TypeOK, DataInv
    <3>5. QED
      BY <3>2, <3>3, <3>4
  <2>3. Count' = Count + 1 /\ sent = next + Count
    BY <2>1 DEF TypeOK, Count
  <2>4. Wrap(iw') = Wrap(Wrap(ir') + Count')
    BY <2>1, <2>2, <2>3 DEF Wrap, Slots
  <2>5. ASSUME NEW k \in 0 .. Count' - 1
        PROVE  rbuf'[Wrap(Wrap(ir') + k)] = next' + k
    <3>1. CASE k = Count
      BY <2>1, <2>2, <2>3, <3>1 DEF TypeOK
    <3>2. CASE k # Count
      <4>1. k \in 0 .. Count - 1
        BY <2>2, <2>3, <3>2
      <4>2. Wrap(ir + k) # iw /\ Wrap(ir + k) \in Slots
        BY <2>2, <4>1 DEF Wrap, Slots
      <4>3. rbuf[Wrap(ir + k)] = next + k
        BY <2>2, <4>1 DEF DataInv
      <4>4. QED
        BY <2>1, <2>2, <4>2, <4>3 DEF TypeOK
    <3>3. QED
      BY <3>1, <3>2
  <2>6. \A q \in Proc: q # p => pc'[q] = pc[q] /\ pc[q] \notin Holding
    BY <2>1, Alone DEF TypeOK, Holding
  <2>7. pc'[p] = IF iw + 1 = N THEN "wwrap" ELSE "wloop"
    BY <2>1 DEF TypeOK
  <2>8. /\ ir' = N <=> \E q \in Proc: pc'[q] = "rwrap"
        /\ iw' = N <=> \E q \in Proc: pc'[q] = "wwrap"
    BY <2>1, <2>2, <2>6, <2>7 DEF Slots, Holding
  <2>9. \A q \in Proc: pc'[q] \in {"wloop", "wwrap"} => ih'[q] = Wrap(ir' + N - 1)
    BY <2>1, <2>6, <2>7 DEF Holding, DataInv
  <2>10. \A q \in Proc:
           /\ i'[q] <= len'[q]
           /\ pc'[q] \notin Holding \cup {"rwake", "wwake"} => i'[q] = 0
    BY <1>0, <2>1, <2>6, <2>7 DEF TypeOK, Holding
  <2>11. 0 <= Count' /\ Count' <= N - 1
    BY <2>2, <2>3
  <2>12. QED
    BY <2>4, <2>5, <2>8, <2>9, <2>10, <2>11 DEF DataInv
<1>20. CASE WriteWrap(p)
  <2>1. /\ pc[p] = "wwrap" /\ iw' = 0 /\ pc' = [pc EXCEPT ![p] = "wloop"]
        /\ UNCHANGED <<rbuf, ir, sent, next, ih, len, i>>
    BY <1>20 DEF WriteWrap, local, ghost
  <2>2. iw = N /\ Wrap(iw') = Wrap(iw) /\ Count' = Count
    BY <2>1 DEF DataInv, Wrap, Count
  <2>3. \A q \in Proc: q # p => pc'[q] = pc[q] /\ pc[q] \notin Holding
    BY <2>1, Alone DEF TypeOK, Holding
  <2>4. pc'[p] = "wloop"
    BY <2>1 DEF TypeOK
  <2>5. iw' # N /\ \A q \in Proc: pc'[q] \notin {"rwrap", "wwrap"}
    BY <2>1, <2>3, <2>4 DEF Holding
  <2>6. ir' # N
    BY <2>1, IndexInside DEF Holding, Slots
  <2>7. QED
    BY <1>0, <2>1, <2>2, <2>3, <2>4, <2>5, <2>6 DEF DataInv, Holding
<1>21. CASE WriteUp(p)
  BY <1>21, DataUp DEF WriteUp
<1>22. CASE WriteWake(p)
  BY <1>22, DataWake DEF WriteWake
<1>23. CASE Poll(p)
  <2>1. CASE PollTestIn(p)
    BY <1>0, <2>1, DataFrame DEF PollTestIn, PollLeaves, TypeOK, Holding, ghost
  <2>2. CASE PollTestOut(p)
    BY <1>0, <2>2, DataFrame DEF PollTestOut, PollLeaves, TypeOK, Holding, ghost
  <2>3. CASE PollTestAgain(p)
    BY <1>0, <2>3, DataFrame DEF PollTestAgain, PollLeaves, TypeOK, Holding, ghost
  <2>4. QED
    BY <1>23, <2>1, <2>2, <2>3 DEF Poll
<1>24. QED
  BY <1>1, <1>2, <1>3, <1>4, <1>5, <1>6, <1>7, <1>8, <1>9, <1>10, <1>11,
     <1>12, <1>13, <1>14, <1>15, <1>16, <1>17, <1>18, <1>19, <1>20, <1>21,
     <1>22, <1>23
     DEF Calls, Interrupts, Runs, Read, Write

-----------------------------------------------------------------------------
(* No lost wakeups                                                         *)

SleepsIn(p)  == AsleepFor(p, "rsleep", "POLLIN")
SleepsOut(p) == AsleepFor(p, "wsleep", "POLLOUT")
WakesIn(q)   == Waker(q, "wloop", "wwrap", "wwake")
WakesOut(q)  == Waker(q, "rloop", "rwrap", "rwake")

WakeIn  == Count > 0 /\ (\E p \in Proc: SleepsIn(p)) => \E q \in Proc: WakesIn(q)
WakeOut == Count < N - 1 /\ (\E p \in Proc: SleepsOut(p))
             => \E q \in Proc: WakesOut(q)

LEMMA WakeSplit == NoLostWakeup <=> WakeIn /\ WakeOut
BY DEF NoLostWakeup, WakeIn, WakeOut, SleepsIn, SleepsOut, WakesIn, WakesOut

\* The tests outside the semaphore never err on the sleeping side: a ring that
\* looks empty is empty, one that looks full is full.
LEMMA TestsAreSafe ==
  ASSUME TypeOK, DataInv
  PROVE  /\ is_buffer_empty => Count = 0
         /\ is_buffer_full => Count = N - 1
<1> USE Params DEF TypeOK, DataInv, Wrap, Count
<1>1. is_buffer_empty => Count = 0
  BY DEF is_buffer_empty
<1>2. is_buffer_full => Count = N - 1
  BY DEF is_buffer_full
<1>3. QED
  BY <1>1, <1>2

\* A step that puts nobody to sleep and takes no waker away.
LEMMA FrameIn ==
  ASSUME WakeIn, Count' > 0 => Count > 0,
         \A q \in Proc: (SleepsIn(q)' => SleepsIn(q)) /\ (WakesIn(q) => WakesIn(q)')
  PROVE  WakeIn'
BY DEF WakeIn

LEMMA FrameOut ==
  ASSUME WakeOut, Count' < N - 1 => Count < N - 1,
         \A q \in Proc: (SleepsOut(q)' => SleepsOut(q)) /\ (WakesOut(q) => WakesOut(q)')
  PROVE  WakeOut'
BY DEF WakeOut

\* Moving one process between places that are neither asleep nor waking.
LEMMA FrameBoth ==
  ASSUME TypeOK, WakeIn, WakeOut, NEW p \in Proc, UNCHANGED <<sent, next>>,
         pc'[p] \notin {"rsleep", "wsleep", "psleep", "pout"},
         pc[p] \notin {"rwake", "wwake"},
         pc[p] \in Holding => i[p] = 0,
         \A q \in Proc: q # p => pc'[q] = pc[q] /\ i'[q] = i[q] /\ want'[q] = want[q]
  PROVE  WakeIn' /\ WakeOut'
<1>1. Count' = Count
  BY DEF Count
<1>2. \A q \in Proc: /\ SleepsIn(q)' => SleepsIn(q)
                     /\ SleepsOut(q)' => SleepsOut(q)
                     /\ WakesIn(q) => WakesIn(q)'
                     /\ WakesOut(q) => WakesOut(q)'
  <2> SUFFICES ASSUME NEW q \in Proc
               PROVE  /\ SleepsIn(q)' => SleepsIn(q)
                      /\ SleepsOut(q)' => SleepsOut(q)
                      /\ WakesIn(q) => WakesIn(q)'
                      /\ WakesOut(q) => WakesOut(q)'
    OBVIOUS
  <2>1. CASE q = p
    BY <2>1 DEF SleepsIn, SleepsOut, WakesIn, WakesOut, AsleepFor, Waker, Holding
  <2>2. CASE q # p
    BY <2>2 DEF SleepsIn, SleepsOut, WakesIn, WakesOut, AsleepFor, Waker
  <2>3. QED
    BY <2>1, <2>2
<1>3. QED
  BY <1>1, <1>2, FrameIn, FrameOut

LEMMA WakeStep ==
  ASSUME TypeOK, TypeOK', SemaphoreExcludes, UseCountExact, DataInv,
         WakeIn, WakeOut,
         NEW p \in Proc, Calls(p) \/ Interrupts(p) \/ Runs(p)
  PROVE  WakeIn' /\ WakeOut'
<1> USE Params DEF Goto
<1>0. \A q \in Proc: i[q] \in Nat /\ (pc[q] \notin Holding \cup {"rwake", "wwake"} => i[q] = 0)
  BY DEF TypeOK, DataInv
<1>01. Count \in Int /\ Count' \in Int
  BY DEF Count, TypeOK
<1>1. CASE Open(p)
  <2>1. CASE use_count = 0
    <3>1. Opened = {}
      <4>1. IsFiniteSet(Opened) /\ Cardinality(Opened) = 0
        BY <2>1, FS_Subset DEF Opened, UseCountExact
      <4>2. QED
        BY <4>1, FS_EmptySet
    <3>2. \A q \in Proc: pc'[q] \in {"closed", "user"}
      BY <1>1, <3>1 DEF Open, Opened, TypeOK
    <3>3. QED
      BY <3>2 DEF WakeIn, WakeOut, SleepsIn, SleepsOut, AsleepFor
  <2>2. CASE use_count # 0
    BY <1>1, <2>2, FrameBoth DEF Open, TypeOK, local, Holding
  <2>3. QED
    BY <2>1, <2>2
<1>2. CASE Release(p)
  BY <1>2, FrameBoth DEF Release, TypeOK, Holding, local, ghost
<1>3. CASE ReadCall(p)
  BY <1>3, FrameBoth DEF ReadCall, TypeOK, Holding, ghost
<1>4. CASE WriteCall(p)
  BY <1>4, FrameBoth DEF WriteCall, TypeOK, Holding
<1>5. CASE PollCall(p)
  BY <1>5, FrameBoth DEF PollCall, TypeOK, Holding, ghost
<1>6. CASE ReadInterrupted(p)
  BY <1>6, FrameBoth DEF ReadInterrupted, TypeOK, Holding, local, ghost
<1>7. CASE ReadDownInterrupted(p)
  BY <1>7, FrameBoth DEF ReadDownInterrupted, TypeOK, Holding, Forget, ghost
<1>8. CASE WriteInterrupted(p)
  BY <1>8, FrameBoth DEF WriteInterrupted, TypeOK, Holding, local, ghost
<1>9. CASE WriteDownInterrupted(p)
  BY <1>9, FrameBoth DEF WriteDownInterrupted, TypeOK, Holding, Forget, ghost
<1>10. CASE PollGivesUp(p)
  BY <1>10, FrameBoth DEF PollGivesUp, TypeOK, Holding, ghost
<1>11. CASE ReadWait(p)
  <2>1. CASE is_buffer_empty
    <3>1. Count = 0 /\ Count' = Count
      BY <1>11, <2>1, TestsAreSafe DEF ReadWait, Count, ghost
    <3>2. \A q \in Proc: SleepsOut(q)' => SleepsOut(q)
      BY <1>11 DEF ReadWait, SleepsOut, AsleepFor, TypeOK, local
    <3>3. \A q \in Proc: WakesOut(q) => WakesOut(q)'
      BY <1>11 DEF ReadWait, WakesOut, Waker, TypeOK, local
    <3>4. WakeOut'
      BY <3>1, <3>2, <3>3, FrameOut
    <3>5. QED
      BY <3>1, <3>4 DEF WakeIn
  <2>2. CASE ~is_buffer_empty
    BY <1>11, <2>2, FrameBoth DEF ReadWait, TypeOK, Holding, local, ghost
  <2>3. QED
    BY <2>1, <2>2
<1>12. CASE ReadDown(p)
  BY <1>12, FrameBoth DEF ReadDown, TypeOK, Holding, local, ghost
<1>13. CASE ReadByte(p)
  <2>1. /\ pc[p] = "rloop" /\ pc'[p] \in {"rloop", "rwrap"} /\ i'[p] > 0
        /\ \A q \in Proc: q # p => pc'[q] = pc[q] /\ i'[q] = i[q]
        /\ want' = want
    BY <1>0, <1>13 DEF ReadByte, TypeOK
  <2>2. Count' = Count - 1
    BY <1>13 DEF ReadByte, Count, TypeOK
  <2>3. WakeOut'
    BY <2>1 DEF WakeOut, WakesOut, Waker
  <2>4. \A q \in Proc: SleepsIn(q)' => SleepsIn(q)
    BY <2>1 DEF SleepsIn, AsleepFor
  <2>5. \A q \in Proc: WakesIn(q) => WakesIn(q)'
    BY <2>1 DEF WakesIn, Waker
  <2>6. Count' > 0 => Count > 0
    BY <1>01, <2>2
  <2>7. QED
    BY <2>3, <2>4, <2>5, <2>6, FrameIn
<1>14. CASE ReadWrap(p)
  <2>1. /\ pc[p] = "rwrap" /\ pc'[p] = "rloop"
        /\ \A q \in Proc: q # p => pc'[q] = pc[q]
        /\ UNCHANGED <<i, want, sent, next>>
    BY <1>14 DEF ReadWrap, TypeOK, local, ghost
  <2>2. \A q \in Proc: /\ SleepsIn(q)' => SleepsIn(q)
                       /\ SleepsOut(q)' => SleepsOut(q)
    BY <2>1 DEF SleepsIn, SleepsOut, AsleepFor
  <2>3. \A q \in Proc: /\ WakesIn(q) => WakesIn(q)'
                       /\ WakesOut(q) => WakesOut(q)'
    BY <2>1 DEF WakesIn, WakesOut, Waker
  <2>4. Count' = Count
    BY <2>1 DEF Count
  <2>5. QED
    BY <2>2, <2>3, <2>4, FrameIn, FrameOut
<1>15. CASE ReadUp(p)
  <2>1. CASE i[p] = 0
    BY <1>15, <2>1, FrameBoth DEF ReadUp, Forget, TypeOK, Holding, ghost
  <2>2. CASE i[p] # 0
    <3>1. /\ pc[p] = "rloop" /\ pc'[p] = "rwake"
          /\ \A q \in Proc: q # p => pc'[q] = pc[q]
          /\ UNCHANGED <<i, want, sent, next>>
      BY <1>0, <1>15, <2>2 DEF ReadUp, TypeOK, local, ghost
    <3>2. \A q \in Proc: /\ SleepsIn(q)' => SleepsIn(q)
                         /\ SleepsOut(q)' => SleepsOut(q)
      BY <3>1 DEF SleepsIn, SleepsOut, AsleepFor
    <3>3. \A q \in Proc: /\ WakesIn(q) => WakesIn(q)'
                         /\ WakesOut(q) => WakesOut(q)'
      BY <3>1 DEF WakesIn, WakesOut, Waker
    <3>4. Count' = Count
      BY <3>1 DEF Count
    <3>5. QED
      BY <3>2, <3>3, <3>4, FrameIn, FrameOut
  <2>3. QED
    BY <2>1, <2>2
<1>16. CASE ReadWake(p)
  <2>1. \A q \in Proc: /\ pc'[q] \notin {"wsleep", "psleep", "pout"}
                       /\ pc'[q] = "rsleep" => pc[q] = "rsleep"
    BY <1>16 DEF ReadWake, Woken, Returned, TypeOK
  <2>2. WakeOut'
    BY <2>1 DEF WakeOut, SleepsOut, AsleepFor
  <2>3. \A q \in Proc: SleepsIn(q)' => SleepsIn(q)
    BY <2>1 DEF SleepsIn, AsleepFor
  <2>4. ASSUME NEW q \in Proc, WakesIn(q)
        PROVE  WakesIn(q)'
    <3>1. q # p /\ pc[q] \in {"wloop", "wwrap", "wwake"}
      BY <1>16, <2>4 DEF ReadWake, WakesIn, Waker
    <3>2. pc'[q] = pc[q] /\ i'[q] = i[q]
      BY <1>16, <3>1 DEF ReadWake, Woken, Returned, Forget, TypeOK
    <3>3. QED
      BY <2>4, <3>2 DEF WakesIn, Waker
  <2>5. Count' = Count
    BY <1>16 DEF ReadWake, Count, ghost
  <2>6. QED
    BY <2>2, <2>3, <2>4, <2>5, FrameIn
<1>17. CASE WriteWait(p)
  <2>1. CASE is_buffer_full
    <3>1. Count = N - 1 /\ Count' = Count
      BY <1>17, <2>1, TestsAreSafe DEF WriteWait, Count, ghost
    <3>2. \A q \in Proc: SleepsIn(q)' => SleepsIn(q)
      BY <1>17 DEF WriteWait, SleepsIn, AsleepFor, TypeOK, local
    <3>3. \A q \in Proc: WakesIn(q) => WakesIn(q)'
      BY <1>17 DEF WriteWait, WakesIn, Waker, TypeOK, local
    <3>4. WakeIn'
      BY <3>1, <3>2, <3>3, FrameIn
    <3>5. QED
      BY <3>1, <3>4 DEF WakeOut
  <2>2. CASE ~is_buffer_full
    BY <1>17, <2>2, FrameBoth DEF WriteWait, TypeOK, Holding, local, ghost
  <2>3. QED
    BY <2>1, <2>2
<1>18. CASE WriteDown(p)
  BY <1>18, FrameBoth DEF WriteDown, TypeOK, Holding, ghost
<1>19. CASE WriteByte(p)
  <2>1. /\ pc[p] = "wloop" /\ pc'[p] \in {"wloop", "wwrap"} /\ i'[p] > 0
        /\ \A q \in Proc: q # p => pc'[q] = pc[q] /\ i'[q] = i[q]
        /\ want' = want
    BY <1>0, <1>19 DEF WriteByte, TypeOK
  <2>2. Count' = Count + 1
    BY <1>19 DEF WriteByte, Count, TypeOK
  <2>3. WakeIn'
    BY <2>1 DEF WakeIn, WakesIn, Waker
  <2>4. \A q \in Proc: SleepsOut(q)' => SleepsOut(q)
    BY <2>1 DEF SleepsOut, AsleepFor
  <2>5. \A q \in Proc: WakesOut(q) => WakesOut(q)'
    BY <2>1 DEF WakesOut, Waker
  <2>6. Count' < N - 1 => Count < N - 1
    BY <1>01, <2>2
  <2>7. QED
    BY <2>3, <2>4, <2>5, <2>6, FrameOut
<1>20. CASE WriteWrap(p)
  <2>1. /\ pc[p] = "wwrap" /\ pc'[p] = "wloop"
        /\ \A q \in Proc: q # p => pc'[q] = pc[q]
        /\ UNCHANGED <<i, want, sent, next>>
    BY <1>20 DEF WriteWrap, TypeOK, local, ghost
  <2>2. \A q \in Proc: /\ SleepsIn(q)' => SleepsIn(q)
                       /\ SleepsOut(q)' => SleepsOut(q)
    BY <2>1 DEF SleepsIn, SleepsOut, AsleepFor
  <2>3. \A q \in Proc: /\ WakesIn(q) => WakesIn(q)'
                       /\ WakesOut(q) => WakesOut(q)'
    BY <2>1 DEF WakesIn, WakesOut, Waker
  <2>4. Count' = Count
    BY <2>1 DEF Count
  <2>5. QED
    BY <2>2, <2>3, <2>4, FrameIn, FrameOut
<1>21. CASE WriteUp(p)
  <2>1. CASE i[p] = 0
    BY <1>21, <2>1, FrameBoth DEF WriteUp, Forget, TypeOK, Holding, ghost
  <2>2. CASE i[p] # 0
    <3>1. /\ pc[p] = "wloop" /\ pc'[p] = "wwake"
          /\ \A q \in Proc: q # p => pc'[q] = pc[q]
          /\ UNCHANGED <<i, want, sent, next>>
      BY <1>0, <1>21, <2>2 DEF WriteUp, TypeOK, local, ghost
    <3>2. \A q \in Proc: /\ SleepsIn(q)' => SleepsIn(q)
                         /\ SleepsOut(q)' => SleepsOut(q)
      BY <3>1 DEF SleepsIn, SleepsOut, AsleepFor
    <3>3. \A q \in Proc: /\ WakesIn(q) => WakesIn(q)'
                         /\ WakesOut(q) => WakesOut(q)'
      BY <3>1 DEF WakesIn, WakesOut, Waker
    <3>4. Count' = Count
      BY <3>1 DEF Count
    <3>5. QED
      BY <3>2, <3>3, <3>4, FrameIn, FrameOut
  <2>3. QED
    BY <2>1, <2>2
<1>22. CASE WriteWake(p)
  <2>1. \A q \in Proc: /\ pc'[q] \notin {"rsleep", "psleep", "pout"}
                       /\ pc'[q] = "wsleep" => pc[q] = "wsleep"
    BY <1>22 DEF WriteWake, Woken, Returned, TypeOK
  <2>2. WakeIn'
    BY <2>1 DEF WakeIn, SleepsIn, AsleepFor
  <2>3. \A q \in Proc: SleepsOut(q)' => SleepsOut(q)
    BY <2>1 DEF SleepsOut, AsleepFor
  <2>4. ASSUME NEW q \in Proc, WakesOut(q)
        PROVE  WakesOut(q)'
    <3>1. q # p /\ pc[q] \in {"rloop", "rwrap", "rwake"}
      BY <1>22, <2>4 DEF WriteWake, WakesOut, Waker
    <3>2. pc'[q] = pc[q] /\ i'[q] = i[q]
      BY <1>22, <3>1 DEF WriteWake, Woken, Returned, Forget, TypeOK
    <3>3. QED
      BY <2>4, <3>2 DEF WakesOut, Waker
  <2>5. Count' = Count
    BY <1>22 DEF WriteWake, Count, ghost
  <2>6. QED
    BY <2>2, <2>3, <2>4, <2>5, FrameOut
<1>23. CASE Poll(p)
  <2>1. CASE PollTestIn(p)
    <3>1. CASE pc'[p] = "pout"
      <4>1. /\ pc[p] = "pin" /\ \A q \in Proc: q # p => pc'[q] = pc[q]
            /\ UNCHANGED <<i, want, sent, next>>
            /\ "POLLIN" \in want[p] => is_buffer_empty
        BY <2>1, <3>1 DEF PollTestIn, PollLeaves, TypeOK, ghost
      <4>2. Count' = Count
        BY <4>1 DEF Count
      <4>3. \A q \in Proc: /\ WakesIn(q) => WakesIn(q)'
                           /\ WakesOut(q) => WakesOut(q)'
                           /\ SleepsOut(q)' => SleepsOut(q)
                           /\ q # p => (SleepsIn(q)' => SleepsIn(q))
        BY <3>1, <4>1 DEF WakesIn, WakesOut, Waker, SleepsIn, SleepsOut, AsleepFor
      <4>4. WakeOut'
        BY <4>2, <4>3, FrameOut
      <4>5. CASE "POLLIN" \in want[p]
        <5>1. Count = 0
          BY <4>1, <4>5, TestsAreSafe
        <5>2. QED
          BY <4>2, <4>4, <5>1 DEF WakeIn
      <4>6. CASE "POLLIN" \notin want[p]
        <5>1. ~SleepsIn(p)'
          BY <3>1, <4>1, <4>6 DEF SleepsIn, AsleepFor
        <5>2. QED
          BY <4>2, <4>3, <4>4, <5>1, FrameIn
      <4>7. QED
        BY <4>5, <4>6
    <3>2. CASE pc'[p] # "pout"
      BY <2>1, <3>2, FrameBoth DEF PollTestIn, PollLeaves, TypeOK, Holding, ghost
    <3>3. QED
      BY <3>1, <3>2
  <2>2. CASE PollTestOut(p)
    <3>1. CASE pc'[p] = "psleep"
      <4>1. /\ pc[p] = "pout" /\ \A q \in Proc: q # p => pc'[q] = pc[q]
            /\ UNCHANGED <<i, want, sent, next>>
            /\ "POLLOUT" \in want[p] => is_buffer_full
        BY <2>2, <3>1 DEF PollTestOut, PollLeaves, TypeOK, ghost
      <4>2. Count' = Count
        BY <4>1 DEF Count
      <4>3. \A q \in Proc: /\ WakesIn(q) => WakesIn(q)'
                           /\ WakesOut(q) => WakesOut(q)'
                           /\ SleepsIn(q)' => SleepsIn(q)
                           /\ q # p => (SleepsOut(q)' => SleepsOut(q))
        BY <3>1, <4>1 DEF WakesIn, WakesOut, Waker, SleepsIn, SleepsOut, AsleepFor
      <4>4. WakeIn'
        BY <4>2, <4>3, FrameIn
      <4>5. CASE "POLLOUT" \in want[p]
        <5>1. Count = N - 1
          BY <4>1, <4>5, TestsAreSafe
        <5>2. QED
          BY <4>2, <4>4, <5>1 DEF WakeOut
      <4>6. CASE "POLLOUT" \notin want[p]
        <5>1. ~SleepsOut(p)'
          BY <3>1, <4>1, <4>6 DEF SleepsOut, AsleepFor
        <5>2. QED
          BY <4>2, <4>3, <4>4, <5>1, FrameOut
      <4>7. QED
        BY <4>5, <4>6
    <3>2. CASE pc'[p] # "psleep"
      BY <2>2, <3>2, FrameBoth DEF PollTestOut, PollLeaves, TypeOK, Holding, ghost
    <3>3. QED
      BY <3>1, <3>2
  <2>3. CASE PollTestAgain(p)
    BY <2>3, FrameBoth DEF PollTestAgain, PollLeaves, TypeOK, Holding, ghost
  <2>4. QED
    BY <1>23, <2>1, <2>2, <2>3 DEF Poll
<1>24. QED
  BY <1>1, <1>2, <1>3, <1>4, <1>5, <1>6, <1>7, <1>8, <1>9, <1>10, <1>11,
     <1>12, <1>13, <1>14, <1>15, <1>16, <1>17, <1>18, <1>19, <1>20, <1>21,
     <1>22, <1>23
     DEF Calls, Interrupts, Runs, Read, Write

-----------------------------------------------------------------------------
(* The invariant                                                           *)

LEMMA InitInv == Init => IInv
<1> SUFFICES ASSUME Init
             PROVE  IInv
  OBVIOUS
<1> USE Params DEF Init
<1>1. TypeOK
  BY DEF TypeOK, NoByte, Slots, Events
<1>2. SemaphoreExcludes
  BY DEF SemaphoreExcludes, Holding
<1>3. UseCountExact
  <2>1. {p \in Proc: pc[p] # "closed"} = {}
    OBVIOUS
  <2>2. QED
    BY <2>1, FS_EmptySet DEF UseCountExact, Opened
<1>4. DataInv
  BY DEF DataInv, Count, Wrap, Holding
<1>5. NoLostWakeup
  BY DEF NoLostWakeup, AsleepFor
<1>6. QED
  BY <1>1, <1>2, <1>3, <1>4, <1>5 DEF IInv

LEMMA StepInv == IInv /\ [Next]_vars => IInv'
<1> SUFFICES ASSUME IInv, [Next]_vars
             PROVE  IInv'
  OBVIOUS
<1>1. TypeOK /\ SemaphoreExcludes /\ UseCountExact /\ DataInv /\ NoLostWakeup
  BY DEF IInv
<1>2. ASSUME NEW p \in Proc, Calls(p) \/ Interrupts(p) \/ Runs(p)
      PROVE  IInv'
  <2>1. TypeOK'
    BY <1>1, <1>2, TypeStep
  <2>2. SemaphoreExcludes'
    BY <1>1, <1>2, SemaStep
  <2>3. UseCountExact'
    BY <1>1, <1>2, UseStep
  <2>4. DataInv'
    BY <1>1, <1>2, <2>1, DataStep
  <2>5. WakeIn /\ WakeOut
    BY <1>1, WakeSplit
  <2>6. WakeIn' /\ WakeOut'
    BY <1>1, <1>2, <2>1, <2>5, WakeStep
  <2>7. NoLostWakeup'
    BY <2>6 DEF NoLostWakeup, WakeIn, WakeOut, SleepsIn, SleepsOut, WakesIn, WakesOut
  <2>8. QED
    BY <2>1, <2>2, <2>3, <2>4, <2>7 DEF IInv
<1>3. CASE UNCHANGED vars
  <2> USE <1>1, <1>3 DEF vars, ring, local, ghost
  <2>1. TypeOK'
    BY DEF TypeOK
  <2>2. SemaphoreExcludes'
    BY DEF SemaphoreExcludes
  <2>3. UseCountExact'
    BY DEF UseCountExact, Opened
  <2>4. DataInv'
    BY DEF DataInv, Count
  <2>5. NoLostWakeup'
    BY DEF NoLostWakeup, Count, AsleepFor, Waker
  <2>6. QED
    BY <2>1, <2>2, <2>3, <2>4, <2>5 DEF IInv
<1>4. QED
  BY <1>2, <1>3 DEF Next

LEMMA Invariant == Spec => []IInv
BY InitInv, StepInv, PTL DEF Spec

-----------------------------------------------------------------------------
(* Theorems                                                                *)

\* Every variable keeps its type: no index leaves the ring (poll.c:119-121,
\* 182-184).
THEOREM TypeCorrect == Spec => []TypeOK
<1>1. IInv => TypeOK
  BY DEF IInv
<1>2. QED
  BY <1>1, Invariant, PTL

\* At most one process is in a copy loop, whatever signals arrive, and the
\* semaphore is free whenever none is (poll.c:113, 127, 172, 190).
THEOREM MutualExclusion == Spec => []SemaphoreExcludes
<1>1. IInv => SemaphoreExcludes
  BY DEF IInv
<1>2. QED
  BY <1>1, Invariant, PTL

\* use_count counts the open files, so the ring is emptied only by the open
\* that finds no other user (poll.c:201-207, 217-219).
THEOREM OpenCountExact == Spec => []UseCountExact
<1>1. IInv => UseCountExact
  BY DEF IInv
<1>2. QED
  BY <1>1, Invariant, PTL

\* Whoever sleeps although it could go on has its waker on the way, for reads,
\* writes and polls (poll.c:111, 130, 170, 193).
THEOREM NoLostWakeups == Spec => []NoLostWakeup
<1>1. IInv => NoLostWakeup
  BY DEF IInv
<1>2. QED
  BY <1>1, Invariant, PTL

\* A full ring that is_buffer_full does not see is one whose write index has
\* wrapped below the read index.
LEMMA FullIsSeen ==
  ASSUME TypeOK, DataInv, ~is_buffer_full
  PROVE  Count < N - 1 \/ iw < ir
<1> USE Params
<1> SUFFICES ASSUME Count = N - 1, iw >= ir
             PROVE  FALSE
  BY DEF TypeOK, DataInv, Count
<1>1. ir \in 0..N /\ iw \in 0..N /\ Wrap(iw) = Wrap(Wrap(ir) + (N - 1))
  BY DEF TypeOK, DataInv
<1>2. iw > ir /\ iw - ir + 1 = N
  BY <1>1 DEF Wrap
<1>3. QED
  BY <1>2 DEF is_buffer_full

\* Only its own test takes a writer from the wait to the semaphore.
LEMMA PassesByTest ==
  ASSUME TypeOK, NEW q \in Proc, Calls(q) \/ Interrupts(q) \/ Runs(q),
         NEW p \in Proc, pc[p] = "wwait", pc'[p] = "wdown"
  PROVE  ~is_buffer_full
<1>1. pc \in [Proc -> {"closed", "user"} \cup InRead \cup InWrite \cup InPoll]
  BY DEF TypeOK
<1> USE <1>1 DEF Goto
<1>2. ~Calls(q)
  <2>1. ~Open(q) /\ ~Release(q)
    BY DEF Open, Release
  <2>2. ~ReadCall(q) /\ ~WriteCall(q) /\ ~PollCall(q)
    BY DEF ReadCall, WriteCall, PollCall
  <2>3. QED
    BY <2>1, <2>2 DEF Calls
<1>3. ~Interrupts(q)
  BY DEF Interrupts, ReadInterrupted, ReadDownInterrupted, WriteInterrupted,
         WriteDownInterrupted, PollGivesUp, Woken, Forget
<1>4. ~Read(q)
  BY DEF Read, ReadWait, ReadDown, ReadByte, ReadWrap, ReadUp, ReadWake, Woken,
         Returned, Forget
<1>5. ~Poll(q)
  BY DEF Poll, PollTestIn, PollTestOut, PollTestAgain, PollLeaves
<1>6. CASE Write(q)
  <2>1. CASE WriteWait(q)
    BY <2>1 DEF WriteWait
  <2>2. ~(WriteDown(q) \/ WriteByte(q) \/ WriteWrap(q) \/ WriteUp(q) \/ WriteWake(q))
    BY DEF WriteDown, WriteByte, WriteWrap, WriteUp, WriteWake, Woken, Returned, Forget
  <2>3. QED
    BY <1>6, <2>1, <2>2 DEF Write
<1>7. QED
  BY <1>2, <1>3, <1>4, <1>5, <1>6 DEF Runs

\* No writer passes its wait on a full ring, unless a signal ends the wait or
\* the ring is full in the form is_buffer_full misses (poll.c:48-53, 170).
THEOREM WritersSleep == Spec => WriterSleepsWhenFull
<1> DEFINE Sleeps == \A p \in Proc: pc[p] = "wwait" /\ pc'[p] = "wdown"
                       => Count < N - 1 \/ iw < ir
<1>1. IInv /\ [Next]_vars => [Sleeps]_vars
  <2> SUFFICES ASSUME IInv, Next, NEW p \in Proc, pc[p] = "wwait", pc'[p] = "wdown"
               PROVE  Count < N - 1 \/ iw < ir
    OBVIOUS
  <2>1. PICK q \in Proc: Calls(q) \/ Interrupts(q) \/ Runs(q)
    BY DEF Next
  <2>2. TypeOK /\ DataInv
    BY DEF IInv
  <2>3. ~is_buffer_full
    BY <2>1, <2>2, PassesByTest
  <2>4. QED
    BY <2>2, <2>3, FullIsSeen
<1>2. QED
  BY <1>1, Invariant, PTL DEF Spec, WriterSleepsWhenFull

-----------------------------------------------------------------------------
(* The device is a queue of bytes                                          *)

LEMMA QueueInit == Init => Queue!Init
BY DEF Init, Queue!Init, Opened

LEMMA QueueStep == IInv /\ [Next]_vars => [Queue!Next]_(Queue!vars)
<1> SUFFICES ASSUME IInv, [Next]_vars
             PROVE  [Queue!Next]_(Queue!vars)
  OBVIOUS
<1> USE Params DEF Queue!vars
<1>1. TypeOK /\ SemaphoreExcludes /\ DataInv /\ UseCountExact
  BY DEF IInv
<1>0. ASSUME NEW p \in Proc, Calls(p) \/ Interrupts(p) \/ Runs(p),
             ~Open(p), ~Release(p)
      PROVE  Opened' = Opened
  BY <1>0, <1>1, OpenedKept
<1>2. ASSUME NEW p \in Proc, ReadByte(p)
      PROVE  Queue!Get
  <2>1. ir \in Slots /\ iw \in Slots
    BY <1>1, <1>2, IndexInside DEF ReadByte, Holding
  <2>2. Count > 0 /\ Wrap(ir) = ir
    BY <1>1, <1>2, <2>1, Indices DEF ReadByte
  <2>3. 0 \in 0 .. Count - 1
    BY <1>1, <2>2 DEF Count, TypeOK
  <2>4. rbuf[Wrap(Wrap(ir) + 0)] = next + 0
    BY <1>1, <2>3 DEF DataInv
  <2>5. rbuf[ir] = next
    BY <1>1, <2>2, <2>4 DEF TypeOK
  <2>6. next < sent
    BY <1>1, <2>2 DEF Count, TypeOK
  <2>7. Opened' = Opened /\ Opened # {}
    <3>1. ~Open(p) /\ ~Release(p) /\ pc[p] # "closed"
      BY <1>2 DEF ReadByte, Open, Release
    <3>2. QED
      BY <1>0, <1>2, <3>1 DEF Runs, Read, Opened
  <2>8. QED
    BY <1>2, <2>5, <2>6, <2>7 DEF ReadByte, Queue!Get
<1>3. ASSUME NEW p \in Proc, WriteByte(p)
      PROVE  Queue!Put
  <2>1. ir \in Slots /\ iw \in Slots
    BY <1>1, <1>3, IndexInside DEF WriteByte, Holding
  <2>2. ih[p] = Wrap(ir + N - 1)
    BY <1>1, <1>3 DEF WriteByte, DataInv
  <2>3. Count < N - 1
    BY <1>1, <1>3, <2>1, <2>2, Indices DEF WriteByte
  <2>4. Opened' = Opened /\ Opened # {}
    <3>1. ~Open(p) /\ ~Release(p) /\ pc[p] # "closed"
      BY <1>3 DEF WriteByte, Open, Release
    <3>2. QED
      BY <1>0, <1>3, <3>1 DEF Runs, Write, Opened
  <2>5. QED
    BY <1>3, <2>3, <2>4 DEF WriteByte, Queue!Put, Count
<1>4. ASSUME NEW p \in Proc, Open(p)
      PROVE  Queue!Open(p)
  <2>1. Opened' = Opened \cup {p} /\ p \notin Opened
    BY <1>1, <1>4, OpenedByOpen
  <2>2. use_count = 0 <=> Opened = {}
    BY <1>1, OpenedCount
  <2>3. next' = (IF Opened = {} THEN sent ELSE next) /\ sent' = sent /\ last' = last
    BY <1>4, <2>2 DEF Open
  <2>4. QED
    BY <2>1, <2>3 DEF Queue!Open
<1>5. ASSUME NEW p \in Proc, Release(p)
      PROVE  Queue!Close(p)
  <2>1. Opened' = Opened \ {p} /\ p \in Opened
    BY <1>1, <1>5, OpenedByRelease
  <2>2. UNCHANGED <<sent, next, last>>
    BY <1>5 DEF Release, ghost
  <2>3. QED
    BY <2>1, <2>2 DEF Queue!Close
<1>6. ASSUME NEW p \in Proc, ReadCall(p) \/ PollCall(p)
      PROVE  UNCHANGED <<sent, next, last>>
  BY <1>6 DEF ReadCall, PollCall, ghost
<1>7. ASSUME NEW p \in Proc, WriteCall(p)
      PROVE  UNCHANGED <<sent, next, last>>
  BY <1>7 DEF WriteCall
<1>8. ASSUME NEW p \in Proc, Interrupts(p)
      PROVE  UNCHANGED <<sent, next, last>>
  BY <1>8 DEF Interrupts, ReadInterrupted, ReadDownInterrupted, WriteInterrupted,
              WriteDownInterrupted, PollGivesUp, ghost
<1>9. ASSUME NEW p \in Proc, ReadWait(p) \/ ReadDown(p) \/ ReadWrap(p)
                              \/ ReadUp(p) \/ ReadWake(p)
      PROVE  UNCHANGED <<sent, next, last>>
  BY <1>9 DEF ReadWait, ReadDown, ReadWrap, ReadUp, ReadWake, ghost
<1>10. ASSUME NEW p \in Proc, WriteWait(p) \/ WriteDown(p) \/ WriteWrap(p)
                              \/ WriteUp(p) \/ WriteWake(p)
      PROVE  UNCHANGED <<sent, next, last>>
  BY <1>10 DEF WriteWait, WriteDown, WriteWrap, WriteUp, WriteWake, ghost
<1>11. ASSUME NEW p \in Proc, Poll(p)
       PROVE  UNCHANGED <<sent, next, last>>
  BY <1>11 DEF Poll, PollTestIn, PollTestOut, PollTestAgain, ghost
<1>12. CASE UNCHANGED vars
  BY <1>12 DEF vars, ghost, Opened
<1>13. CASE Next
  <2>1. PICK p \in Proc: Calls(p) \/ Interrupts(p) \/ Runs(p)
    BY <1>13 DEF Next
  <2>2. CASE Open(p) \/ Release(p)
    BY <2>2, <1>4, <1>5 DEF Queue!Next
  <2>3. CASE ReadByte(p) \/ WriteByte(p)
    BY <2>3, <1>2, <1>3 DEF Queue!Next
  <2>4. CASE ~Open(p) /\ ~Release(p) /\ ~ReadByte(p) /\ ~WriteByte(p)
    <3>1. UNCHANGED <<sent, next, last>>
      BY <2>1, <2>4, <1>6, <1>7, <1>8, <1>9, <1>10, <1>11
         DEF Calls, Runs, Read, Write
    <3>2. Opened' = Opened
      BY <2>1, <2>4, <1>0
    <3>3. QED
      BY <3>1, <3>2
  <2>5. QED
    BY <2>2, <2>3, <2>4
<1>14. QED
  BY <1>12, <1>13

\* Bytes come out of the device once each and in the order they went in, none
\* is overwritten before it is read, and only the open that finds no user
\* discards any, for any number of readers and writers.
THEOREM QueueRefinement == Spec => RefinesByteQueue
<1>1. Init => Queue!Init
  BY QueueInit
<1>2. IInv /\ [Next]_vars => [Queue!Next]_(Queue!vars)
  BY QueueStep
<1>3. QED
  BY <1>1, <1>2, Invariant, PTL DEF Spec, RefinesByteQueue, Queue!Spec

-----------------------------------------------------------------------------
(* What keeps the device going.                                            *)

LEMMA InvGoesOn == IInv => NeverStuck
<1> SUFFICES ASSUME IInv
             PROVE  NeverStuck
  OBVIOUS
<1>1. TypeOK /\ SemaphoreExcludes /\ DataInv
  BY DEF IInv
<1>2. ASSUME NEW p \in Proc, Busy(p)
      PROVE  CanGoOn(p) /\ StepsLeft(p) > 0
  <2>1. i[p] \in Nat /\ len[p] \in Nat /\ i[p] <= len[p]
    BY <1>1, LenAssumption DEF TypeOK, DataInv
  <2>2. i[p] < len[p] \/ i[p] = len[p]
    BY <2>1, SMT
  <2>3. CanGoOn(p)
    BY <1>2, <2>2 DEF CanGoOn, Busy, Holding
  <2>4. StepsLeft(p) > 0
    BY <1>2, <2>1, SMT DEF StepsLeft
  <2>5. QED
    BY <2>3, <2>4
<1>3. ASSUME sema # 1
      PROVE  \E q \in Proc: pc[q] \in Holding /\ CanGoOn(q)
  <2>1. PICK q \in Proc: pc[q] \in Holding
    BY <1>1, <1>3 DEF SemaphoreExcludes
  <2>2. QED
    BY <1>2, <2>1 DEF Busy
<1>4. QED
  BY <1>2, <1>3 DEF NeverStuck

\* Nobody waits for a semaphore that is not given back, and a process in a copy
\* loop, or about to wake the others, always has a step to make.
THEOREM CallsGoOn == Spec => []NeverStuck
BY InvGoesOn, Invariant, PTL

\* A ring of two slots or more is not empty and full at once, so one of the two
\* who sleep has its waker on the way.
LEMMA InvSomebodyWakes == IInv => NotAllAsleep
<1> SUFFICES ASSUME IInv,
                    \E p \in Proc: AsleepFor(p, "rsleep", "POLLIN"),
                    \E p \in Proc: AsleepFor(p, "wsleep", "POLLOUT")
             PROVE  \E q \in Proc: Busy(q)
  BY Zenon DEF NotAllAsleep
<1>1. Count > 0 \/ Count < N - 1
  BY Params DEF IInv, DataInv, TypeOK, Count
<1>2. PICK q \in Proc: \/ Waker(q, "wloop", "wwrap", "wwake")
                       \/ Waker(q, "rloop", "rwrap", "rwake")
  BY <1>1, Zenon DEF IInv, NoLostWakeup
<1>3. QED
  BY <1>2 DEF Waker, Busy, Holding

\* Readers and writers are never all asleep, each waiting for the other, nor is a
\* poll for either event with nobody on the way to wake it.
THEOREM NobodyWaitsInACircle == Spec => []NotAllAsleep
BY InvSomebodyWakes, Invariant, PTL

\* What a process does leaves the others where they are, unless it wakes them.
LEMMA OthersStay ==
  ASSUME TypeOK, NEW p \in Proc, Calls(p) \/ Interrupts(p) \/ Runs(p),
         NEW q \in Proc, q # p, Busy(q)
  PROVE  pc'[q] = pc[q] /\ i'[q] = i[q] /\ len'[q] = len[q]
<1>1. CASE Calls(p)
  BY <1>1 DEF Calls, Open, Release, ReadCall, WriteCall, PollCall, Goto, local, TypeOK
<1>2. CASE Interrupts(p)
  BY <1>2 DEF Interrupts, ReadInterrupted, ReadDownInterrupted, WriteInterrupted,
              WriteDownInterrupted, PollGivesUp, Goto, Forget, local, TypeOK
<1>3. CASE Poll(p)
  BY <1>3 DEF Poll, PollTestIn, PollTestOut, PollTestAgain, PollLeaves, Goto, TypeOK
<1>4. CASE ReadWait(p) \/ ReadDown(p) \/ ReadByte(p) \/ ReadWrap(p) \/ ReadUp(p)
  BY <1>4 DEF ReadWait, ReadDown, ReadByte, ReadWrap, ReadUp, Goto, Forget, local, TypeOK
<1>5. CASE WriteWait(p) \/ WriteDown(p) \/ WriteByte(p) \/ WriteWrap(p) \/ WriteUp(p)
  BY <1>5 DEF WriteWait, WriteDown, WriteByte, WriteWrap, WriteUp, Goto, Forget, local,
              TypeOK
<1>6. CASE ReadWake(p) \/ WriteWake(p)
  BY <1>6 DEF ReadWake, WriteWake, Woken, Returned, Forget, Busy, Holding, TypeOK
<1>7. QED
  BY <1>1, <1>2, <1>3, <1>4, <1>5, <1>6 DEF Runs, Read, Write

LEMMA OthersKeepSteps ==
  ASSUME NEW q \in Proc, pc'[q] = pc[q], i'[q] = i[q], len'[q] = len[q]
  PROVE  StepsLeft(q)' = StepsLeft(q)
BY DEF StepsLeft, Busy

\* Two steps for a byte, its copy and a wrap; one for the up and one to wake.
LEMMA StepsDrop ==
  ASSUME NEW p \in Proc, i[p] \in Nat, len[p] \in Nat, i[p] <= len[p],
         \/ /\ pc[p] \in {"rloop", "wloop"} /\ i'[p] = i[p] + 1 /\ len'[p] = len[p]
            /\ pc'[p] \in {"rloop", "rwrap", "wloop", "wwrap"}
         \/ /\ pc[p] \in {"rwrap", "wwrap"} /\ pc'[p] \in {"rloop", "wloop"}
            /\ i'[p] = i[p] /\ len'[p] = len[p]
         \/ pc[p] \in {"rloop", "wloop"} /\ pc'[p] \in {"rwake", "wwake", "user"}
         \/ pc[p] \in {"rwake", "wwake"} /\ pc'[p] = "user"
  PROVE  StepsLeft(p)' < StepsLeft(p)
<1>1. CASE pc[p] \in {"rloop", "wloop"} /\ pc'[p] \in {"rwrap", "wwrap"}
  BY <1>1, SMT DEF StepsLeft
<1>2. CASE pc[p] \in {"rloop", "wloop"} /\ pc'[p] \in {"rloop", "wloop"}
  BY <1>2, SMT DEF StepsLeft
<1>3. CASE pc[p] \in {"rwrap", "wwrap"}
  BY <1>3, SMT DEF StepsLeft
<1>4. CASE pc[p] \in {"rloop", "wloop"} /\ pc'[p] \in {"rwake", "wwake", "user"}
  BY <1>4, SMT DEF StepsLeft, Busy, Holding
<1>5. CASE pc[p] \in {"rwake", "wwake"}
  BY <1>5, SMT DEF StepsLeft, Busy, Holding
<1>6. QED
  BY <1>1, <1>2, <1>3, <1>4, <1>5

\* A step of a busy process is one of read's or write's that leaves fewer.
LEMMA OwnStepShortens ==
  ASSUME TypeOK, DataInv, NEW p \in Proc, Calls(p) \/ Interrupts(p) \/ Runs(p), Busy(p)
  PROVE  Runs(p) /\ StepsLeft(p)' < StepsLeft(p)
<1> USE DEF Goto, TypeOK
<1>1. i[p] \in Nat /\ len[p] \in Nat /\ i[p] <= len[p]
  BY LenAssumption DEF DataInv
<1>2. ~Calls(p) /\ ~Interrupts(p) /\ ~Poll(p)
  BY DEF Busy, Holding, Calls, Open, Release, ReadCall, WriteCall, PollCall,
         Interrupts, ReadInterrupted, ReadDownInterrupted, WriteInterrupted,
         WriteDownInterrupted, PollGivesUp, Poll, PollTestIn, PollTestOut, PollTestAgain
<1>3. Runs(p) /\ ~Poll(p)
  BY <1>2
<1>4. ~ReadWait(p) /\ ~ReadDown(p) /\ ~WriteWait(p) /\ ~WriteDown(p)
  BY DEF Busy, Holding, ReadWait, ReadDown, WriteWait, WriteDown
<1>5. CASE ReadByte(p) \/ WriteByte(p)
  <2>1. /\ pc[p] \in {"rloop", "wloop"}
        /\ pc'[p] \in {"rloop", "rwrap", "wloop", "wwrap"}
        /\ i'[p] = i[p] + 1 /\ len'[p] = len[p]
    BY <1>5 DEF ReadByte, WriteByte
  <2>2. QED
    BY <1>1, <1>3, <2>1, StepsDrop
<1>6. CASE ReadWrap(p) \/ WriteWrap(p)
  <2>1. /\ pc[p] \in {"rwrap", "wwrap"} /\ pc'[p] \in {"rloop", "wloop"}
        /\ i'[p] = i[p] /\ len'[p] = len[p]
    BY <1>6 DEF ReadWrap, WriteWrap, local
  <2>2. QED
    BY <1>1, <1>3, <2>1, StepsDrop
<1>7. CASE ReadUp(p) \/ WriteUp(p)
  <2>1. pc[p] \in {"rloop", "wloop"} /\ pc'[p] \in {"rwake", "wwake", "user"}
    BY <1>7 DEF ReadUp, WriteUp
  <2>2. QED
    BY <1>1, <1>3, <2>1, StepsDrop
<1>8. CASE ReadWake(p) \/ WriteWake(p)
  <2>1. pc[p] \in {"rwake", "wwake"} /\ pc'[p] = "user"
    BY <1>8 DEF ReadWake, WriteWake, Woken, Returned
  <2>2. QED
    BY <1>1, <1>3, <2>1, StepsDrop
<1>9. QED
  BY <1>3, <1>4, <1>5, <1>6, <1>7, <1>8 DEF Runs, Read, Write

\* Every step of a process in a copy loop, or about to wake the others, brings the
\* end of its call nearer, and no other step puts it off.
THEOREM CallsEnd == Spec => Finishes
<1>1. ASSUME IInv, [Next]_vars, NEW p \in Proc, Busy(p)
      PROVE  \/ Runs(p) /\ StepsLeft(p)' < StepsLeft(p)
             \/ StepsLeft(p)' = StepsLeft(p) /\ pc'[p] = pc[p]
  <2>1. TypeOK /\ DataInv
    BY <1>1 DEF IInv
  <2>2. ASSUME NEW q \in Proc, Calls(q) \/ Interrupts(q) \/ Runs(q), q # p
        PROVE  StepsLeft(p)' = StepsLeft(p) /\ pc'[p] = pc[p]
    BY <1>1, <2>1, <2>2, OthersStay, OthersKeepSteps
  <2>3. CASE UNCHANGED vars
    <3>1. pc'[p] = pc[p] /\ i'[p] = i[p] /\ len'[p] = len[p]
      BY <2>3 DEF vars, local
    <3>2. QED
      BY <3>1, OthersKeepSteps
  <2>4. QED
    BY <1>1, <2>1, <2>2, <2>3, OwnStepShortens DEF Next
<1>2. IInv /\ [Next]_vars => [\A p \in Proc: Busy(p) =>
         \/ Runs(p) /\ StepsLeft(p)' < StepsLeft(p)
         \/ StepsLeft(p)' = StepsLeft(p) /\ pc'[p] = pc[p]]_vars
  BY <1>1
<1>3. QED
  BY <1>2, Invariant, PTL DEF Spec, Finishes

-----------------------------------------------------------------------------
(* What the semaphore is for.                                              *)

\* In a copy loop, the bytes taken from the queue, or put into it, are those the
\* process has counted.
LEMMA LoopCounts ==
  ASSUME TypeOK, SemaphoreExcludes, UseCountExact, NEW p \in Proc, pc[p] \in Holding,
         NEW q \in Proc, Calls(q) \/ Interrupts(q) \/ Runs(q), pc'[p] \in Holding
  PROVE  /\ pc[p] \in {"rloop", "rwrap"} => next' - next = i'[p] - i[p]
         /\ pc[p] \in {"wloop", "wwrap"} => sent' - sent = i'[p] - i[p]
<1> USE DEF TypeOK
<1>1. CASE ReadByte(q)
  <2>1. q = p
    BY <1>1, Alone DEF ReadByte, Holding
  <2>2. pc[p] = "rloop" /\ next' = next + 1 /\ i'[p] = i[p] + 1
    BY <1>1, <2>1 DEF ReadByte
  <2>3. QED
    BY <2>2
<1>2. CASE WriteByte(q)
  <2>1. q = p
    BY <1>2, Alone DEF WriteByte, Holding
  <2>2. pc[p] = "wloop" /\ sent' = sent + 1 /\ i'[p] = i[p] + 1
    BY <1>2, <2>1 DEF WriteByte
  <2>3. QED
    BY <2>2
<1>3. ASSUME ~ReadByte(q), ~WriteByte(q)
      PROVE  next' = next /\ sent' = sent /\ i'[p] = i[p]
  <2>1. CASE Calls(q)
    <3>1. q # p
      BY <2>1 DEF Calls, Open, Release, ReadCall, WriteCall, PollCall, Holding
    <3>2. use_count # 0
      <4>1. IsFiniteSet(Opened) /\ p \in Opened
        BY Params, FS_Subset DEF Opened, Holding
      <4>2. QED
        BY <4>1, FS_EmptySet DEF Opened, UseCountExact
    <3>3. QED
      BY <2>1, <3>1, <3>2 DEF Calls, Open, Release, ReadCall, WriteCall, PollCall, local, ghost
  <2>2. CASE Interrupts(q)
    <3>1. q # p
      BY <2>2 DEF Interrupts, ReadInterrupted, ReadDownInterrupted, WriteInterrupted,
                  WriteDownInterrupted, PollGivesUp, Holding
    <3>2. QED
      BY <2>2, <3>1 DEF Interrupts, ReadInterrupted, ReadDownInterrupted, WriteInterrupted,
                  WriteDownInterrupted, PollGivesUp, Forget, local, ghost
  <2>3. CASE Poll(q)
    BY <2>3 DEF Poll, PollTestIn, PollTestOut, PollTestAgain, ghost
  <2>4. CASE \/ ReadWait(q) \/ ReadDown(q) \/ ReadWrap(q)
             \/ WriteWait(q) \/ WriteDown(q) \/ WriteWrap(q)
    BY <2>4 DEF ReadWait, ReadDown, ReadWrap, WriteWait, WriteDown, WriteWrap, local, ghost
  <2>5. CASE ReadUp(q) \/ WriteUp(q)
    <3>1. q # p
      BY <2>5 DEF ReadUp, WriteUp, Goto, Holding
    <3>2. QED
      BY <2>5, <3>1 DEF ReadUp, WriteUp, Forget, local, ghost
  <2>6. CASE ReadWake(q) \/ WriteWake(q)
    <3>1. q # p
      BY <2>6 DEF ReadWake, WriteWake, Holding
    <3>2. QED
      BY <2>6, <3>1 DEF ReadWake, WriteWake, Forget, ghost
  <2>7. QED
    BY <1>3, <2>1, <2>2, <2>3, <2>4, <2>5, <2>6 DEF Runs, Read, Write
<1>4. QED
  BY <1>1, <1>2, <1>3

\* A read takes consecutive bytes and a write stores them one behind the other: no
\* other call comes in between, also while an index is being wrapped.
THEOREM CallsNotCut == Spec => CallsStayWhole
<1>1. ASSUME IInv, [Next]_vars, NEW p \in Proc
      PROVE  /\ {pc[p], pc'[p]} \subseteq {"rloop", "rwrap"} => next' - next = i'[p] - i[p]
             /\ {pc[p], pc'[p]} \subseteq {"wloop", "wwrap"} => sent' - sent = i'[p] - i[p]
  <2>1. TypeOK /\ SemaphoreExcludes /\ UseCountExact
    BY <1>1 DEF IInv
  <2>2. CASE UNCHANGED vars
    BY <2>1, <2>2 DEF vars, ghost, local, TypeOK
  <2>3. CASE Next
    BY <2>1, <2>3, LoopCounts DEF Next, Holding
  <2>4. QED
    BY <1>1, <2>2, <2>3
<1>2. IInv /\ [Next]_vars => [\A p \in Proc:
         /\ {pc[p], pc'[p]} \subseteq {"rloop", "rwrap"} => next' - next = i'[p] - i[p]
         /\ {pc[p], pc'[p]} \subseteq {"wloop", "wwrap"} => sent' - sent = i'[p] - i[p]]_vars
  BY <1>1
<1>3. QED
  BY <1>2, Invariant, PTL DEF Spec, CallsStayWhole

=============================================================================
