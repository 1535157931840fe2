---------------------------- MODULE I3cBusProofs ----------------------------
(***************************************************************************)
(* Proofs about I3cAttach and I3cBus, for every capacity, table size and   *)
(* set of addresses, devices and targets; and about I3cIbi, for every      *)
(* number of IBIs, errors and places in the work queue.                    *)
(*                                                                         *)
(* I3cAttach, first: PosIndexOK is inductive once the types are known;     *)
(* RoutedToDevice and SirOnlyFromAttached follow from it step by step,     *)
(* because every write to the table goes to a position that PosIndexOK     *)
(* ties to one device.                                                     *)
(*                                                                         *)
(* I3cBus implements I3cAttach: whatever assign_dynamic_address, the CCCs  *)
(* and the targets do, the lists and tables of the controller change only  *)
(* as I3cAttach says. So what is proved of the operations alone holds      *)
(* while they are mixed with a bus that loses its targets. On top of it an *)
(* invariant says which device every target that has an address belongs    *)
(* to, and follows the calls that change that: from it, what the           *)
(* controller sends is heard by those it is meant for.                     *)
(*                                                                         *)
(* I3cIbi: what the application is told about in-band interrupts is real.  *)
(* It rests on two hypotheses, without which it is false of the code: an   *)
(* IBI carries no more payload than the handler's buffer takes (one word), *)
(* and comes from an address that is attached. The handler keeps its place *)
(* in the FIFO by counting words, so the invariant says where it stands:   *)
(* at a status word, or behind the one it has decoded last.                *)
(***************************************************************************)
EXTENDS I3cBus, I3cIbi, SequenceTheorems, WellFoundedInduction, TLAPS

(* Removing one element: the result is shorter by one and the elements     *)
(* behind it move up by one (the heapless Vec::remove of Attached::detach).*)
LEMMA RemoveAtFacts ==
  ASSUME NEW S, NEW s \in Seq(S), NEW d \in 1 .. Len(s)
  PROVE  /\ RemoveAt(s, d) \in Seq(S)
         /\ Len(RemoveAt(s, d)) = Len(s) - 1
         /\ \A i \in 1 .. Len(s) - 1 :
              RemoveAt(s, d)[i] = IF i < d THEN s[i] ELSE s[i + 1]
<1> DEFINE front == SubSeq(s, 1, d - 1)
           back  == SubSeq(s, d + 1, Len(s))
<1>1. Len(s) \in Nat /\ s \in [1 .. Len(s) -> S]
  BY LenProperties
<1>2. /\ front \in Seq(S)
      /\ Len(front) = d - 1
      /\ \A i \in 1 .. d - 1 : front[i] = s[i]
  <2>1. \A i \in 1 .. d - 1 : s[i] \in S
    BY <1>1
  <2> HIDE DEF front
  <2>2. /\ SubSeq(s, 1, d - 1) \in Seq(S)
        /\ Len(SubSeq(s, 1, d - 1)) = IF 1 <= d - 1 THEN d - 1 - 1 + 1 ELSE 0
        /\ \A i \in 1 .. d - 1 - 1 + 1 : SubSeq(s, 1, d - 1)[i] = s[1 + i - 1]
    BY <1>1, <2>1, SubSeqProperties
  <2> QED
    BY <1>1, <2>2 DEF front
<1>3. /\ back \in Seq(S)
      /\ Len(back) = Len(s) - d
      /\ \A i \in 1 .. Len(s) - d : back[i] = s[d + i]
  <2>1. \A i \in d + 1 .. Len(s) : s[i] \in S
    BY <1>1
  <2> HIDE DEF back
  <2>2. /\ SubSeq(s, d + 1, Len(s)) \in Seq(S)
        /\ Len(SubSeq(s, d + 1, Len(s)))
             = IF d + 1 <= Len(s) THEN Len(s) - (d + 1) + 1 ELSE 0
        /\ \A i \in 1 .. Len(s) - (d + 1) + 1 :
             SubSeq(s, d + 1, Len(s))[i] = s[d + 1 + i - 1]
    BY <1>1, <2>1, SubSeqProperties
  <2>3. back \in Seq(S)
    BY <2>2 DEF back
  <2>5. ASSUME NEW n \in Nat, d \in 1 .. n
        PROVE  (IF d + 1 <= n THEN n - (d + 1) + 1 ELSE 0) = n - d
    <3>1. CASE d = n
      BY <3>1
    <3>2. CASE d # n
      BY <2>5, <3>2, SMTT(30)
    <3> QED
      BY <3>1, <3>2
  <2>6. Len(back) = Len(s) - d
    BY <1>1, <2>2, <2>5 DEF back
  <2>4. ASSUME NEW i \in 1 .. Len(s) - d
        PROVE  back[i] = s[d + i]
    <3>1. i \in 1 .. Len(s) - (d + 1) + 1 /\ d + 1 + i - 1 = d + i
      BY <1>1
    <3>2. back[i] = s[d + 1 + i - 1]
      BY <2>2, <3>1 DEF back
    <3> QED
      BY <3>1, <3>2
  <2> QED
    BY <2>3, <2>4, <2>6
<1> HIDE DEF front, back
<1>4. /\ front \o back \in Seq(S)
      /\ Len(front \o back) = Len(front) + Len(back)
      /\ \A i \in 1 .. Len(front) + Len(back) :
           (front \o back)[i] = IF i <= Len(front) THEN front[i]
                                ELSE back[i - Len(front)]
  BY <1>2, <1>3, ConcatProperties
<1>5. RemoveAt(s, d) = front \o back
  BY DEF RemoveAt, front, back
<1>6. Len(front \o back) = Len(s) - 1
  BY <1>1, <1>2, <1>3, <1>4
<1>7. ASSUME NEW i \in 1 .. Len(s) - 1
      PROVE  (front \o back)[i] = IF i < d THEN s[i] ELSE s[i + 1]
  <2>1. CASE i < d
    BY <1>1, <1>2, <1>3, <1>4, <2>1
  <2>2. CASE ~(i < d)
    <3>1. (front \o back)[i] = back[i - (d - 1)]
      BY <1>1, <1>2, <1>3, <1>4, <2>2
    <3>2. back[i - (d - 1)] = s[d + (i - (d - 1))]
      BY <1>1, <1>3, <2>2
    <3> QED
      BY <1>1, <2>2, <3>1, <3>2
  <2> QED
    BY <2>1, <2>2
<1> QED
  BY <1>4, <1>5, <1>6, <1>7

-----------------------------------------------------------------------------
(* A set of numbers that is not empty has a least element.                 *)
LEMMA LeastElement ==
  ASSUME NEW S, S \subseteq Nat, S # {}
  PROVE  \E d \in S : \A e \in S : d <= e
<1>1. \A x, y \in Nat : x < y => <<x, y>> \in OpToRel(<, Nat)
  BY Zenon DEF OpToRel
<1>2. PICK R : IsWellFoundedOn(R, Nat)
               /\ \A x, y \in Nat : x < y => <<x, y>> \in R
  BY <1>1, NatLessThanWellFounded, Zenon
<1>3. IsWellFoundedOn(R, Nat) /\ S \subseteq Nat /\ S # {}
  BY <1>2
<1>4. PICK d \in S : \A e \in S : ~(<<e, d>> \in R)
  BY ONLY <1>3, WFMin, Zenon
<1>5. ASSUME NEW e \in S
      PROVE  d <= e
  <2>1. e \in Nat /\ d \in Nat /\ ~(e < d)
    BY <1>2, <1>4
  <2> QED
    BY <2>1
<1> QED
  BY <1>5

(* A search of the device list finds the first device with the address, if *)
(* there is one.                                                           *)
LEMMA FindFacts ==
  ASSUME TypeOK, NEW da
  PROVE  \/ /\ FindByAddr(da) = NoDev
            /\ \A d \in Attached : devices[d].dyn_addr # da
         \/ /\ FindByAddr(da) \in Attached
            /\ devices[FindByAddr(da)].dyn_addr = da
<1> DEFINE S == {d \in Attached : devices[d].dyn_addr = da}
<1>1. S \subseteq Nat
  BY LenProperties DEF TypeOK, Attached
<1>2. CASE S = {}
  BY <1>2 DEF FindByAddr, FirstDev
<1>3. CASE S # {}
  <2> HIDE DEF S
  <2>2. PICK d \in S : \A e \in S : d <= e
    BY <1>1, <1>3, LeastElement, Zenon
  <2>3. FirstDev(S) \in S
    BY <1>3, <2>2 DEF FirstDev
  <2> QED
    BY <2>3 DEF FindByAddr, S
<1> QED
  BY <1>2, <1>3

-----------------------------------------------------------------------------
(* What a detach does to the list and to the position map: the list loses  *)
(* one entry, and every position that is still mapped names the same       *)
(* device as before, at its new index.                                     *)
LEMMA DetachFacts ==
  ASSUME TypeOK, PosIndexOK, NEW d \in Attached, DetachDev(d)
  PROVE  /\ devices' \in Seq(DeviceEntry)
         /\ Len(devices') = Len(devices) - 1
         /\ \A i \in 1 .. Len(devices) - 1 :
              devices'[i] = IF i < d THEN devices[i] ELSE devices[i + 1]
         /\ by_pos' \in [Pos -> Dev \cup {NoDev}]
         /\ \A p \in Pos : by_pos'[p] # NoDev =>
              /\ p # devices[d].pos /\ by_pos[p] # NoDev
              /\ by_pos'[p] \in 1 .. Len(devices) - 1
              /\ devices'[by_pos'[p]] = devices[by_pos[p]]
<1>1. /\ devices \in Seq(DeviceEntry) /\ Len(devices) \in Nat
      /\ DOMAIN devices = 1 .. Len(devices) /\ Len(devices) <= MaxDevs
      /\ d \in 1 .. Len(devices)
  BY LenProperties DEF TypeOK, Attached
<1>2. /\ devices' \in Seq(DeviceEntry)
      /\ Len(devices') = Len(devices) - 1
      /\ \A i \in 1 .. Len(devices) - 1 :
           devices'[i] = IF i < d THEN devices[i] ELSE devices[i + 1]
  BY <1>1, RemoveAtFacts, Zenon DEF DetachDev
<1>3. ASSUME NEW p \in Pos, p # devices[d].pos, by_pos[p] # NoDev
      PROVE  /\ Shifted(d, by_pos[p]) \in 1 .. Len(devices) - 1
             /\ devices'[Shifted(d, by_pos[p])] = devices[by_pos[p]]
  <2>1. by_pos[p] \in 1 .. Len(devices) /\ by_pos[p] # d
    BY <1>1, <1>3 DEF PosIndexOK, Attached
  <2>2. CASE by_pos[p] > d
    <3>1. /\ Shifted(d, by_pos[p]) = by_pos[p] - 1
          /\ by_pos[p] - 1 \in 1 .. Len(devices) - 1
          /\ ~(by_pos[p] - 1 < d) /\ by_pos[p] - 1 + 1 = by_pos[p]
      BY <1>1, <2>1, <2>2 DEF Shifted
    <3> QED
      BY <1>2, <3>1
  <2>3. CASE ~(by_pos[p] > d)
    <3>1. /\ Shifted(d, by_pos[p]) = by_pos[p]
          /\ by_pos[p] \in 1 .. Len(devices) - 1 /\ by_pos[p] < d
      BY <1>1, <2>1, <2>3 DEF Shifted
    <3> QED
      BY <1>2, <3>1
  <2> QED
    BY <2>2, <2>3
<1>4. ASSUME NEW p \in Pos
      PROVE  by_pos'[p] = IF p = devices[d].pos THEN NoDev
                          ELSE Shifted(d, by_pos[p])
  BY DEF DetachDev
<1>5. Shifted(d, NoDev) = NoDev
  BY <1>1 DEF Shifted, NoDev
<1>6. ASSUME NEW p \in Pos, by_pos'[p] # NoDev
      PROVE  /\ p # devices[d].pos /\ by_pos[p] # NoDev
             /\ by_pos'[p] \in 1 .. Len(devices) - 1
             /\ devices'[by_pos'[p]] = devices[by_pos[p]]
  BY <1>3, <1>4, <1>5, <1>6
<1>7. ASSUME NEW p \in Pos
      PROVE  by_pos'[p] \in Dev \cup {NoDev}
  <2>1. CASE by_pos'[p] = NoDev
    BY <2>1
  <2>2. CASE by_pos'[p] # NoDev
    BY <1>1, <1>6, <2>2, AttachAssumption DEF Dev
  <2> QED
    BY <2>1, <2>2
<1>8. by_pos' \in [Pos -> Dev \cup {NoDev}]
  BY <1>7 DEF DetachDev
<1> QED
  BY <1>2, <1>6, <1>8

-----------------------------------------------------------------------------
(* The inductive invariant.                                                *)
Inv == TypeOK /\ PosIndexOK /\ RoutedToDevice /\ SirOnlyFromAttached

LEMMA InitInv == Init => Inv
<1> SUFFICES ASSUME Init PROVE Inv
  OBVIOUS
<1>1. devices \in Seq(DeviceEntry) /\ Len(devices) <= MaxDevs
  BY EmptySeq, AttachAssumption DEF Init
<1>2. dat \in [Pos -> DatEntry]
  BY DEF Init, DatEntry, Address
<1>3. TypeOK
  BY <1>1, <1>2 DEF Init, TypeOK
<1> QED
  BY <1>3 DEF Init, Inv, PosIndexOK, RoutedToDevice, SirOnlyFromAttached

(* The writes to the table keep its type, and touch one entry.             *)
LEMMA DatFacts ==
  ASSUME TypeOK, NEW p, NEW da \in Address
  PROVE  /\ DatAttach(p, da) \in [Pos -> DatEntry]
         /\ DatDetach(p) \in [Pos -> DatEntry]
         /\ DatAllowSir(p) \in [Pos -> DatEntry]
         /\ \A q \in Pos :
              /\ DatAttach(p, da)[q] = IF q = p THEN [addr |-> da, sir |-> FALSE]
                                      ELSE dat[q]
              /\ DatDetach(p)[q] = IF q = p THEN [addr |-> 0, sir |-> FALSE]
                                   ELSE dat[q]
              /\ DatAllowSir(p)[q].addr = dat[q].addr
              /\ q # p => DatAllowSir(p)[q] = dat[q]
<1>1. dat \in [Pos -> DatEntry] /\ 0 \in Address
  BY DEF TypeOK, Address
<1>2. /\ [addr |-> da, sir |-> FALSE] \in DatEntry
      /\ [addr |-> 0, sir |-> FALSE] \in DatEntry
  BY <1>1 DEF DatEntry
<1>3. ASSUME NEW q \in Pos
      PROVE  [addr |-> dat[q].addr, sir |-> TRUE] \in DatEntry
  <2>1. dat[q] \in DatEntry
    BY <1>1
  <2> QED
    BY <2>1 DEF DatEntry
<1>4. DatAttach(p, da) \in [Pos -> DatEntry]
  BY <1>1, <1>2 DEF DatAttach
<1>5. DatDetach(p) \in [Pos -> DatEntry]
  BY <1>1, <1>2 DEF DatDetach
<1>6. DatAllowSir(p) \in [Pos -> DatEntry]
  BY <1>1, <1>3 DEF DatAllowSir
<1>7. ASSUME NEW q \in Pos
      PROVE  /\ DatAttach(p, da)[q] = IF q = p THEN [addr |-> da, sir |-> FALSE]
                                      ELSE dat[q]
             /\ DatDetach(p)[q] = IF q = p THEN [addr |-> 0, sir |-> FALSE]
                                   ELSE dat[q]
             /\ DatAllowSir(p)[q].addr = dat[q].addr
             /\ q # p => DatAllowSir(p)[q] = dat[q]
  BY <1>3 DEF DatAttach, DatDetach, DatAllowSir
<1> QED
  BY <1>4, <1>5, <1>6, <1>7

(* A detach, with the table written at one position, keeps the invariant:  *)
(* that position must be unmapped afterwards and be the device's own.      *)
LEMMA DetachInv ==
  ASSUME Inv, NEW d \in Attached, DetachDev(d),
         dat' = DatDetach(devices[d].pos),
         in_use' \subseteq Address, shared' \in BOOLEAN
  PROVE  Inv'
<1> USE DEF Inv
<1>1. /\ devices \in Seq(DeviceEntry) /\ Len(devices) \in Nat
      /\ DOMAIN devices = 1 .. Len(devices) /\ Len(devices) <= MaxDevs
      /\ d \in 1 .. Len(devices)
  BY LenProperties DEF TypeOK, Attached
<1>2. /\ devices' \in Seq(DeviceEntry)
      /\ Len(devices') = Len(devices) - 1
      /\ \A i \in 1 .. Len(devices) - 1 :
           devices'[i] = IF i < d THEN devices[i] ELSE devices[i + 1]
      /\ by_pos' \in [Pos -> Dev \cup {NoDev}]
      /\ \A p \in Pos : by_pos'[p] # NoDev =>
           /\ p # devices[d].pos /\ by_pos[p] # NoDev
           /\ by_pos'[p] \in 1 .. Len(devices) - 1
           /\ devices'[by_pos'[p]] = devices[by_pos[p]]
  BY DetachFacts
<1>3. Attached' = 1 .. Len(devices) - 1
  BY <1>2, LenProperties DEF Attached
<1>4. /\ dat' \in [Pos -> DatEntry]
      /\ \A q \in Pos : dat'[q] = IF q = devices[d].pos
                                   THEN [addr |-> 0, sir |-> FALSE] ELSE dat[q]
  <2>1. 0 \in Address
    BY DEF Address
  <2> QED
    BY <2>1, DatFacts
<1>5. TypeOK'
  <2>1. Len(devices') <= MaxDevs
    BY <1>1, <1>2, AttachAssumption
  <2> QED
    BY <1>2, <1>4, <2>1 DEF TypeOK
<1>6. PosIndexOK'
  BY <1>2, <1>3 DEF PosIndexOK
<1>7. RoutedToDevice'
  BY <1>2, <1>4 DEF RoutedToDevice
<1>8. SirOnlyFromAttached'
  <2> SUFFICES ASSUME NEW p \in Pos, dat'[p].sir
               PROVE  \E e \in Attached' : devices'[e].pos = p
    BY DEF SirOnlyFromAttached
  <2>1. p # devices[d].pos /\ dat[p].sir
    BY <1>4
  <2>2. PICK e \in 1 .. Len(devices) : devices[e].pos = p
    BY <1>1, <2>1 DEF SirOnlyFromAttached, Attached
  <2>3. e # d
    BY <2>1, <2>2
  <2>4. CASE e < d
    <3>1. e \in 1 .. Len(devices) - 1 /\ devices'[e] = devices[e]
      BY <1>1, <1>2, <2>4
    <3> QED
      BY <1>3, <2>2, <3>1
  <2>5. CASE ~(e < d)
    <3>1. /\ e - 1 \in 1 .. Len(devices) - 1
          /\ ~(e - 1 < d) /\ e - 1 + 1 = e
      BY <1>1, <2>3, <2>5
    <3>2. devices'[e - 1] = devices[e]
      BY <1>2, <3>1
    <3> QED
      BY <1>3, <2>2, <3>1, <3>2
  <2> QED
    BY <2>4, <2>5
<1> QED
  BY <1>5, <1>6, <1>7, <1>8

LEMMA StepInv == Inv /\ [Next]_vars => Inv'
<1> SUFFICES ASSUME Inv, [Next]_vars PROVE Inv'
  OBVIOUS
<1> USE DEF Inv
<1>1. /\ devices \in Seq(DeviceEntry) /\ Len(devices) \in Nat
      /\ devices \in [1 .. Len(devices) -> DeviceEntry]
      /\ DOMAIN devices = 1 .. Len(devices) /\ Len(devices) <= MaxDevs
  BY LenProperties DEF TypeOK
<1>2. in_use \subseteq Address /\ shared \in BOOLEAN /\ Wanted \subseteq Address
      /\ dat \in [Pos -> DatEntry] /\ by_pos \in [Pos -> Dev \cup {NoDev}]
  BY AttachAssumption DEF TypeOK
<1>3. ASSUME NEW da \in Wanted, NEW s \in Slot, AttachDev(da, s)
      PROVE  Inv'
  <2> DEFINE new == [dyn_addr |-> da, desired_da |-> da, pos |-> s]
  <2>1. new \in DeviceEntry
    BY <1>2 DEF DeviceEntry
  <2>2. /\ devices' \in Seq(DeviceEntry)
        /\ Len(devices') = Len(devices) + 1
        /\ \A i \in 1 .. Len(devices) : devices'[i] = devices[i]
        /\ devices'[Len(devices) + 1] = new
    <3> HIDE DEF new
    <3>1. devices' = Append(devices, new)
      BY <1>3 DEF AttachDev, new
    <3> QED
      BY <1>1, <2>1, <3>1
  <2>3. Attached' = 1 .. Len(devices) + 1
    BY <2>2, LenProperties, SMTT(30) DEF Attached
  <2>4. Len(devices) + 1 <= MaxDevs
    <3>1. Len(devices) # MaxDevs
      BY <1>3 DEF AttachDev, AttachRefused
    <3>2. \A n, m \in Nat : n <= m /\ n # m => n + 1 <= m
      OBVIOUS
    <3>3. MaxDevs \in Nat
      BY AttachAssumption
    <3> QED
      BY <1>1, <3>1, <3>2, <3>3
  <2>5. \A p \in Pos : by_pos'[p] = IF p = s THEN Len(devices) + 1
                                    ELSE by_pos[p]
    BY <1>3 DEF AttachDev
  <2>6. by_pos' \in [Pos -> Dev \cup {NoDev}]
    <3>1. Len(devices) + 1 \in Dev
      BY <1>1, <2>4, AttachAssumption DEF Dev
    <3> QED
      BY <1>2, <1>3, <3>1 DEF AttachDev
  <2>7. /\ dat' \in [Pos -> DatEntry]
        /\ \A q \in Pos : dat'[q] = IF q = s THEN [addr |-> da, sir |-> FALSE]
                                     ELSE dat[q]
    BY <1>2, <1>3, DatFacts DEF AttachDev
  <2>8. in_use' \subseteq Address /\ shared' \in BOOLEAN
    <3>1. in_use' \subseteq Address
      BY <1>2, <1>3 DEF AttachDev, Marked
    <3>2. shared' = (shared \/ FindByAddr(da) # NoDev)
      BY <1>3 DEF AttachDev
    <3> QED
      BY <3>1, <3>2
  <2>9. TypeOK'
    BY <2>2, <2>4, <2>6, <2>7, <2>8 DEF TypeOK
  <2>10. ASSUME NEW p \in Pos, by_pos'[p] # NoDev
         PROVE  /\ by_pos'[p] \in Attached'
                /\ devices'[by_pos'[p]].pos = p
                /\ dat'[p].addr = devices'[by_pos'[p]].desired_da
    <3>1. CASE p = s
      BY <1>1, <2>2, <2>3, <2>5, <2>7, <3>1
    <3>2. CASE p # s
      <4>1. by_pos[p] # NoDev /\ by_pos'[p] = by_pos[p]
        BY <2>5, <2>10, <3>2
      <4>2. by_pos[p] \in 1 .. Len(devices) /\ devices[by_pos[p]].pos = p
        BY <1>1, <4>1 DEF PosIndexOK, Attached
      <4>3. dat[p].addr = devices[by_pos[p]].desired_da
        BY <4>1 DEF RoutedToDevice
      <4>4. by_pos[p] \in Attached'
        BY <1>1, <2>3, <4>2
      <4> QED
        BY <2>2, <2>7, <3>2, <4>1, <4>2, <4>3, <4>4
    <3> QED
      BY <3>1, <3>2
  <2>11. ASSUME NEW p \in Pos, dat'[p].sir
         PROVE  \E d \in Attached' : devices'[d].pos = p
    <3>1. dat[p].sir
      BY <2>7, <2>11
    <3>2. PICK d \in 1 .. Len(devices) : devices[d].pos = p
      BY <1>1, <3>1 DEF SirOnlyFromAttached, Attached
    <3>3. d \in Attached'
      BY <1>1, <2>3
    <3> QED
      BY <2>2, <3>2, <3>3
  <2> QED
    BY <2>9, <2>10, <2>11 DEF PosIndexOK, RoutedToDevice, SirOnlyFromAttached
<1>4. ASSUME NEW p \in Slot, DetachByPos(p)
      PROVE  Inv'
  <2>1. CASE p \in Pos /\ by_pos[p] # NoDev
    <3>1. by_pos[p] \in Attached /\ devices[by_pos[p]].pos = p
      BY <2>1 DEF PosIndexOK
    <3>2. /\ DetachDev(by_pos[p]) /\ dat' = DatDetach(devices[by_pos[p]].pos)
          /\ in_use' = in_use /\ shared' = shared
      BY <1>4, <2>1, <3>1 DEF DetachByPos
    <3> QED
      BY <1>2, <3>1, <3>2, DetachInv
  <2>2. CASE ~(p \in Pos /\ by_pos[p] # NoDev)
    <3>1. /\ devices' = devices /\ by_pos' = by_pos
          /\ in_use' = in_use /\ shared' = shared
      BY <1>4, <2>2 DEF DetachByPos
    <3>2. /\ dat' \in [Pos -> DatEntry]
          /\ \A q \in Pos : dat'[q] = IF q = p THEN [addr |-> 0, sir |-> FALSE]
                                       ELSE dat[q]
      <4>1. 0 \in Address /\ dat' = DatDetach(p)
        BY <1>4 DEF Address, DetachByPos
      <4> QED
        BY <4>1, DatFacts
    <3>3. TypeOK' /\ PosIndexOK'
      BY <3>1, <3>2 DEF TypeOK, PosIndexOK, Attached
    <3>4. RoutedToDevice' /\ SirOnlyFromAttached'
      BY <2>2, <3>1, <3>2 DEF RoutedToDevice, SirOnlyFromAttached, Attached
    <3> QED
      BY <3>3, <3>4
  <2> QED
    BY <2>1, <2>2
<1>5. ASSUME NEW d \in Dev, DetachByIdx(d)
      PROVE  Inv'
  <2>1. in_use' \subseteq Address
    BY <1>2, <1>5 DEF DetachByIdx, Unmarked
  <2> QED
    BY <1>2, <1>5, <2>1, DetachInv DEF DetachByIdx
<1>6. ASSUME NEW s \in Wanted \cup {0}, NEW d \in Wanted \cup {0},
             PickInitialDa(s, d)
      PROVE  Inv'
  <2>1. /\ devices' = devices /\ by_pos' = by_pos /\ dat' = dat
        /\ shared' = shared /\ in_use' \subseteq Address
    BY <1>2, <1>6 DEF PickInitialDa, Address
  <2> QED
    BY <2>1 DEF TypeOK, PosIndexOK, RoutedToDevice, SirOnlyFromAttached, Attached
<1>7. ASSUME NEW f \in Wanted, NEW t \in Wanted, ReassignDa(f, t)
      PROVE  Inv'
  <2>1. /\ by_pos' = by_pos /\ dat' = dat /\ shared' = shared
        /\ in_use' \subseteq Address
    BY <1>2, <1>7 DEF ReassignDa, Unmarked
  <2>2. /\ devices' \in Seq(DeviceEntry)
        /\ Len(devices') = Len(devices)
        /\ \A i \in 1 .. Len(devices) :
             /\ devices'[i].pos = devices[i].pos
             /\ devices'[i].desired_da = devices[i].desired_da
    <3>1. CASE FindByAddr(f) = NoDev
      BY <1>1, <1>7, <3>1 DEF ReassignDa
    <3>2. CASE FindByAddr(f) # NoDev
      <4> DEFINE d == FindByAddr(f)
                 e == Moved(devices[d], t)
      <4>1. d \in 1 .. Len(devices)
        BY <1>1, <3>2, FindFacts DEF Attached
      <4> HIDE DEF d
      <4>2. devices[d] \in DeviceEntry
        BY <1>1, <4>1
      <4>3. /\ e \in DeviceEntry /\ e.pos = devices[d].pos
            /\ e.desired_da = devices[d].desired_da
        BY <1>2, <4>2 DEF DeviceEntry, Moved
      <4>4. devices' = [devices EXCEPT ![d] = e]
        BY <1>7, <3>2 DEF ReassignDa, d, e
      <4> HIDE DEF e
      <4> QED
        BY <1>1, <4>1, <4>3, <4>4, ExceptSeq
    <3> QED
      BY <3>1, <3>2
  <2>3. Attached' = Attached /\ Attached = 1 .. Len(devices)
    BY <1>1, <2>2, LenProperties DEF Attached
  <2>4. TypeOK'
    BY <1>1, <1>2, <2>1, <2>2 DEF TypeOK
  <2>5. PosIndexOK' /\ RoutedToDevice' /\ SirOnlyFromAttached'
    BY <2>1, <2>2, <2>3 DEF PosIndexOK, RoutedToDevice, SirOnlyFromAttached
  <2> QED
    BY <2>4, <2>5
<1>8. ASSUME NEW da \in Wanted, IbiEnable(da)
      PROVE  Inv'
  <2>1. /\ devices' = devices /\ by_pos' = by_pos
        /\ in_use' = in_use /\ shared' = shared
    BY <1>8 DEF IbiEnable
  <2>2. /\ FindByAddr(da) \in Attached
        /\ \E p \in Slot :
             /\ p \in PositionsOf(FindByAddr(da))
                 \/ p = devices[FindByAddr(da)].pos
             /\ dat' = DatAllowSir(p)
    BY <1>8, FindFacts DEF IbiEnable
  <2>3. PICK d \in Attached, p \in Slot :
             /\ p \in PositionsOf(d) \/ p = devices[d].pos
             /\ dat' = DatAllowSir(p)
    BY <2>2
  <2>4. p = devices[d].pos
    BY <1>1, <2>3 DEF PositionsOf, PosIndexOK, Attached, NoDev
  <2>5. /\ dat' \in [Pos -> DatEntry]
        /\ \A q \in Pos : dat'[q].addr = dat[q].addr
        /\ \A q \in Pos : q # p => dat'[q] = dat[q]
    <3>1. 0 \in Address
      BY DEF Address
    <3> QED
      BY <2>3, <3>1, DatFacts, ZenonT(40)
  <2>6. TypeOK' /\ PosIndexOK' /\ RoutedToDevice'
    BY <2>1, <2>5 DEF TypeOK, PosIndexOK, RoutedToDevice, Attached
  <2>7. SirOnlyFromAttached'
    BY <2>1, <2>4, <2>5 DEF SirOnlyFromAttached, Attached
  <2> QED
    BY <2>6, <2>7
<1>9. CASE UNCHANGED vars
  BY <1>9 DEF vars, TypeOK, PosIndexOK, RoutedToDevice, SirOnlyFromAttached,
              Attached
<1> QED
  BY <1>3, <1>4, <1>5, <1>6, <1>7, <1>8, <1>9 DEF Next

-----------------------------------------------------------------------------
(* The address book. A device's address leaves the book only when the      *)
(* device leaves the list or is given another one, because no other device *)
(* shares it.                                                              *)
LEMMA StepProtected ==
  Inv /\ AddressProtected /\ [Next]_vars => AddressProtected'
<1> SUFFICES ASSUME Inv, AddressProtected, [Next]_vars, ~shared'
             PROVE  /\ \A d \in Attached' : devices'[d].dyn_addr \in in_use'
                    /\ \A d, e \in Attached' :
                         devices'[d].dyn_addr = devices'[e].dyn_addr => d = e
  BY DEF AddressProtected
<1>1. /\ devices \in Seq(DeviceEntry) /\ Len(devices) \in Nat
      /\ devices \in [1 .. Len(devices) -> DeviceEntry]
      /\ Attached = 1 .. Len(devices)
      /\ Wanted \subseteq Address /\ TypeOK /\ PosIndexOK
  BY LenProperties, AttachAssumption DEF Inv, TypeOK, Attached
<1>2. ~shared
  BY Zenon DEF Next, vars, AttachDev, DetachByPos, DetachByIdx,
               PickInitialDa, ReassignDa, IbiEnable
<1>3. /\ \A d \in 1 .. Len(devices) : devices[d].dyn_addr \in in_use
      /\ \A d, e \in 1 .. Len(devices) :
           devices[d].dyn_addr = devices[e].dyn_addr => d = e
  BY <1>1, <1>2 DEF AddressProtected
<1>4. ASSUME NEW da \in Wanted, NEW s \in Slot, AttachDev(da, s)
      PROVE  /\ \A d \in Attached' : devices'[d].dyn_addr \in in_use'
             /\ \A d, e \in Attached' :
                  devices'[d].dyn_addr = devices'[e].dyn_addr => d = e
  <2> DEFINE new == [dyn_addr |-> da, desired_da |-> da, pos |-> s]
  <2>1. new \in DeviceEntry /\ new.dyn_addr = da
    BY <1>1 DEF DeviceEntry
  <2>2. /\ devices' \in Seq(DeviceEntry)
        /\ Len(devices') = Len(devices) + 1
        /\ \A i \in 1 .. Len(devices) : devices'[i] = devices[i]
        /\ devices'[Len(devices) + 1] = new
    <3> HIDE DEF new
    <3>1. devices' = Append(devices, new)
      BY <1>4 DEF AttachDev, new
    <3> QED
      BY <1>1, <2>1, <3>1
  <2>3. Attached' = 1 .. Len(devices) + 1
    BY <2>2, LenProperties DEF Attached
  <2>4. in_use' = in_use \cup {da}
    BY <1>4 DEF AttachDev, AttachRefused, Marked
  <2>5. FindByAddr(da) = NoDev
    BY <1>4, Zenon DEF AttachDev
  <2>6. \A d \in 1 .. Len(devices) : devices[d].dyn_addr # da
    <3>1. NoDev \notin Attached
      BY <1>1 DEF NoDev
    <3> QED
      BY <1>1, <2>5, <3>1, FindFacts
  <2> HIDE DEF new
  <2>7. \A d \in 1 .. Len(devices) + 1 :
          d \in 1 .. Len(devices) \/ d = Len(devices) + 1
    BY <1>1
  <2>8. \A d \in Attached' : devices'[d].dyn_addr \in in_use'
    BY <1>3, <2>1, <2>2, <2>3, <2>4, <2>7
  <2>9. \A d, e \in Attached' :
          devices'[d].dyn_addr = devices'[e].dyn_addr => d = e
    BY <1>3, <2>1, <2>2, <2>3, <2>6, <2>7
  <2> QED
    BY <2>8, <2>9
<1>5. ASSUME NEW d \in Attached, DetachDev(d)
      PROVE  /\ \A i \in Attached' :
                  \E j \in 1 .. Len(devices) :
                    /\ j # d /\ devices'[i] = devices[j]
                    /\ i = Shifted(d, j)
  <2>1. /\ devices' \in Seq(DeviceEntry)
        /\ Len(devices') = Len(devices) - 1
        /\ \A i \in 1 .. Len(devices) - 1 :
             devices'[i] = IF i < d THEN devices[i] ELSE devices[i + 1]
    BY <1>1, <1>5, DetachFacts, Zenon
  <2>2. Attached' = 1 .. Len(devices) - 1
    BY <2>1, LenProperties DEF Attached
  <2> SUFFICES ASSUME NEW i \in 1 .. Len(devices) - 1
               PROVE  \E j \in 1 .. Len(devices) :
                        /\ j # d /\ devices'[i] = devices[j]
                        /\ i = Shifted(d, j)
    BY <2>2
  <2>3. CASE i < d
    <3>1. /\ i \in 1 .. Len(devices) /\ i # d /\ devices'[i] = devices[i]
          /\ i = Shifted(d, i)
      BY <1>1, <2>1, <2>3 DEF Shifted
    <3> QED
      BY <3>1
  <2>4. CASE ~(i < d)
    <3>1. /\ i + 1 \in 1 .. Len(devices) /\ i + 1 # d
          /\ i = Shifted(d, i + 1)
      BY <1>1, <2>4 DEF Shifted
    <3>2. devices'[i] = devices[i + 1]
      BY <2>1, <2>4
    <3> QED
      BY <3>1, <3>2
  <2> QED
    BY <2>3, <2>4, SMTT(30)
<1>6. ASSUME NEW d \in Attached, DetachDev(d),
             in_use' = in_use \/ in_use' = Unmarked(devices[d].dyn_addr)
      PROVE  /\ \A i \in Attached' : devices'[i].dyn_addr \in in_use'
             /\ \A i, k \in Attached' :
                  devices'[i].dyn_addr = devices'[k].dyn_addr => i = k
  <2>1. \A j \in 1 .. Len(devices) :
          j # d => devices[j].dyn_addr \in in_use'
    BY <1>1, <1>3, <1>6 DEF Unmarked
  <2> QED
    BY <1>3, <1>5, <1>6, <2>1
<1>7. ASSUME NEW p \in Slot, DetachByPos(p)
      PROVE  /\ \A d \in Attached' : devices'[d].dyn_addr \in in_use'
             /\ \A d, e \in Attached' :
                  devices'[d].dyn_addr = devices'[e].dyn_addr => d = e
  <2>1. CASE p \in Pos /\ by_pos[p] # NoDev
    <3>1. by_pos[p] \in Attached
      BY <1>1, <2>1 DEF PosIndexOK
    <3>2. DetachDev(by_pos[p]) /\ in_use' = in_use
      BY <1>7, <2>1 DEF DetachByPos
    <3> QED
      BY <1>6, <3>1, <3>2
  <2>2. CASE ~(p \in Pos /\ by_pos[p] # NoDev)
    <3>1. devices' = devices /\ in_use' = in_use
      BY <1>7, <2>2 DEF DetachByPos
    <3> QED
      BY <1>1, <1>3, <3>1 DEF Attached
  <2> QED
    BY <2>1, <2>2
<1>8. ASSUME NEW d \in Dev, DetachByIdx(d)
      PROVE  /\ \A i \in Attached' : devices'[i].dyn_addr \in in_use'
             /\ \A i, k \in Attached' :
                  devices'[i].dyn_addr = devices'[k].dyn_addr => i = k
  BY <1>6, <1>8 DEF DetachByIdx
<1>9. ASSUME NEW f \in Wanted, NEW t \in Wanted, ReassignDa(f, t)
      PROVE  /\ \A d \in Attached' : devices'[d].dyn_addr \in in_use'
             /\ \A d, e \in Attached' :
                  devices'[d].dyn_addr = devices'[e].dyn_addr => d = e
  <2>1. t \notin in_use /\ in_use' = Unmarked(f) \cup {t}
    BY <1>9 DEF ReassignDa, IsFree
  <2>2. CASE FindByAddr(f) = NoDev
    <3>1. devices' = devices
      BY <1>9, <2>2 DEF ReassignDa
    <3>2. \A d \in 1 .. Len(devices) : devices[d].dyn_addr # f
      <4>1. NoDev \notin Attached
        BY <1>1 DEF NoDev
      <4> QED
        BY <1>1, <2>2, <4>1, FindFacts
    <3> QED
      BY <1>1, <1>3, <2>1, <3>1, <3>2 DEF Attached, Unmarked
  <2>3. CASE FindByAddr(f) # NoDev
    <3>1. PICK d \in 1 .. Len(devices) :
            d = FindByAddr(f) /\ devices[d].dyn_addr = f
      BY <1>1, <2>3, FindFacts
    <3>2. devices' = [devices EXCEPT ![d] = Moved(devices[d], t)]
      BY <1>9, <2>3, <3>1 DEF ReassignDa
    <3>3. /\ Moved(devices[d], t) \in DeviceEntry
          /\ Moved(devices[d], t).dyn_addr = t
      <4>1. devices[d] \in DeviceEntry
        BY <1>1
      <4> QED
        BY <1>1, <4>1 DEF Moved, DeviceEntry
    <3>4. /\ devices' \in Seq(DeviceEntry) /\ Len(devices') = Len(devices)
          /\ \A i \in 1 .. Len(devices) :
               devices'[i].dyn_addr = IF i = d THEN t ELSE devices[i].dyn_addr
      <4>1. /\ devices' \in Seq(DeviceEntry) /\ Len(devices') = Len(devices)
            /\ \A i \in 1 .. Len(devices) :
                 devices'[i] = IF i = d THEN Moved(devices[d], t) ELSE devices[i]
        BY <1>1, <3>2, <3>3, ExceptSeq
      <4> QED
        BY <3>3, <4>1
    <3>5. Attached' = 1 .. Len(devices)
      BY <3>4, LenProperties DEF Attached
    <3>6. \A i \in 1 .. Len(devices) : i # d =>
            devices[i].dyn_addr # f /\ devices[i].dyn_addr # t
      BY <1>3, <2>1, <3>1
    <3>7. \A i \in Attached' : devices'[i].dyn_addr \in in_use'
      BY <1>3, <2>1, <3>4, <3>5, <3>6 DEF Unmarked
    <3>8. \A i, k \in Attached' :
            devices'[i].dyn_addr = devices'[k].dyn_addr => i = k
      BY <1>3, <3>4, <3>5, <3>6
    <3> QED
      BY <3>7, <3>8
  <2> QED
    BY <2>2, <2>3
<1>10. ASSUME devices' = devices, in_use \subseteq in_use'
       PROVE  /\ \A d \in Attached' : devices'[d].dyn_addr \in in_use'
              /\ \A d, e \in Attached' :
                   devices'[d].dyn_addr = devices'[e].dyn_addr => d = e
  BY <1>1, <1>3, <1>10 DEF Attached
<1>11. ASSUME NEW s \in Wanted \cup {0}, NEW d \in Wanted \cup {0},
              PickInitialDa(s, d)
       PROVE  devices' = devices /\ in_use \subseteq in_use'
  BY <1>11 DEF PickInitialDa
<1>12. ASSUME NEW da \in Wanted, IbiEnable(da)
       PROVE  devices' = devices /\ in_use \subseteq in_use'
  BY <1>12 DEF IbiEnable
<1>13. CASE UNCHANGED vars
  BY <1>10, <1>13 DEF vars
<1> QED
  BY <1>4, <1>7, <1>8, <1>9, <1>10, <1>11, <1>12, <1>13 DEF Next

-----------------------------------------------------------------------------
(* Types are respected, and the list of devices never exceeds its capacity.*)
THEOREM TypeCorrect == Spec => []TypeOK
<1>1. Inv => TypeOK
  BY DEF Inv
<1> QED
  BY <1>1, InitInv, StepInv, PTL DEF Spec

(* Whatever sequence of attaches, detaches and reassignments: the position *)
(* map names only devices that are attached, each at its own position.     *)
THEOREM PositionsCorrect == Spec => []PosIndexOK
<1>1. Inv => PosIndexOK
  BY DEF Inv
<1> QED
  BY <1>1, InitInv, StepInv, PTL DEF Spec

(* The table entry of a mapped position holds the address its device was   *)
(* attached with.                                                          *)
THEOREM RoutingCorrect == Spec => []RoutedToDevice
<1>1. Inv => RoutedToDevice
  BY DEF Inv
<1> QED
  BY <1>1, InitInv, StepInv, PTL DEF Spec

(* A detached device is silenced.                                          *)
THEOREM DetachedAreSilent == Spec => []SirOnlyFromAttached
<1>1. Inv => SirOnlyFromAttached
  BY DEF Inv
<1> QED
  BY <1>1, InitInv, StepInv, PTL DEF Spec

(* With callers that attach at most one device at an address, the address  *)
(* book protects it.                                                       *)
THEOREM AddressesProtected == Spec => []AddressProtected
<1>1. Init => AddressProtected
  BY DEF Init, AddressProtected, Attached
<1> QED
  BY <1>1, InitInv, StepInv, StepProtected, PTL DEF Spec

-----------------------------------------------------------------------------

(* The call under way was made with an address a caller may ask for.       *)
CallWanted == pc # "idle" => call.da \in Wanted

LEMMA CallWantedInit == BusInit => CallWanted
  BY DEF BusInit, CallWanted

(* The only step that begins a call is Assign; the others keep its address *)
(* or end it.                                                              *)
LEMMA CallWantedNext == CallWanted /\ [BusNext]_busVars => CallWanted'
<1> SUFFICES ASSUME CallWanted, [BusNext]_busVars PROVE CallWanted'
  OBVIOUS
<1>1. ASSUME NEW da \in Wanted, Assign(da) PROVE CallWanted'
  BY <1>1 DEF Assign, Entdaa, Fails, CallWanted, NoCall
<1>2. CASE GetPid
  BY <1>2 DEF GetPid, Read, Fails, CallWanted
<1>3. CASE GetBcr
  BY <1>3 DEF GetBcr, Read, Fails, CallWanted
<1>4. CASE Enable
  BY <1>4 DEF Enable, CallWanted
<1>5. CASE Return
  BY <1>5 DEF Return, CallWanted
<1>6. CASE UNCHANGED <<pc, call>>
  BY <1>6 DEF CallWanted
<1>7. QED
  BY <1>1, <1>2, <1>3, <1>4, <1>5, <1>6
     DEF BusNext, busVars, EnableIbi, Alone, Attach, DetachPos, DetachIdx,
         PickDa, Reassign, SetNewDa, Rstdaa, PowerOff, PowerOn

-----------------------------------------------------------------------------
LEMMA BusStep == CallWanted /\ [BusNext]_busVars => [Next]_vars
<1> SUFFICES ASSUME CallWanted, [BusNext]_busVars PROVE [Next]_vars
  OBVIOUS
<1>1. CASE Enable
  <2>1. IbiEnable(call.da) /\ call.da \in Wanted
    BY <1>1 DEF Enable, CallWanted
  <2>2. QED
    BY <2>1 DEF Next
<1>2. ASSUME NEW da \in Wanted, EnableIbi(da) PROVE Next
  BY <1>2 DEF EnableIbi, Next
<1>3. ASSUME NEW t, NEW da \in Wanted, NEW s \in Slot, Attach(t, da, s)
      PROVE  Next
  BY <1>3 DEF Attach, Next
<1>4. ASSUME NEW p \in Slot, DetachPos(p) PROVE Next
  BY <1>4 DEF DetachPos, Next
<1>5. ASSUME NEW d \in Dev, DetachIdx(d) PROVE Next
  BY <1>5 DEF DetachIdx, Next
<1>6. ASSUME NEW s \in Wanted \cup {0}, NEW d \in Wanted \cup {0}, PickDa(s, d)
      PROVE  Next
  BY <1>6 DEF PickDa, Next
<1>7. ASSUME NEW f \in Wanted, NEW t \in Wanted, Reassign(f, t) PROVE Next
  BY <1>7 DEF Reassign, Next
<1>8. CASE UNCHANGED attach
  BY <1>8 DEF attach
<1>9. QED
  BY <1>1, <1>2, <1>3, <1>4, <1>5, <1>6, <1>7, <1>8
     DEF BusNext, busVars, Assign, GetPid, GetBcr, Return, SetNewDa, Rstdaa,
         PowerOff, PowerOn

(* Every behaviour of the bus is one of I3cAttach, once what it does not   *)
(* mention is left out: assign_dynamic_address (hal_impl.rs) and ccc.rs    *)
(* touch the lists and tables through its operations only.                 *)
THEOREM BusImplementsAttach == BusSpec => Spec
<1>1. BusInit => Init
  BY DEF BusInit
<1>2. QED
  BY <1>1, CallWantedInit, CallWantedNext, BusStep, PTL DEF BusSpec, Spec

(* On the bus too, what is sent to a device goes out at the address it was *)
(* attached with, and a position that is mapped names the device attached  *)
(* there.                                                                  *)
THEOREM BusRouting == BusSpec => [](PosIndexOK /\ RoutedToDevice)
  BY BusImplementsAttach, PositionsCorrect, RoutingCorrect, PTL

(* Nor does it let the interrupts of a device that is gone through, or hand*)
(* out an address an attached device has.                                  *)
THEOREM BusTables == BusSpec => [](SirOnlyFromAttached /\ AddressProtected)
  BY BusImplementsAttach, DetachedAreSilent, AddressesProtected, PTL

-----------------------------------------------------------------------------
(* The inductive invariant of the bus. Its second half follows one call of *)
(* assign_dynamic_address from the step that gave an address away to the   *)
(* one that returns; its first half says who may be heard between calls.   *)

(* The device the call is about, and the targets at the address it was     *)
(* attached with, which is the one its commands go out to.                 *)
Called == FindByAddr(call.da)
Answering(da) == Holding(devices[FindByAddr(da)].desired_da)
AtCalled == Answering(call.da)

(* Types; a target without power has no address, and the IDs are those of  *)
(* the listed devices, one by one.                                         *)
BusTypeOK ==
  /\ known \in Seq(Int) /\ Len(known) = Len(devices)
  /\ at \in [Targets -> Address] /\ up \subseteq Targets
  /\ \A t \in Targets \ up : at[t] = 0
  /\ pc \in {"idle", "getpid", "getbcr", "enable", "ok"}
  /\ call \in [da : Address, won : Targets \cup {None}, pid : Int, bcr : Int]
  /\ pc = "idle" => call = NoCall
  /\ pc # "idle" => call.won \in Targets

(* The device of a call stays listed: nothing detaches it meanwhile.       *)
Targeted == pc # "idle" => Called \in Attached

(* A target that has an address is excused, or it is the one the call has  *)
(* just given it to, or a device attached at that address is its own. A    *)
(* device whose ID was read wrong counts, one without an ID does not: the  *)
(* next call may give it any.                                              *)
TargetsOwned ==
  \A t \in up : at[t] # 0 /\ t \notin strays /\ t # call.won =>
    \E e \in Attached :
      /\ devices[e].desired_da = at[t]
      /\ known[e] = t \/ known[e] \notin Targets \cup {NoId}

(* The target that won the arbitration is excused, has lost power, or is   *)
(* alone at the address of the device, so that the ID read is its own.     *)
WinnerOwned ==
  pc # "idle" =>
    \/ call.won \in strays
    \/ at[call.won] = 0
    \/ /\ at[call.won] = devices[Called].desired_da
       /\ AtCalled = {call.won}
       /\ pc = "getbcr" => call.pid = call.won
       /\ pc \in {"enable", "ok"} => known[Called] = call.won

(* What was read is the ID of a target still there, unless one lost power, *)
(* nobody answered or two did; and the BCR is the same target's.           *)
IdRead ==
  /\ pc = "getbcr" => known[Called] \in {call.pid, NoId}
  /\ pc \in {"enable", "ok"} => known[Called] = call.pid
  /\ pc \in {"getbcr", "enable", "ok"} =>
       call.pid \in dropped \cup {None, Junk} \cup AtCalled
  /\ pc \in {"enable", "ok"} /\ call.pid \in AtCalled =>
       call.bcr = call.pid \/ dropped # {} \/ AtCalled # {call.pid}

BusInv == BusTypeOK /\ Targeted /\ TargetsOwned /\ WinnerOwned /\ IdRead

LEMMA BusInitInv == BusInit => BusInv
<1> SUFFICES ASSUME BusInit PROVE BusInv
  OBVIOUS
<1>1. 0 \in Address
  BY DEF Address
<1>2. BusTypeOK
  BY <1>1, EmptySeq DEF BusInit, Init, BusTypeOK, NoCall, None, NoId
<1> QED
  BY <1>2 DEF BusInit, BusInv, Targeted, TargetsOwned, WinnerOwned, IdRead

-----------------------------------------------------------------------------
(* What the steps have in common.                                          *)

(* A command sent to a device that is mapped reaches exactly the targets   *)
(* at the address it was attached with.                                    *)
LEMMA HeardFacts ==
  ASSUME Inv, BusTypeOK, NEW da, FindByAddr(da) \in Attached
  PROVE  /\ PosOfAddr(da) # {} => HeardAt(da) = Answering(da)
         /\ \A p \in PosOfAddr(da) :
              /\ p \in Pos
              /\ dat[p].addr = devices[FindByAddr(da)].desired_da
<1>1. FindByAddr(da) # NoDev
  BY LenProperties DEF Inv, TypeOK, Attached, NoDev
<1>2. \A p \in PosOfAddr(da) :
         p \in Pos /\ dat[p].addr = devices[FindByAddr(da)].desired_da
  BY <1>1 DEF PosOfAddr, PosOf, PositionsOf, Inv, RoutedToDevice
<1>3. \A p \in PosOfAddr(da) :
         Heard(p) = Holding(devices[FindByAddr(da)].desired_da)
  BY <1>2 DEF Heard
<1> QED
  BY <1>2, <1>3 DEF HeardAt, Answering

(* What a read returns: nothing, the ID of one who hears it, or a mixture  *)
(* of two.                                                                 *)
LEMMA AnswerFacts ==
  ASSUME Inv, BusTypeOK, NEW da, FindByAddr(da) \in Attached,
         NEW x \in Answers(da)
  PROVE  /\ x \in Int
         /\ x \in Answering(da) \cup {None, Junk}
         /\ Answering(da) # {} => x # None
         /\ \A t \in Answering(da) : Answering(da) = {t} => x = t
<1> DEFINE S == Answering(da)
<1>1. S \subseteq up /\ up \subseteq Targets /\ Targets \subseteq Nat \ {0}
  BY BusAssumption DEF Answering, Holding, BusTypeOK
<1>2. PosOfAddr(da) # {}
  BY DEF Answers
<1>3. HeardAt(da) = S
  BY <1>2, HeardFacts DEF Answering
<1> HIDE DEF S
<1>4. CASE up = {}
  BY <1>1, <1>2, <1>4 DEF Answers, S, None
<1>5. CASE up # {}
  <2>1. x \in S \/ (x = Junk /\ \E t, u \in S : t # u)
    BY <1>2, <1>3, <1>5 DEF Answers
  <2>2. \A y \in S : y \in Int /\ y # 0
    BY <1>1
  <2>4. x \in Int /\ x # None
    BY <2>1, <2>2 DEF None, Junk
  <2>3. x \in S \cup {Junk} /\ \A t \in S : S = {t} => x = t
    BY <2>1
  <2> QED
    BY <2>3, <2>4 DEF S
<1> QED
  BY <1>4, <1>5 DEF S

(* The winner of the arbitration is a target with power and no address.    *)
LEMMA LeastJoins ==
  ASSUME BusTypeOK, Joining # {}
  PROVE  Least(Joining) \in Joining
<1>1. Joining \subseteq Nat
  BY BusAssumption DEF Joining, BusTypeOK
<1>2. \E d \in Joining : \A e \in Joining : d <= e
  BY <1>1, LeastElement
<1> QED
  BY <1>2 DEF Least

(* Between two calls only the first half of the invariant says anything.   *)
LEMMA IdleInv ==
  ASSUME BusTypeOK', TargetsOwned', pc' = "idle"
  PROVE  BusInv'
BY DEF BusInv, Targeted, WinnerOwned, IdRead

-----------------------------------------------------------------------------
(* assign_dynamic_address, step by step.                                   *)

LEMMA NoCallType ==
  NoCall \in [da : Address, won : Targets \cup {None}, pid : Int, bcr : Int]
<1>1. 0 \in Address /\ NoId \in Int /\ None \in Int
  BY DEF Address, NoId, None
<1> QED
  BY <1>1 DEF NoCall

(* A call that fails leaves the target it gave the address to excused.     *)
LEMMA FailsInv ==
  ASSUME BusInv, Fails(call.won), UNCHANGED <<attach, known, targets>>
  PROVE  BusInv'
<1> USE DEF BusInv
<1>1. BusTypeOK'
  BY NoCallType DEF BusTypeOK, Fails, attach, vars, targets
<1>3. TargetsOwned'
  <2> SUFFICES ASSUME NEW t \in up, at[t] # 0, t \notin strays'
               PROVE  \E e \in Attached :
                        /\ devices[e].desired_da = at[t]
                        /\ known[e] = t \/ known[e] \notin Targets \cup {NoId}
    <3>1. /\ devices' = devices /\ known' = known /\ at' = at /\ up' = up
          /\ Attached' = Attached
      BY DEF attach, vars, targets, Attached
    <3> QED
      BY <3>1 DEF TargetsOwned
  <2>1. t \in Targets /\ t # None /\ strays' = IF call.won = None THEN strays
                                  ELSE strays \cup {call.won}
    BY BusAssumption DEF BusTypeOK, Fails, None
  <2>2. t \notin strays /\ t # call.won
    BY <2>1
  <2> QED
    BY <2>2 DEF TargetsOwned
<1> QED
  BY <1>1, <1>3, IdleInv DEF Fails

LEMMA AssignInv ==
  ASSUME Inv, BusInv, NEW da \in Wanted, Assign(da)
  PROVE  BusInv'
<1> DEFINE w == Least(Joining)
           d == FindByAddr(da)
<1> USE DEF BusInv
<1>1. PICK p \in PosOfAddr(da) : Entdaa(da, p)
  BY DEF Assign
<1>2. /\ pc = "idle" /\ call = NoCall /\ call.won = None
      /\ UNCHANGED <<devices, by_pos, in_use, dat, shared, known, up>>
      /\ None \notin Targets
  BY BusAssumption DEF Assign, BusTypeOK, NoCall, attach, vars, None
<1>3. d \in Attached
  <2>1. d # NoDev
    BY <1>1 DEF PosOfAddr
  <2> QED
    BY <2>1, FindFacts DEF Inv
<1>4. /\ p \in Pos /\ dat[p].addr = devices[d].desired_da
      /\ dat[p].addr \in Address
  <2>1. p \in Pos /\ dat[p].addr = devices[d].desired_da
    BY <1>1, <1>3, HeardFacts
  <2> QED
    BY <2>1 DEF Inv, TypeOK, DatEntry
<1>5. Attached' = Attached /\ FindByAddr(da)' = d
  BY <1>2 DEF Attached, FindByAddr, FirstDev
<1>6. ASSUME NEW t \in up, at[t] # 0, t \notin strays
      PROVE  \E e \in Attached :
               /\ devices[e].desired_da = at[t]
               /\ known[e] = t \/ known[e] \notin Targets \cup {NoId}
  BY <1>2, <1>6 DEF TargetsOwned, BusTypeOK
<1>7. CASE Fails(None) /\ UNCHANGED at
  BY <1>2, <1>7, FailsInv DEF targets, attach, vars
<1> HIDE DEF d
<1>8. CASE Joining # {} /\ Gives(w, dat[p].addr) /\ (Fails(w) \/ pc' = "getpid")
  <2>1. w \in Joining /\ w \in up /\ w \in Targets /\ at[w] = 0
    <3>1. w \in Joining
      BY <1>8, LeastJoins
    <3> QED
      BY <3>1 DEF Joining, BusTypeOK
  <2> HIDE DEF w
  <2>2. /\ at' \in [Targets -> Address]
        /\ at'[w] = dat[p].addr
        /\ \A t \in Targets : t # w => at'[t] = at[t]
    BY <1>4, <1>8, <2>1 DEF Gives, BusTypeOK
  <2>3. ASSUME NEW t \in up, at'[t] # 0, t \notin strays, t # w
        PROVE  \E e \in Attached :
                 /\ devices[e].desired_da = at'[t]
                 /\ known[e] = t \/ known[e] \notin Targets \cup {NoId}
    <3>1. at'[t] = at[t]
      BY <2>2, <2>3 DEF BusTypeOK
    <3> QED
      BY <1>6, <2>3, <3>1
  <2>4. CASE Fails(w)
    <3>1. /\ pc' = "idle" /\ call' = NoCall /\ strays' = strays \cup {w}
      BY <1>2, <2>1, <2>4 DEF Fails
    <3>2. BusTypeOK'
      BY <1>2, <2>1, <2>2, <3>1, NoCallType DEF BusTypeOK
    <3>3. TargetsOwned'
      BY <1>2, <1>5, <2>3, <3>1 DEF TargetsOwned
    <3> QED
      BY <3>1, <3>2, <3>3, IdleInv
  <2>5. CASE /\ pc' = "getpid"
             /\ call' = [da |-> da, won |-> w, pid |-> NoId, bcr |-> None]
             /\ strays' = IF Heard(p) = {} THEN strays ELSE strays \cup {w}
    <3>1. /\ call'.da = da /\ call'.won = w
      BY <2>5
    <3>2. BusTypeOK'
      <4>1. da \in Address
        BY AttachAssumption
      <4>2. call' \in [da : Address, won : Targets \cup {None}, pid : Int, bcr : Int]
        <5>1. NoId \in Int /\ None \in Int
          BY DEF NoId, None
        <5> QED
          BY <2>1, <2>5, <4>1, <5>1
      <4>3. \A t \in Targets \ up' : at'[t] = 0
        BY <1>2, <2>1, <2>2 DEF BusTypeOK
      <4> QED
        BY <1>2, <2>1, <2>2, <2>5, <3>1, <4>2, <4>3 DEF BusTypeOK
    <3>3. Called' = d
      BY <1>5, <3>1, <1>2 DEF Called, FindByAddr, d, Attached
    <3>4. Targeted'
      BY <1>3, <1>5, <3>3 DEF Targeted
    <3>5. TargetsOwned'
      BY <1>2, <1>5, <2>3, <2>5, <3>1 DEF TargetsOwned
    <3>6. WinnerOwned'
      <4>1. CASE Heard(p) # {}
        BY <2>5, <3>1, <4>1 DEF WinnerOwned
      <4>2. CASE at'[w] = 0
        BY <3>1, <4>2 DEF WinnerOwned
      <4>3. CASE Heard(p) = {} /\ at'[w] # 0
        <5>1. \A t \in up : at[t] # devices[d].desired_da
          BY <1>4, <2>2, <4>3 DEF Heard, Holding
        <5>2. \A t \in up : at'[t] = devices[d].desired_da <=> t = w
          BY <1>4, <2>1, <2>2, <5>1 DEF BusTypeOK
        <5>3. devices[d].desired_da # 0
          BY <1>4, <2>2, <4>3
        <5>4. AtCalled' = {t \in up : at'[t] = devices[d].desired_da}
          BY <1>2, <3>3, <5>3 DEF AtCalled, Answering, Called, Holding
        <5>5. AtCalled' = {w}
          BY <2>1, <5>2, <5>4
        <5> QED
          BY <1>2, <1>4, <2>2, <2>5, <3>1, <3>3, <5>5 DEF WinnerOwned
      <4> QED
        BY <4>1, <4>2, <4>3
    <3>7. IdRead'
      BY <2>5 DEF IdRead
    <3> QED
      BY <3>2, <3>4, <3>5, <3>6, <3>7
  <2> QED
    BY <1>1, <1>8, <2>4, <2>5 DEF Entdaa, w, Fails, Gives
<1> QED
  BY <1>1, <1>7, <1>8 DEF Entdaa

(* GetPid, GetBcr and Enable leave the devices' addresses, the targets and *)
(* what the call is about alone.                                           *)
LEMMA SameCall ==
  ASSUME BusInv, pc # "idle", pc' # "idle",
         UNCHANGED <<devices, at, up>>,
         call'.da = call.da, call'.won = call.won
  PROVE  /\ Called' = Called /\ AtCalled' = AtCalled
         /\ Attached' = Attached /\ Targeted'
<1>1. Called' = Called /\ Attached' = Attached
  BY DEF Called, FindByAddr, Attached
<1>2. AtCalled' = AtCalled
  BY <1>1 DEF AtCalled, Answering, Called, Holding
<1> QED
  BY <1>1, <1>2 DEF BusInv, Targeted

LEMMA GetPidInv ==
  ASSUME Inv, BusInv, GetPid
  PROVE  BusInv'
<1>1. CASE Fails(call.won)
  BY <1>1, FailsInv DEF GetPid
<1>2. ASSUME NEW pid \in Answers(call.da),
             known[FindByAddr(call.da)] \in {pid, NoId},
             Read(pid, None), pc' = "getbcr", UNCHANGED <<strays, dropped>>
      PROVE  BusInv'
  <2> USE DEF BusInv
  <2>1. /\ call' = [da |-> call.da, won |-> call.won, pid |-> pid, bcr |-> None]
        /\ call'.da = call.da /\ call'.won = call.won /\ call'.pid = pid
        /\ pc = "getpid" /\ Called \in Attached
        /\ UNCHANGED <<devices, known, at, up, strays, dropped>>
    BY <1>2 DEF Read, GetPid, attach, vars, targets, Targeted
  <2>2. Called' = Called /\ AtCalled' = AtCalled /\ Attached' = Attached /\ Targeted'
    BY <1>2, <2>1, SameCall
  <2>3. /\ pid \in Int
        /\ pid \in AtCalled \cup {None, Junk}
        /\ \A t \in AtCalled : AtCalled = {t} => pid = t
    BY <2>1, AnswerFacts DEF Called, AtCalled
  <2>4. BusTypeOK'
    <3>1. None \in Int
      BY DEF None
    <3>2. call' \in [da : Address, won : Targets \cup {None}, pid : Int, bcr : Int]
      BY <2>1, <2>3, <3>1 DEF BusTypeOK
    <3> QED
      BY <1>2, <2>1, <3>2 DEF BusTypeOK
  <2>5. TargetsOwned'
    BY <2>1, <2>2 DEF TargetsOwned
  <2>6. WinnerOwned'
    BY <1>2, <2>1, <2>2, <2>3 DEF WinnerOwned
  <2>7. IdRead'
    BY <1>2, <2>1, <2>2, <2>3 DEF IdRead, Called
  <2> QED
    BY <2>2, <2>4, <2>5, <2>6, <2>7
<1> QED
  BY <1>1, <1>2 DEF GetPid

LEMMA GetBcrInv ==
  ASSUME Inv, BusInv, GetBcr
  PROVE  BusInv'
<1>1. CASE Fails(call.won) /\ known' = known
  BY <1>1, FailsInv DEF GetBcr
<1>2. ASSUME NEW bcr \in Answers(call.da), Read(call.pid, bcr),
             known' = [known EXCEPT ![FindByAddr(call.da)] = call.pid],
             pc' = "enable", UNCHANGED <<strays, dropped>>
      PROVE  BusInv'
  <2> USE DEF BusInv
  <2>1. /\ call' = [da |-> call.da, won |-> call.won, pid |-> call.pid,
                    bcr |-> bcr]
        /\ call'.da = call.da /\ call'.won = call.won /\ call'.pid = call.pid
        /\ call'.bcr = bcr
        /\ pc = "getbcr" /\ Called \in Attached
        /\ UNCHANGED <<devices, at, up, strays, dropped>>
    BY <1>2 DEF Read, GetBcr, attach, vars, targets, Targeted
  <2>2. Called' = Called /\ AtCalled' = AtCalled /\ Attached' = Attached /\ Targeted'
    BY <1>2, <2>1, SameCall
  <2>3. /\ bcr \in Int
        /\ \A t \in AtCalled : AtCalled = {t} => bcr = t
    BY <2>1, AnswerFacts DEF Called, AtCalled
  <2>4. /\ Called \in 1 .. Len(known) /\ Attached = 1 .. Len(known)
        /\ known \in Seq(Int) /\ call.pid \in Int
    BY <2>1, LenProperties DEF BusTypeOK, Attached, Inv, TypeOK
  <2>5. /\ known' \in Seq(Int) /\ Len(known') = Len(known)
        /\ \A i \in 1 .. Len(known) :
             known'[i] = IF i = Called THEN call.pid ELSE known[i]
    BY <1>2, <2>4, ExceptSeq DEF Called
  <2>6. BusTypeOK'
    <3>1. call' \in [da : Address, won : Targets \cup {None}, pid : Int, bcr : Int]
      BY <2>1, <2>3 DEF BusTypeOK
    <3> QED
      BY <1>2, <2>1, <2>5, <3>1 DEF BusTypeOK
  <2>7. TargetsOwned'
    <3> SUFFICES ASSUME NEW t \in up, at[t] # 0, t \notin strays, t # call.won
                 PROVE  \E e \in Attached :
                          /\ devices[e].desired_da = at[t]
                          /\ known'[e] = t \/ known'[e] \notin Targets \cup {NoId}
      BY <2>1, <2>2 DEF TargetsOwned
    <3>1. PICK e \in Attached :
            /\ devices[e].desired_da = at[t]
            /\ known[e] = t \/ known[e] \notin Targets \cup {NoId}
      BY DEF TargetsOwned
    <3>2. t \in Targets /\ NoId \notin Targets
      BY BusAssumption DEF BusTypeOK, NoId
    <3>3. known[e] # NoId
      BY <3>1, <3>2
    <3>4. known'[e] = known[e]
      BY <2>1, <2>4, <2>5, <3>3 DEF IdRead
    <3> QED
      BY <3>1, <3>4
  <2>8. WinnerOwned'
    BY <1>2, <2>1, <2>2, <2>4, <2>5 DEF WinnerOwned
  <2>9. IdRead'
    BY <1>2, <2>1, <2>2, <2>3, <2>4, <2>5 DEF IdRead
  <2> QED
    BY <2>2, <2>6, <2>7, <2>8, <2>9
<1> QED
  BY <1>1, <1>2 DEF GetBcr

LEMMA EnableInv ==
  ASSUME BusInv, Enable
  PROVE  BusInv'
<1> USE DEF BusInv
<1>1. /\ pc = "enable" /\ pc' = "ok"
      /\ UNCHANGED <<devices, known, at, up, call, strays, dropped>>
  BY DEF Enable, IbiEnable, targets
<1>2. Called' = Called /\ AtCalled' = AtCalled /\ Attached' = Attached /\ Targeted'
  BY <1>1, SameCall
<1>3. BusTypeOK'
  BY <1>1 DEF BusTypeOK
<1>4. TargetsOwned'
  BY <1>1, <1>2 DEF TargetsOwned
<1>5. WinnerOwned'
  BY <1>1, <1>2 DEF WinnerOwned
<1>6. IdRead'
  BY <1>1, <1>2 DEF IdRead
<1> QED
  BY <1>2, <1>3, <1>4, <1>5, <1>6

(* The target that won is the device's own by now, or excused.             *)
LEMMA ReturnInv ==
  ASSUME BusInv, Return
  PROVE  BusInv'
<1> USE DEF BusInv
<1>1. /\ pc = "ok" /\ pc' = "idle" /\ call' = NoCall
      /\ UNCHANGED <<devices, known, at, up, strays>>
  BY DEF Return, attach, vars, targets
<1>2. BusTypeOK'
  BY <1>1, NoCallType DEF BusTypeOK
<1>3. TargetsOwned'
  <2> SUFFICES ASSUME NEW t \in up, at[t] # 0, t \notin strays
               PROVE  \E e \in Attached :
                        /\ devices[e].desired_da = at[t]
                        /\ known[e] = t \/ known[e] \notin Targets \cup {NoId}
    BY <1>1 DEF TargetsOwned, Attached
  <2>1. CASE t # call.won
    BY <2>1 DEF TargetsOwned
  <2>2. CASE t = call.won
    BY <1>1, <2>2 DEF WinnerOwned, Targeted
  <2> QED
    BY <2>1, <2>2
<1> QED
  BY <1>1, <1>2, <1>3, IdleInv

-----------------------------------------------------------------------------
(* The other operations, and the targets themselves.                       *)

LEMMA AttachInv ==
  ASSUME Inv, BusInv, NEW t \in Expected \cup {NoId}, NEW da \in Wanted,
         NEW s \in Slot, Attach(t, da, s)
  PROVE  BusInv'
<1> DEFINE new == [dyn_addr |-> da, desired_da |-> da, pos |-> s]
<1> USE DEF BusInv
<1>1. /\ pc = "idle" /\ UNCHANGED <<pc, call, up, dropped, at, strays>>
      /\ devices' = Append(devices, new) /\ known' = Append(known, t)
  BY DEF Attach, Alone, AttachDev
<1>2. new \in DeviceEntry
  BY AttachAssumption DEF DeviceEntry
<1>3. t \in Int
  BY BusAssumption DEF NoId
<1> HIDE DEF new
<1>4. /\ devices \in Seq(DeviceEntry) /\ known \in Seq(Int)
      /\ Len(known) = Len(devices) /\ Attached = 1 .. Len(devices)
  BY LenProperties DEF Inv, TypeOK, BusTypeOK, Attached
<1>5. /\ devices' \in Seq(DeviceEntry) /\ Len(devices') = Len(devices) + 1
      /\ \A i \in 1 .. Len(devices) : devices'[i] = devices[i]
  BY <1>1, <1>2, <1>4, AppendProperties
<1>6. /\ known' \in Seq(Int) /\ Len(known') = Len(devices) + 1
      /\ \A i \in 1 .. Len(devices) : known'[i] = known[i]
  BY <1>1, <1>3, <1>4, AppendProperties
<1>7. Attached \subseteq Attached'
  BY <1>4, <1>5, LenProperties DEF Attached
<1>8. BusTypeOK'
  BY <1>1, <1>5, <1>6 DEF BusTypeOK
<1>9. TargetsOwned'
  <2> SUFFICES ASSUME NEW u \in up, at[u] # 0, u \notin strays, u # call.won
               PROVE  \E e \in Attached' :
                        /\ devices'[e].desired_da = at[u]
                        /\ known'[e] = u \/ known'[e] \notin Targets \cup {NoId}
    BY <1>1 DEF TargetsOwned
  <2>1. PICK e \in Attached :
          /\ devices[e].desired_da = at[u]
          /\ known[e] = u \/ known[e] \notin Targets \cup {NoId}
    BY DEF TargetsOwned
  <2>2. devices'[e] = devices[e] /\ known'[e] = known[e]
    BY <1>4, <1>5, <1>6
  <2> QED
    BY <1>7, <2>1, <2>2
<1> QED
  BY <1>1, <1>8, <1>9, IdleInv

(* A device that is detached takes its ID with it; those behind it keep    *)
(* theirs.                                                                 *)
LEMMA ForgetInv ==
  ASSUME Inv, BusInv, pc = "idle", NEW d \in Attached, DetachDev(d), Forget(d),
         UNCHANGED <<pc, call, up, dropped, at>>
  PROVE  BusInv'
<1> USE DEF BusInv
<1>1. /\ devices \in Seq(DeviceEntry) /\ known \in Seq(Int)
      /\ Len(devices) \in Nat
      /\ Len(known) = Len(devices) /\ Attached = 1 .. Len(devices)
  BY LenProperties DEF Inv, TypeOK, BusTypeOK, Attached
<1>2. /\ devices' \in Seq(DeviceEntry) /\ Len(devices') = Len(devices) - 1
      /\ \A i \in 1 .. Len(devices) - 1 :
           devices'[i] = IF i < d THEN devices[i] ELSE devices[i + 1]
  BY <1>1, RemoveAtFacts DEF DetachDev
<1>3. /\ known' \in Seq(Int) /\ Len(known') = Len(devices) - 1
      /\ \A i \in 1 .. Len(devices) - 1 :
           known'[i] = IF i < d THEN known[i] ELSE known[i + 1]
  <2>1. known' = RemoveAt(known, d) /\ d \in 1 .. Len(known)
    BY <1>1 DEF Forget
  <2> QED
    BY <1>1, <2>1, RemoveAtFacts
<1>4. Attached' = 1 .. Len(devices) - 1
  BY <1>2, LenProperties DEF Attached
<1>5. ASSUME NEW e \in Attached, e # d
      PROVE  \E i \in Attached' : devices'[i] = devices[e] /\ known'[i] = known[e]
  <2>1. CASE e < d
    <3>1. e \in 1 .. Len(devices) - 1
      BY <1>1, <2>1
    <3> QED
      BY <1>2, <1>3, <1>4, <2>1, <3>1
  <2>2. CASE ~(e < d)
    <3>1. e - 1 \in 1 .. Len(devices) - 1 /\ ~(e - 1 < d) /\ e - 1 + 1 = e
      BY <1>1, <1>5, <2>2
    <3> QED
      BY <1>2, <1>3, <1>4, <3>1
  <2> QED
    BY <2>1, <2>2
<1>6. BusTypeOK'
  BY <1>2, <1>3 DEF BusTypeOK
<1>7. TargetsOwned'
  <2> SUFFICES ASSUME NEW t \in up, at[t] # 0, t \notin strays', t # call.won
               PROVE  \E i \in Attached' :
                        /\ devices'[i].desired_da = at[t]
                        /\ known'[i] = t \/ known'[i] \notin Targets \cup {NoId}
    BY DEF TargetsOwned
  <2>1. t \notin strays /\ t \notin Holding(devices[d].desired_da)
    BY DEF Forget
  <2>2. PICK e \in Attached :
          /\ devices[e].desired_da = at[t]
          /\ known[e] = t \/ known[e] \notin Targets \cup {NoId}
    BY <2>1 DEF TargetsOwned
  <2>3. e # d
    BY <2>1, <2>2 DEF Holding
  <2> QED
    BY <1>5, <2>2, <2>3
<1> QED
  BY <1>6, <1>7, IdleInv

(* Between two calls, a target may lose its address or be excused, and a   *)
(* device be given another one, but not be attached at another one.        *)
LEMMA ExcusedInv ==
  ASSUME BusInv, pc = "idle", UNCHANGED <<pc, call, up, dropped, known>>,
         at' \in [Targets -> Address],
         Attached' = Attached, Len(devices') = Len(devices),
         \A e \in Attached : devices'[e].desired_da = devices[e].desired_da,
         \A t \in up : at'[t] \in {0, at[t]} \/ t \in strays',
         \A t \in Targets \ up : at'[t] = 0,
         \A t \in strays : t \in strays' \/ at'[t] = 0
  PROVE  BusInv'
<1> USE DEF BusInv
<1>1. BusTypeOK'
  BY DEF BusTypeOK
<1>2. TargetsOwned'
  <2> SUFFICES ASSUME NEW t \in up, at'[t] # 0, t \notin strays', t # call.won
               PROVE  \E e \in Attached :
                        /\ devices'[e].desired_da = at'[t]
                        /\ known[e] = t \/ known[e] \notin Targets \cup {NoId}
    BY DEF TargetsOwned
  <2>1. at'[t] = at[t] /\ t \notin strays
    OBVIOUS
  <2> QED
    BY <2>1 DEF TargetsOwned
<1> QED
  BY <1>1, <1>2, IdleInv

LEMMA PowerInv ==
  ASSUME BusInv, NEW t \in Targets, PowerOff(t) \/ PowerOn(t)
  PROVE  BusInv'
<1> USE DEF BusInv
<1>1. /\ UNCHANGED <<devices, known, pc, call>> /\ Attached' = Attached
      /\ Called' = Called
  BY DEF PowerOff, PowerOn, attach, vars, Attached, Called, FindByAddr
<1>2. at \in [Targets -> Address] /\ up \subseteq Targets /\ 0 \in Address
  BY DEF BusTypeOK, Address
<1>3. CASE PowerOff(t)
  <2>1. /\ t \in up /\ up' = up \ {t} /\ at' = [at EXCEPT ![t] = 0]
        /\ strays' = strays \ {t}
        /\ at' \in [Targets -> Address] /\ at'[t] = 0
        /\ \A u \in Targets : u # t => at'[u] = at[u]
        /\ pc # "idle" => t \in dropped' /\ dropped \subseteq dropped'
    BY <1>2, <1>3 DEF PowerOff, Gives
  <2>2. AtCalled' = AtCalled \ {t}
    BY <1>1, <1>2, <2>1 DEF AtCalled, Answering, Called, Holding
  <2>3. BusTypeOK'
    BY <1>1, <1>2, <2>1 DEF BusTypeOK
  <2>4. TargetsOwned'
    BY <1>1, <1>2, <2>1 DEF TargetsOwned
  <2>5. WinnerOwned'
    <3> SUFFICES ASSUME pc # "idle", call.won # t
                 PROVE  WinnerOwned'
      BY <1>1, <2>1 DEF WinnerOwned
    <3>1. at'[call.won] = at[call.won]
      BY <2>1 DEF BusTypeOK
    <3> QED
      BY <1>1, <2>1, <2>2, <3>1 DEF WinnerOwned
  <2>6. IdRead'
    BY <1>1, <2>1, <2>2 DEF IdRead
  <2>7. Targeted'
    BY <1>1 DEF Targeted
  <2> QED
    BY <2>3, <2>4, <2>5, <2>6, <2>7
<1>4. CASE PowerOn(t)
  <2>1. /\ t \notin up /\ up' = up \cup {t} /\ at' = at /\ strays' = strays
        /\ at[t] = 0 /\ dropped' = dropped
    BY <1>2, <1>4 DEF PowerOn, BusTypeOK
  <2>2. AtCalled' = AtCalled
    BY <1>1, <1>2, <2>1 DEF AtCalled, Answering, Called, Holding
  <2>3. BusTypeOK'
    BY <1>1, <1>2, <2>1 DEF BusTypeOK
  <2>4. TargetsOwned'
    BY <1>1, <1>2, <2>1 DEF TargetsOwned
  <2>5. WinnerOwned'
    BY <1>1, <2>1, <2>2 DEF WinnerOwned
  <2>6. IdRead'
    BY <1>1, <2>1, <2>2 DEF IdRead
  <2>7. Targeted'
    BY <1>1 DEF Targeted
  <2> QED
    BY <2>3, <2>4, <2>5, <2>6, <2>7
<1> QED
  BY <1>3, <1>4

LEMMA BusStepInv == Inv /\ BusInv /\ [BusNext]_busVars => BusInv'
<1> SUFFICES ASSUME Inv, BusInv, [BusNext]_busVars PROVE BusInv'
  OBVIOUS
<1>1. /\ at \in [Targets -> Address] /\ up \subseteq Targets /\ 0 \in Address
      /\ \A t \in Targets \ up : at[t] = 0
      /\ Targets \subseteq Nat
  BY BusAssumption DEF BusInv, BusTypeOK, Address
<1>2. ASSUME UNCHANGED <<devices, at, strays>>, Alone, known' = known
      PROVE  BusInv'
  <2>1. Attached' = Attached
    BY <1>2 DEF Attached
  <2> QED
    BY <1>1, <1>2, <2>1, ExcusedInv DEF Alone
<1>3. ASSUME NEW da \in Wanted, EnableIbi(da)
      PROVE  BusInv'
  BY <1>2, <1>3 DEF EnableIbi, IbiEnable, ForgetNone
<1>4. ASSUME NEW p \in Slot, DetachPos(p)
      PROVE  BusInv'
  <2>1. CASE p \in Pos /\ by_pos[p] # NoDev
    <3>1. by_pos[p] \in Attached
      BY <2>1 DEF Inv, PosIndexOK
    <3>2. /\ DetachDev(by_pos[p]) /\ Forget(by_pos[p]) /\ pc = "idle"
          /\ UNCHANGED <<pc, call, up, dropped, at>>
      BY <1>4, <2>1 DEF DetachPos, DetachByPos, Alone
    <3> QED
      BY <3>1, <3>2, ForgetInv
  <2>2. CASE ~(p \in Pos /\ by_pos[p] # NoDev)
    BY <1>2, <1>4, <2>2 DEF DetachPos, DetachByPos, ForgetNone
  <2> QED
    BY <2>1, <2>2
<1>5. ASSUME NEW d \in Dev, DetachIdx(d)
      PROVE  BusInv'
  BY <1>5, ForgetInv DEF DetachIdx, DetachByIdx, Alone
<1>6. ASSUME NEW s \in Wanted \cup {0}, NEW d \in Wanted \cup {0}, PickDa(s, d)
      PROVE  BusInv'
  BY <1>2, <1>6 DEF PickDa, PickInitialDa, ForgetNone
<1>7. ASSUME NEW f \in Wanted, NEW t \in Wanted, Reassign(f, t)
      PROVE  BusInv'
  <2> DEFINE d == FindByAddr(f)
  <2>1. /\ Alone /\ UNCHANGED <<known, strays, at>>
        /\ devices' = IF d = NoDev THEN devices
                      ELSE [devices EXCEPT ![d] = Moved(devices[d], t)]
    BY <1>7 DEF Reassign, ReassignDa, ForgetNone
  <2>2. CASE d = NoDev
    BY <1>2, <2>1, <2>2
  <2>3. CASE d # NoDev
    <3>1. d \in Attached
      BY <2>3, FindFacts DEF Inv
    <3> HIDE DEF d
    <3>2. /\ devices \in Seq(DeviceEntry) /\ Attached = 1 .. Len(devices)
          /\ devices[d] \in DeviceEntry
      BY <3>1, LenProperties DEF Inv, TypeOK, Attached
    <3>3. /\ Moved(devices[d], t) \in DeviceEntry
          /\ Moved(devices[d], t).desired_da = devices[d].desired_da
      BY <3>2, AttachAssumption DEF Moved, DeviceEntry
    <3>4. /\ devices' \in Seq(DeviceEntry) /\ Len(devices') = Len(devices)
          /\ \A i \in 1 .. Len(devices) :
               devices'[i] = IF i = d THEN Moved(devices[d], t) ELSE devices[i]
      BY <2>1, <2>3, <3>1, <3>2, <3>3, ExceptSeq
    <3>5. /\ Attached' = Attached
          /\ \A e \in Attached : devices'[e].desired_da = devices[e].desired_da
      BY <3>2, <3>3, <3>4, LenProperties DEF Attached
    <3> QED
      BY <1>1, <2>1, <3>4, <3>5, ExcusedInv DEF Alone
  <2> QED
    BY <2>2, <2>3
<1>8. ASSUME NEW f \in Wanted, NEW t \in Wanted, SetNewDa(f, t)
      PROVE  BusInv'
  <2>1. /\ Alone /\ UNCHANGED <<devices, known>> /\ Attached' = Attached
        /\ at' = [u \in Targets |-> IF u \in HeardAt(f) THEN t ELSE at[u]]
        /\ strays' = strays \cup HeardAt(f)
    BY <1>8 DEF SetNewDa, attach, vars, Attached
  <2>2. HeardAt(f) \subseteq up
    BY DEF HeardAt, Heard, Holding
  <2>3. at' \in [Targets -> Address]
    BY <1>1, <2>1, AttachAssumption
  <2> QED
    BY <1>1, <2>1, <2>2, <2>3, ExcusedInv DEF Alone
<1>9. CASE Rstdaa
  <2>1. /\ Alone /\ UNCHANGED <<devices, known>> /\ Attached' = Attached
        /\ at' = [t \in Targets |-> IF t \in up THEN 0 ELSE at[t]]
        /\ strays' = strays \ up
    BY <1>9 DEF Rstdaa, attach, vars, Attached
  <2> QED
    BY <1>1, <2>1, ExcusedInv DEF Alone
<1>10. CASE UNCHANGED busVars
  BY <1>10 DEF busVars, attach, vars, targets, BusInv, BusTypeOK, Targeted,
               TargetsOwned, WinnerOwned, IdRead, Called, AtCalled, Answering,
               Holding, FindByAddr, Attached
<1> QED
  BY <1>3, <1>4, <1>5, <1>6, <1>7, <1>8, <1>9, <1>10, AssignInv, GetPidInv,
     GetBcrInv, EnableInv, ReturnInv, AttachInv, PowerInv
     DEF BusNext

-----------------------------------------------------------------------------
(* What the invariant is for.                                              *)

LEMMA InvHeard == Inv /\ BusInv => HeardByOwn
<1> SUFFICES ASSUME Inv, BusInv, pc = "idle",
                    NEW p \in Pos, by_pos[p] # NoDev,
                    known[by_pos[p]] \in Targets,
                    \A e \in Attached \ {by_pos[p]} :
                      devices[e].desired_da # devices[by_pos[p]].desired_da,
                    NEW t \in Heard(p), t \notin strays
             PROVE  t = known[by_pos[p]]
  BY DEF HeardByOwn
<1>1. /\ by_pos[p] \in Attached
      /\ dat[p].addr = devices[by_pos[p]].desired_da
  BY DEF Inv, PosIndexOK, RoutedToDevice
<1>2. t \in up /\ at[t] = dat[p].addr /\ at[t] # 0
  BY DEF Heard, Holding
<1>3. t # call.won
  BY <1>2, BusAssumption DEF BusInv, BusTypeOK, NoCall, None
<1>4. PICK e \in Attached :
        /\ devices[e].desired_da = at[t]
        /\ known[e] = t \/ known[e] \notin Targets \cup {NoId}
  BY <1>2, <1>3 DEF BusInv, TargetsOwned
<1>5. e = by_pos[p]
  BY <1>1, <1>2, <1>4
<1> QED
  BY <1>4, <1>5

LEMMA InvOk == Inv /\ BusInv => OkIsOwn
<1> SUFFICES ASSUME Inv, BusInv, pc = "ok",
                    known[Called] \notin dropped \cup {None, Junk}
             PROVE  /\ known[Called] \in AtCalled
                    /\ \/ call.bcr = known[Called] \/ dropped # {}
                       \/ AtCalled # {known[Called]}
                    /\ \/ at[known[Called]] = call.da
                       \/ devices[Called].dyn_addr # devices[Called].desired_da
  BY DEF OkIsOwn, Called, AtCalled, Answering
<1>1. /\ known[Called] = call.pid /\ call.pid \in AtCalled
      /\ \/ call.bcr = call.pid \/ dropped # {}
         \/ AtCalled # {call.pid}
  BY DEF BusInv, IdRead
<1>2. at[call.pid] = devices[Called].desired_da
  BY <1>1 DEF AtCalled, Answering, Holding, Called
<1>3. devices[Called].dyn_addr = call.da
  <2>1. Called # NoDev
    BY LenProperties DEF BusInv, Targeted, Inv, TypeOK, Attached, NoDev
  <2> QED
    BY <2>1, FindFacts DEF Called, Inv
<1> QED
  BY <1>1, <1>2, <1>3

LEMMA BusInvariant == BusSpec => [](Inv /\ BusInv)
<1>1. BusInit => Inv /\ BusInv /\ CallWanted
  BY BusInitInv, InitInv, CallWantedInit DEF BusInit
<1>2. (Inv /\ BusInv /\ CallWanted) /\ [BusNext]_busVars
        => (Inv /\ BusInv /\ CallWanted)'
  BY BusStep, StepInv, BusStepInv, CallWantedNext
<1> QED
  BY <1>1, <1>2, PTL DEF BusSpec

(* Between two calls, what is sent to a device is heard by its own target  *)
(* only, but for the targets that a failed assignment, a detach, SETNEWDA  *)
(* or a second device at the address has left with an address not theirs:  *)
(* for any number of devices, targets and addresses, and however targets   *)
(* lose power in between.                                                  *)
THEOREM OnlyOwnHears == BusSpec => []HeardByOwn
  BY BusInvariant, InvHeard, PTL

(* An assign_dynamic_address that returns Ok has read the ID and the BCR   *)
(* from the target that answers at the address of the device.              *)
THEOREM AssignedIsOwn == BusSpec => []OkIsOwn
  BY BusInvariant, InvOk, PTL

-----------------------------------------------------------------------------
(* In-band interrupts (I3cIbi).                                            *)

Sent == [kind : IbiKind, words : 0 .. MaxWords]
Item == [kind : IbiKind, ibi : Nat, data : Nat]
Cur  == [kind : IbiKind, words : 0 .. MaxWords, ibi : Nat]

Between == {"off", "reset", "count", "loop"}
Reading == {"payload", "drain", "stranger"}
Pcs     == Between \cup Reading \cup {"enqueue"}

Real(k) == k \in 1 .. Len(sent)

SentOK ==
  /\ sent \in Seq(Sent)
  /\ \A k \in 1 .. Len(sent) : sent[k].kind = "hotjoin" => sent[k].words = 0

(* The words of its IBI that are due behind the word at place i.           *)
Left(i) == sent[fifo[i].ibi].words - fifo[i].part

(* Behind the word at place i stands the rest of its IBI, and then what    *)
(* was accepted later, from its status word on.                            *)
Whole(i) ==
  /\ Real(fifo[i].ibi) /\ fifo[i].part <= sent[fifo[i].ibi].words
  /\ i + Left(i) <= Len(fifo)
  /\ \A j \in i + 1 .. i + Left(i) :
       fifo[j].ibi = fifo[i].ibi /\ fifo[j].part = fifo[i].part + (j - i)
  /\ \A j \in i + Left(i) + 1 .. Len(fifo) : fifo[j].ibi > fifo[i].ibi
  /\ i + Left(i) + 1 <= Len(fifo) => fifo[i + Left(i) + 1].part = 0

FifoOK == fifo \in Seq(Word) /\ \A i \in 1 .. Len(fifo) : Whole(i)

(* The word at place j is none of an IBI before k, and no status before    *)
(* that of a later one.                                                    *)
Behind(j, k) == k <= fifo[j].ibi /\ (fifo[j].part = 0 => k < fifo[j].ibi)

(* What the handler decoded from a status word is later than everything    *)
(* reported, and earlier than everything else in the FIFO, also while it   *)
(* has lost its place.                                                     *)
CurOK ==
  /\ isr \in Pcs /\ cur \in Cur /\ data \in Nat
  /\ isr \in Reading => cur.kind # "hotjoin"
  /\ isr \notin Between /\ cur.ibi # Bogus =>
       /\ Real(cur.ibi)
       /\ cur.kind = sent[cur.ibi].kind /\ cur.words = sent[cur.ibi].words
       /\ \A j \in 1 .. Len(fifo) : Behind(j, cur.ibi)
       /\ \A i \in 1 .. Len(Reported) : Reported[i].ibi < cur.ibi

(* The next word is a status word.                                         *)
Aligned == fifo # << >> => fifo[1].part = 0

(* As long as the handler has its place, it stands at a status word or     *)
(* before the payload of the IBI it decoded last.                          *)
PlaceOK ==
  ~astray =>
    /\ isr \in Between \/ (isr \in Reading /\ cur.words = 0) => Aligned
    /\ isr \in Reading /\ cur.words # 0 =>
         fifo # << >> /\ fifo[1].ibi = cur.ibi /\ fifo[1].part = 1
    /\ isr \in {"payload", "stranger", "enqueue"} => cur.ibi # Bogus
    /\ isr = "enqueue" => data = IF cur.words = 0 THEN Bogus ELSE cur.ibi
    /\ isr = "enqueue" /\ ~Overlong => Aligned

ReportOK ==
  /\ consumed \in Seq(Item) /\ workq \in Seq(Item)
  /\ astray \in BOOLEAN
  /\ \A i \in 1 .. Len(Reported) :
       /\ Reported[i].ibi = Bogus \/ Real(Reported[i].ibi)
       /\ \A j \in 1 .. Len(fifo) : Behind(j, Reported[i].ibi)
  /\ RequestsAreReal

RealInv == SentOK /\ FifoOK /\ CurOK /\ PlaceOK /\ ReportOK

-----------------------------------------------------------------------------
(* Taking words off the front of a sequence.                               *)
LEMMA PopSeq ==
  ASSUME NEW S, NEW s \in Seq(S), NEW n \in Nat
  PROVE  /\ SubSeq(s, n + 1, Len(s)) \in Seq(S)
         /\ Len(SubSeq(s, n + 1, Len(s))) = IF n <= Len(s) THEN Len(s) - n ELSE 0
         /\ \A i \in 1 .. Len(SubSeq(s, n + 1, Len(s))) :
              i + n \in 1 .. Len(s) /\ SubSeq(s, n + 1, Len(s))[i] = s[i + n]
<1> DEFINE t == SubSeq(s, n + 1, Len(s))
<1>1. Len(s) \in Nat
  BY LenProperties
<1>2. n + 1 \in Int /\ Len(s) \in Int /\ \A i \in n + 1 .. Len(s) : s[i] \in S
  BY <1>1, ElementOfSeq
<1>3. /\ t \in Seq(S)
      /\ Len(t) = IF n + 1 <= Len(s) THEN Len(s) - (n + 1) + 1 ELSE 0
      /\ \A i \in 1 .. Len(s) - (n + 1) + 1 : t[i] = s[n + 1 + i - 1]
  BY <1>2, SubSeqProperties
<1>4. Len(t) = IF n <= Len(s) THEN Len(s) - n ELSE 0
  BY <1>1, <1>3
<1>5. ASSUME NEW i \in 1 .. Len(t)
      PROVE  i + n \in 1 .. Len(s) /\ t[i] = s[i + n]
  <2>1. i \in 1 .. Len(s) - (n + 1) + 1 /\ n + 1 + i - 1 = i + n
    BY <1>1, <1>3
  <2>2. t[i] = s[n + 1 + i - 1]
    BY <1>3, <2>1, Zenon
  <2> QED BY <2>1, <2>2, <1>1
<1> QED BY <1>3, <1>4, <1>5, Zenon

(* Moving the first element of one sequence to the end of another does not *)
(* change what the two are together.                                       *)
LEMMA MoveHead ==
  ASSUME NEW S, NEW c \in Seq(S), NEW w \in Seq(S), w # << >>
  PROVE  Append(c, Head(w)) \o Tail(w) = c \o w
<1>1. Tail(w) \in Seq(S) /\ Head(w) \in S
  BY HeadTailProperties
<1>2. Append(c, Head(w)) = c \o <<Head(w)>>
  BY <1>1, AppendIsConcat
<1>3. (c \o <<Head(w)>>) \o Tail(w) = c \o (<<Head(w)>> \o Tail(w))
  BY <1>1, ConcatAssociative
<1>4. <<Head(w)>> \o Tail(w) = w
  <2>1. /\ <<Head(w)>> \in Seq(S) /\ Len(<<Head(w)>>) = 1
        /\ <<Head(w)>>[1] = w[1]
    BY <1>1
  <2>2. Len(Tail(w)) = Len(w) - 1 /\ Len(w) \in Nat
    BY HeadTailProperties, LenProperties
  <2>3. /\ <<Head(w)>> \o Tail(w) \in Seq(S)
        /\ Len(<<Head(w)>> \o Tail(w)) = Len(w)
    BY <1>1, <2>1, <2>2, ConcatProperties
  <2>4. ASSUME NEW i \in 1 .. Len(w)
        PROVE  (<<Head(w)>> \o Tail(w))[i] = w[i]
    <3>1. CASE i = 1
      BY <3>1, <1>1, <2>1, <2>2, ConcatProperties
    <3>2. CASE i # 1
      <4>1. (<<Head(w)>> \o Tail(w))[i] = Tail(w)[i - 1]
        BY <3>2, <1>1, <2>1, <2>2, ConcatProperties
      <4>2. i - 1 \in 1 .. Len(Tail(w)) /\ (i - 1) + 1 = i
        BY <3>2, <2>2
      <4>3. Tail(w)[i - 1] = w[(i - 1) + 1]
        BY <4>2, HeadTailProperties, Zenon
      <4> QED BY <4>1, <4>2, <4>3
    <3> QED BY <3>1, <3>2
  <2> QED BY <2>3, <2>4, SeqEqual
<1> QED BY <1>2, <1>3, <1>4

(* Adding to the second of two sequences adds to the two together.         *)
LEMMA ConcatAppend ==
  ASSUME NEW S, NEW c \in Seq(S), NEW w \in Seq(S), NEW x \in S
  PROVE  c \o Append(w, x) = Append(c \o w, x)
<1>1. <<x>> \in Seq(S) /\ c \o w \in Seq(S)
  BY ConcatProperties
<1>2. Append(w, x) = w \o <<x>> /\ Append(c \o w, x) = (c \o w) \o <<x>>
  BY <1>1, AppendIsConcat
<1>3. c \o (w \o <<x>>) = (c \o w) \o <<x>>
  BY <1>1, ConcatAssociative
<1> QED BY <1>2, <1>3

-----------------------------------------------------------------------------
(* The FIFO.                                                               *)

(* The words in the FIFO and what was sent, element by element.            *)
LEMMA Elements ==
  ASSUME IbiAssumption, SentOK, FifoOK
  PROVE  /\ MaxWords \in Nat /\ Len(sent) \in Nat /\ Len(fifo) \in Nat
         /\ (fifo = << >> <=> Len(fifo) = 0)
         /\ \A k \in 1 .. Len(sent) :
              /\ sent[k].kind \in IbiKind /\ sent[k].words \in 0 .. MaxWords
              /\ sent[k].kind = "hotjoin" => sent[k].words = 0
         /\ \A i \in 1 .. Len(fifo) :
              /\ fifo[i].ibi \in 1 .. Len(sent) /\ fifo[i].part \in Nat
              /\ sent[fifo[i].ibi].words \in Nat /\ Left(i) \in Nat
<1>1. MaxWords \in Nat /\ Len(sent) \in Nat /\ Len(fifo) \in Nat
  BY LenProperties DEF IbiAssumption, SentOK, FifoOK
<1>2. fifo = << >> <=> Len(fifo) = 0
  BY EmptySeq DEF FifoOK
<1>3. \A k \in 1 .. Len(sent) : sent[k] \in Sent
  BY ElementOfSeq DEF SentOK
<1>4. \A i \in 1 .. Len(fifo) : fifo[i] \in Word
  BY ElementOfSeq DEF FifoOK
<1>5. \A k \in 1 .. Len(sent) :
        /\ sent[k].kind \in IbiKind /\ sent[k].words \in 0 .. MaxWords
        /\ sent[k].kind = "hotjoin" => sent[k].words = 0
  BY <1>1, <1>3 DEF Sent, SentOK
<1>6. ASSUME NEW i \in 1 .. Len(fifo)
      PROVE  /\ fifo[i].ibi \in 1 .. Len(sent) /\ fifo[i].part \in Nat
             /\ sent[fifo[i].ibi].words \in Nat /\ Left(i) \in Nat
  <2>1. /\ fifo[i].ibi \in 1 .. Len(sent) /\ fifo[i].part \in Nat
        /\ fifo[i].part <= sent[fifo[i].ibi].words
    BY <1>1, <1>4 DEF Word, FifoOK, Whole, Real
  <2>2. sent[fifo[i].ibi].words \in Nat
    BY <1>1, <1>5, <2>1
  <2> QED BY <2>1, <2>2 DEF Left
<1> QED BY <1>1, <1>2, <1>5, <1>6

(* Behind the first word of the FIFO.                                      *)
LEMMA AtHead ==
  ASSUME IbiAssumption, SentOK, FifoOK, fifo # << >>
  PROVE  /\ 1 \in 1 .. Len(fifo)
         /\ \A j \in 2 .. Len(fifo) : Behind(j, fifo[1].ibi)
         /\ Left(1) # 0 =>
              /\ 2 \in 1 .. Len(fifo) /\ fifo[2].ibi = fifo[1].ibi
              /\ fifo[2].part = fifo[1].part + 1
         /\ Left(1) + 2 \in 1 .. Len(fifo) => fifo[Left(1) + 2].part = 0
<1>1. /\ 1 \in 1 .. Len(fifo) /\ Len(fifo) \in Nat /\ Left(1) \in Nat
      /\ fifo[1].ibi \in Nat /\ fifo[1].part \in Nat
  BY Elements
<1>2. /\ 1 + Left(1) <= Len(fifo)
      /\ \A j \in 1 + 1 .. 1 + Left(1) :
           fifo[j].ibi = fifo[1].ibi /\ fifo[j].part = fifo[1].part + (j - 1)
      /\ \A j \in 1 + Left(1) + 1 .. Len(fifo) : fifo[j].ibi > fifo[1].ibi
      /\ 1 + Left(1) + 1 <= Len(fifo) => fifo[1 + Left(1) + 1].part = 0
  BY <1>1 DEF FifoOK, Whole
<1>3. ASSUME NEW j \in 2 .. Len(fifo)
      PROVE  Behind(j, fifo[1].ibi)
  <2>1. CASE j \in 1 + 1 .. 1 + Left(1)
    <3>1. fifo[j].ibi = fifo[1].ibi /\ fifo[j].part = fifo[1].part + (j - 1)
      BY <2>1, <1>2
    <3>2. fifo[j].part # 0
      BY <3>1, <1>1
    <3> QED BY <3>1, <3>2, <1>1 DEF Behind
  <2>2. CASE j \in 1 + Left(1) + 1 .. Len(fifo)
    <3>1. fifo[j].ibi > fifo[1].ibi
      BY <2>2, <1>2
    <3>2. j \in 1 .. Len(fifo)
      BY <1>1
    <3>3. fifo[j].ibi \in Nat
      BY <3>2, Elements
    <3> QED BY <3>1, <3>3, <1>1 DEF Behind
  <2> QED BY <2>1, <2>2, <1>1
<1>4. ASSUME Left(1) # 0
      PROVE  /\ 2 \in 1 .. Len(fifo) /\ fifo[2].ibi = fifo[1].ibi
             /\ fifo[2].part = fifo[1].part + 1
  <2>1. 2 \in 1 + 1 .. 1 + Left(1) /\ 2 \in 1 .. Len(fifo) /\ 2 - 1 = 1
    BY <1>1, <1>2, <1>4
  <2>2. fifo[2].ibi = fifo[1].ibi /\ fifo[2].part = fifo[1].part + (2 - 1)
    BY <1>2, <2>1
  <2> QED BY <2>1, <2>2
<1>5. ASSUME Left(1) + 2 \in 1 .. Len(fifo) PROVE fifo[Left(1) + 2].part = 0
  <2>1. 1 + Left(1) + 1 = Left(1) + 2 /\ 1 + Left(1) + 1 <= Len(fifo)
    BY <1>1, <1>5
  <2> QED BY <1>2, <2>1
<1> QED BY <1>1, <1>3, <1>4, <1>5

(* Taking words off the front leaves a FIFO of the same form.              *)
LEMMA PopFifo ==
  ASSUME IbiAssumption, SentOK, FifoOK,
         NEW n \in Nat, fifo' = Popped(n), UNCHANGED sent
  PROVE  /\ FifoOK'
         /\ Len(fifo') \in Nat /\ (fifo' # << >> => 1 \in 1 .. Len(fifo'))
         /\ Len(fifo') = IF n <= Len(fifo) THEN Len(fifo) - n ELSE 0
         /\ \A i \in 1 .. Len(fifo') :
              i + n \in 1 .. Len(fifo) /\ fifo'[i] = fifo[i + n]
<1>1. /\ fifo' \in Seq(Word)
      /\ Len(fifo') = IF n <= Len(fifo) THEN Len(fifo) - n ELSE 0
      /\ \A i \in 1 .. Len(fifo') :
           i + n \in 1 .. Len(fifo) /\ fifo'[i] = fifo[i + n]
  BY PopSeq DEF FifoOK, Popped
<1>2. Len(fifo) \in Nat /\ Len(fifo') \in Nat /\ (fifo' # << >> => Len(fifo') # 0)
  BY <1>1, Elements, EmptySeq, LenProperties
<1>3. ASSUME NEW i \in 1 .. Len(fifo')
      PROVE  Whole(i)'
  <2>1. i + n \in 1 .. Len(fifo) /\ fifo'[i] = fifo[i + n] /\ i \in Nat
    BY <1>1, <1>2
  <2>2. Left(i)' = Left(i + n) /\ Left(i + n) \in Nat
    BY <2>1, Elements DEF Left
  <2>3. Whole(i + n)
    BY <2>1 DEF FifoOK
  <2>4. n <= Len(fifo) /\ Len(fifo') = Len(fifo) - n
    BY <1>1, <1>2, <2>1
  <2>5. /\ Real(fifo[i].ibi)' /\ fifo'[i].part <= sent'[fifo'[i].ibi].words
    BY <2>1, <2>3 DEF Whole, Real
  <2>6. i + Left(i + n) <= Len(fifo')
    <3>1. (i + n) + Left(i + n) <= Len(fifo)
      BY <2>3 DEF Whole
    <3> QED BY <3>1, <2>1, <2>2, <2>4, <1>2
  <2>7. ASSUME NEW j \in i + 1 .. i + Left(i + n)
        PROVE  /\ fifo'[j].ibi = fifo'[i].ibi
               /\ fifo'[j].part = fifo'[i].part + (j - i)
    <3>1. /\ j + n \in (i + n) + 1 .. (i + n) + Left(i + n) /\ j \in 1 .. Len(fifo')
          /\ (j + n) - (i + n) = j - i
      BY <2>1, <2>2, <2>6, <1>2
    <3>2. fifo'[j] = fifo[j + n]
      BY <3>1, <1>1
    <3>3. /\ fifo[j + n].ibi = fifo[i + n].ibi
          /\ fifo[j + n].part = fifo[i + n].part + ((j + n) - (i + n))
      BY <3>1, <2>3 DEF Whole
    <3> QED BY <3>1, <3>2, <3>3, <2>1
  <2>8. ASSUME NEW j \in i + Left(i + n) + 1 .. Len(fifo')
        PROVE  fifo'[j].ibi > fifo'[i].ibi
    <3>1. /\ j + n \in (i + n) + Left(i + n) + 1 .. Len(fifo)
          /\ j \in 1 .. Len(fifo')
      BY <2>1, <2>2, <2>4, <1>2
    <3>2. fifo'[j] = fifo[j + n]
      BY <3>1, <1>1
    <3>3. fifo[j + n].ibi > fifo[i + n].ibi
      BY <3>1, <2>3 DEF Whole
    <3> QED BY <3>2, <3>3, <2>1
  <2>9. ASSUME i + Left(i + n) + 1 <= Len(fifo')
        PROVE  fifo'[i + Left(i + n) + 1].part = 0
    <3>1. /\ i + Left(i + n) + 1 \in 1 .. Len(fifo')
          /\ (i + Left(i + n) + 1) + n = (i + n) + Left(i + n) + 1
          /\ (i + n) + Left(i + n) + 1 <= Len(fifo)
      BY <2>1, <2>2, <2>4, <2>9, <1>2
    <3>2. fifo'[i + Left(i + n) + 1] = fifo[(i + Left(i + n) + 1) + n]
      BY <3>1, <1>1
    <3>3. fifo[(i + n) + Left(i + n) + 1].part = 0
      BY <3>1, <2>3 DEF Whole
    <3> QED BY <3>1, <3>2, <3>3
  <2> QED BY <2>2, <2>5, <2>6, <2>7, <2>8, <2>9 DEF Whole
<1>4. FifoOK'
  BY <1>1, <1>3 DEF FifoOK
<1> QED BY <1>1, <1>2, <1>4

-----------------------------------------------------------------------------
(* What is reported.                                                       *)

LEMMA ReportedSeq ==
  ASSUME ReportOK
  PROVE  /\ Reported \in Seq(Item) /\ Len(Reported) \in Nat
         /\ DOMAIN Reported = 1 .. Len(Reported)
<1> QED BY ConcatProperties, LenProperties DEF ReportOK, Reported

(* A step that reports nothing new, and leaves in the FIFO only words that *)
(* were in it, keeps the reports as they are.                              *)
LEMMA SameReports ==
  ASSUME ReportOK, UNCHANGED <<sent, consumed, workq, garbled>>,
         astray' \in BOOLEAN,
         \A j \in 1 .. Len(fifo') : \E i \in 1 .. Len(fifo) : fifo'[j] = fifo[i]
  PROVE  ReportOK' /\ Reported' = Reported
<1>1. Reported' = Reported /\ (consumed \in Seq(Item))' /\ (workq \in Seq(Item))'
  BY DEF Reported, ReportOK
<1>2. RequestsAreReal'
  BY <1>1 DEF RequestsAreReal, ReportOK
<1>3. ASSUME NEW i \in 1 .. Len(Reported)
      PROVE  /\ Reported[i].ibi = Bogus \/ Real(Reported[i].ibi)'
             /\ \A j \in 1 .. Len(fifo') : Behind(j, Reported[i].ibi)'
  <2>1. Reported[i].ibi = Bogus \/ Real(Reported[i].ibi)'
    BY <1>1, <1>3 DEF ReportOK, Real
  <2>2. ASSUME NEW j \in 1 .. Len(fifo')
        PROVE  Behind(j, Reported[i].ibi)'
    <3>1. PICK h \in 1 .. Len(fifo) : fifo'[j] = fifo[h]
      OBVIOUS
    <3>2. Behind(h, Reported[i].ibi)
      BY <1>3 DEF ReportOK
    <3> QED BY <1>1, <3>1, <3>2 DEF Behind
  <2> QED BY <2>1, <2>2
<1>4. (\A i \in 1 .. Len(Reported) :
         /\ Reported[i].ibi = Bogus \/ Real(Reported[i].ibi)
         /\ \A j \in 1 .. Len(fifo) : Behind(j, Reported[i].ibi))'
  BY <1>1, <1>3 DEF Real, Behind
<1> QED BY <1>1, <1>2, <1>4 DEF ReportOK

-----------------------------------------------------------------------------
(* The steps.                                                              *)

LEMMA InitReal == ASSUME IbiAssumption, IbiInit PROVE RealInv
<1>1. /\ << >> \in Seq(Sent) /\ << >> \in Seq(Word) /\ << >> \in Seq(Item)
      /\ Len(<< >>) = 0
  OBVIOUS
<1>2. /\ sent = << >> /\ fifo = << >> /\ consumed = << >> /\ workq = << >>
      /\ isr = "off" /\ data = 0 /\ astray = FALSE
      /\ cur = [kind |-> "other", words |-> 0, ibi |-> 0]
  BY DEF IbiInit, Bogus
<1>3. Reported = << >>
  BY <1>2 DEF Reported
<1>4. SentOK /\ FifoOK
  BY <1>1, <1>2 DEF SentOK, FifoOK
<1>5. CurOK /\ PlaceOK
  BY <1>2 DEF CurOK, PlaceOK, Aligned, Pcs, Between, Reading, Cur, IbiKind,
              IbiAssumption
<1>6. ReportOK
  <2>1. DOMAIN Reported = {} /\ Len(Reported) = 0
    BY <1>3
  <2>2. RequestsAreReal
    BY <2>1, Zenon DEF RequestsAreReal
  <2>3. consumed \in Seq(Item) /\ workq \in Seq(Item) /\ astray \in BOOLEAN
    BY <1>1, <1>2
  <2>4. 1 .. Len(Reported) = {}
    BY <2>1
  <2> QED BY <2>2, <2>3, <2>4, Zenon DEF ReportOK
<1> QED BY <1>4, <1>5, <1>6 DEF RealInv

LEMMA AcceptReal ==
  ASSUME IbiAssumption, RealInv,
         NEW k \in IbiKind, NEW n \in 0 .. MaxWords, HwAccept(k, n)
  PROVE  RealInv'
<1> USE DEF RealInv
<1> DEFINE m == Len(sent) + 1
           W == [i \in 1 .. n + 1 |-> [ibi |-> m, part |-> i - 1]]
<1>1. /\ n \in Nat /\ Len(sent) < MaxIbis /\ (k = "hotjoin" => n = 0)
      /\ sent' = Append(sent, [kind |-> k, words |-> n])
      /\ fifo' = fifo \o W
      /\ UNCHANGED <<isr, cur, data, workq, consumed, astray, garbled>>
  BY Elements DEF HwAccept, placeVars
<1>2. /\ [kind |-> k, words |-> n] \in Sent /\ sent \in Seq(Sent)
      /\ Len(sent) \in Nat /\ m \in Nat /\ m \in Ibi
  BY <1>1, Elements DEF Sent, SentOK, Ibi, IbiAssumption
<1>3. /\ sent' \in Seq(Sent) /\ Len(sent') = m
      /\ \A i \in 1 .. Len(sent) : sent'[i] = sent[i]
      /\ sent'[m] = [kind |-> k, words |-> n]
  BY <1>1, <1>2, AppendProperties
<1>4. SentOK'
  BY <1>1, <1>2, <1>3 DEF SentOK
<1>5. W \in Seq(Word) /\ Len(W) = n + 1
  <2>1. \A i \in 1 .. n + 1 : [ibi |-> m, part |-> i - 1] \in Word
    BY <1>1, <1>2, Elements DEF Word
  <2>2. n + 1 \in Nat
    BY <1>1
  <2>3. W \in [1 .. n + 1 -> Word]
    BY <2>1
  <2> QED BY <2>2, <2>3, IsASeq, LenProperties
<1>6. /\ fifo' \in Seq(Word) /\ Len(fifo') = Len(fifo) + (n + 1)
      /\ \A i \in 1 .. Len(fifo) : fifo'[i] = fifo[i]
      /\ \A i \in Len(fifo) + 1 .. Len(fifo) + (n + 1) :
           fifo'[i].ibi = m /\ fifo'[i].part = i - Len(fifo) - 1
  <2>1. /\ fifo' \in Seq(Word) /\ Len(fifo') = Len(fifo) + (n + 1)
        /\ \A i \in 1 .. Len(fifo) + (n + 1) :
             fifo'[i] = IF i <= Len(fifo) THEN fifo[i] ELSE W[i - Len(fifo)]
    BY <1>1, <1>5, ConcatProperties DEF FifoOK
  <2>2. ASSUME NEW i \in Len(fifo) + 1 .. Len(fifo) + (n + 1)
        PROVE  fifo'[i].ibi = m /\ fifo'[i].part = i - Len(fifo) - 1
    <3>1. i - Len(fifo) \in 1 .. n + 1 /\ ~(i <= Len(fifo))
          /\ i \in 1 .. Len(fifo) + (n + 1)
      BY <1>1, Elements
    <3>2. fifo'[i] = W[i - Len(fifo)]
      BY <2>1, <3>1
    <3>3. W[i - Len(fifo)] = [ibi |-> m, part |-> (i - Len(fifo)) - 1]
      BY <3>1
    <3> QED BY <3>2, <3>3
  <2>3. \A i \in 1 .. Len(fifo) : fifo'[i] = fifo[i]
    BY <2>1, <1>1, Elements
  <2> QED BY <2>1, <2>2, <2>3
<1> HIDE DEF W
<1>7. /\ Len(fifo) \in Nat
      /\ \A i \in 1 .. Len(fifo') :
           i \in 1 .. Len(fifo) \/ i \in Len(fifo) + 1 .. Len(fifo) + (n + 1)
  BY <1>1, <1>6, Elements
<1>8. ASSUME NEW i \in 1 .. Len(fifo)
      PROVE  Whole(i)'
  <2>1. /\ fifo'[i] = fifo[i] /\ fifo[i].ibi \in 1 .. Len(sent)
        /\ sent'[fifo[i].ibi] = sent[fifo[i].ibi] /\ Left(i) \in Nat
    BY <1>3, <1>6, Elements
  <2>2. Left(i)' = Left(i)
    BY <2>1 DEF Left
  <2>3. Whole(i)
    BY DEF FifoOK
  <2>4. Real(fifo[i].ibi)' /\ fifo'[i].part <= sent'[fifo'[i].ibi].words
    <3>1. Real(fifo[i].ibi)'
      BY <2>1, <1>2, <1>3 DEF Real
    <3>2. fifo[i].part <= sent[fifo[i].ibi].words
      BY <2>3 DEF Whole
    <3> QED BY <2>1, <3>1, <3>2, Zenon
  <2>5. i + Left(i) <= Len(fifo) /\ i + Left(i) <= Len(fifo')
    BY <2>1, <2>3, <1>1, <1>6, <1>7 DEF Whole
  <2>6. ASSUME NEW j \in i + 1 .. i + Left(i)
        PROVE  /\ fifo'[j].ibi = fifo'[i].ibi
               /\ fifo'[j].part = fifo'[i].part + (j - i)
    <3>1. j \in 1 .. Len(fifo)
      BY <2>1, <2>5, <1>7
    <3> QED BY <3>1, <2>1, <2>3, <1>6 DEF Whole
  <2>7. ASSUME NEW j \in i + Left(i) + 1 .. Len(fifo')
        PROVE  fifo'[j].ibi > fifo'[i].ibi
    <3>1. CASE j \in 1 .. Len(fifo)
      <4>1. j \in i + Left(i) + 1 .. Len(fifo)
        BY <3>1, <2>1
      <4> QED BY <4>1, <3>1, <2>1, <2>3, <1>6 DEF Whole
    <3>2. CASE j \in Len(fifo) + 1 .. Len(fifo) + (n + 1)
      BY <3>2, <2>1, <1>2, <1>6
    <3>3. j \in 1 .. Len(fifo')
      BY <2>1, <1>6, <1>7, <1>1
    <3> QED BY <3>1, <3>2, <3>3, <1>7
  <2>8. ASSUME i + Left(i) + 1 <= Len(fifo')
        PROVE  fifo'[i + Left(i) + 1].part = 0
    <3>1. CASE i + Left(i) + 1 <= Len(fifo)
      <4>1. i + Left(i) + 1 \in 1 .. Len(fifo)
        BY <3>1, <2>1, <1>7
      <4> QED BY <4>1, <3>1, <2>3, <1>6 DEF Whole
    <3>2. CASE i + Left(i) = Len(fifo)
      <4>1. i + Left(i) + 1 \in Len(fifo) + 1 .. Len(fifo) + (n + 1)
            /\ (i + Left(i) + 1) - Len(fifo) - 1 = 0
        BY <3>2, <1>1, <1>7
      <4> QED BY <4>1, <1>6
    <3>3. i + Left(i) + 1 <= Len(fifo) \/ i + Left(i) = Len(fifo)
      <4>1. \A a, b, c \in Nat : a + b <= c => a + b + 1 <= c \/ a + b = c
        OBVIOUS
      <4>2. i \in Nat /\ Left(i) \in Nat /\ Len(fifo) \in Nat
        BY <2>1, <1>7
      <4> QED BY <4>1, <4>2, <2>5, Zenon
    <3> QED BY <3>1, <3>2, <3>3
  <2> QED BY <2>2, <2>4, <2>5, <2>6, <2>7, <2>8 DEF Whole
<1>9. ASSUME NEW i \in Len(fifo) + 1 .. Len(fifo) + (n + 1)
      PROVE  Whole(i)'
  <2>1. fifo'[i].ibi = m /\ fifo'[i].part = i - Len(fifo) - 1
    BY <1>6
  <2>2. /\ sent'[m].words = n /\ m \in 1 .. Len(sent') /\ i - Len(fifo) - 1 <= n
        /\ i \in Nat
    <3>1. sent'[m].words = n
      BY <1>3
    <3>2. m \in 1 .. Len(sent')
      BY <1>2, <1>3
    <3>3. i - Len(fifo) - 1 <= n /\ i \in Nat
      BY <1>1, <1>7
    <3> QED BY <3>1, <3>2, <3>3
  <2>3. Left(i)' = n - (i - Len(fifo) - 1)
    BY <2>1, <2>2 DEF Left
  <2>4. i + Left(i)' = Len(fifo')
    BY <2>2, <2>3, <1>1, <1>6, <1>7
  <2>5. ASSUME NEW j \in i + 1 .. i + Left(i)'
        PROVE  /\ fifo'[j].ibi = fifo'[i].ibi
               /\ fifo'[j].part = fifo'[i].part + (j - i)
    <3>1. j \in Len(fifo) + 1 .. Len(fifo) + (n + 1) /\ j \in Nat
      BY <2>2, <2>4, <1>1, <1>6, <1>7
    <3>2. fifo'[j].ibi = m /\ fifo'[j].part = j - Len(fifo) - 1
      BY <3>1, <1>6
    <3>3. j - Len(fifo) - 1 = (i - Len(fifo) - 1) + (j - i)
      BY <3>1, <2>2, <1>7
    <3> QED BY <3>2, <3>3, <2>1
  <2>6. i + Left(i)' + 1 .. Len(fifo') = {} /\ ~(i + Left(i)' + 1 <= Len(fifo'))
    BY <2>4, <1>1, <1>6, <1>7
  <2>7. Real(fifo[i].ibi)' /\ fifo'[i].part <= sent'[fifo'[i].ibi].words
    BY <2>1, <2>2 DEF Real
  <2>8. i + Left(i)' <= Len(fifo')
    BY <2>4, <1>1, <1>6, <1>7
  <2> QED BY <2>5, <2>6, <2>7, <2>8 DEF Whole
<1>10. FifoOK'
  BY <1>6, <1>7, <1>8, <1>9 DEF FifoOK
<1>11. Reported' = Reported
  BY <1>1 DEF Reported
<1>12. ASSUME NEW h \in 0 .. Len(sent), NEW j \in 1 .. Len(fifo'),
              j \in 1 .. Len(fifo) => Behind(j, h)
       PROVE  Behind(j, h)'
  <2>1. CASE j \in 1 .. Len(fifo)
    BY <2>1, <1>12, <1>6 DEF Behind
  <2>2. CASE j \in Len(fifo) + 1 .. Len(fifo) + (n + 1)
    BY <2>2, <1>2, <1>6 DEF Behind
  <2> QED BY <2>1, <2>2, <1>7
<1>13. CurOK'
  <2>1. SUFFICES ASSUME isr \notin Between, cur.ibi # Bogus
                 PROVE  /\ Real(cur.ibi)'
                        /\ cur.kind = sent'[cur.ibi].kind
                        /\ cur.words = sent'[cur.ibi].words
                        /\ \A j \in 1 .. Len(fifo') : Behind(j, cur.ibi)'
                        /\ \A i \in 1 .. Len(Reported) :
                             Reported[i].ibi < cur.ibi
    BY <1>1, <1>11 DEF CurOK, Behind
  <2>2. /\ cur.ibi \in 1 .. Len(sent)
        /\ cur.kind = sent[cur.ibi].kind /\ cur.words = sent[cur.ibi].words
        /\ \A j \in 1 .. Len(fifo) : Behind(j, cur.ibi)
        /\ \A i \in 1 .. Len(Reported) : Reported[i].ibi < cur.ibi
    BY <2>1 DEF CurOK, Real
  <2>3. Real(cur.ibi)' /\ sent'[cur.ibi] = sent[cur.ibi]
    BY <2>2, <1>1, <1>2, <1>3 DEF Real
  <2>4. ASSUME NEW j \in 1 .. Len(fifo') PROVE Behind(j, cur.ibi)'
    <3>1. cur.ibi \in 0 .. Len(sent) /\ (j \in 1 .. Len(fifo) => Behind(j, cur.ibi))
      BY <2>2, <1>2
    <3>2. ASSUME NEW h, h = cur.ibi, h \in 0 .. Len(sent),
                 j \in 1 .. Len(fifo) => Behind(j, h)
          PROVE  Behind(j, h)'
      BY <3>2, <1>12
    <3> QED BY <3>1, <3>2, <1>1, <1>6, <1>7, <1>2 DEF Behind
  <2> QED BY <2>2, <2>3, <2>4
<1>14. PlaceOK'
  <2>1. CASE fifo = << >>
    <3>1. Len(fifo) = 0
      BY <2>1, Elements
    <3>2. 1 \in Len(fifo) + 1 .. Len(fifo) + (n + 1) /\ 1 - Len(fifo) - 1 = 0
      BY <3>1, <1>1
    <3>3. fifo'[1].part = 0
      BY <3>2, <1>6
    <3> QED BY <2>1, <3>3, <1>1 DEF PlaceOK, Aligned, Overlong
  <2>2. CASE fifo # << >>
    <3>1. 1 \in 1 .. Len(fifo) /\ Len(fifo') # 0
      BY <2>2, <1>1, <1>6, <1>7, Elements
    <3>2. fifo'[1] = fifo[1] /\ fifo' # << >>
      BY <3>1, <1>6, EmptySeq
    <3> QED BY <2>2, <3>2, <1>1 DEF PlaceOK, Aligned, Overlong
  <2> QED BY <2>1, <2>2
<1>15. ReportOK'
  <2>1. \A i \in 1 .. Len(Reported) :
          /\ Reported[i].ibi \in 0 .. Len(sent)
          /\ Reported[i].ibi = Bogus \/ Real(Reported[i].ibi)
          /\ \A j \in 1 .. Len(fifo) : Behind(j, Reported[i].ibi)
    BY <1>2 DEF ReportOK, Real, Bogus
  <2>2. ASSUME NEW i \in 1 .. Len(Reported)
        PROVE  /\ Reported[i].ibi = Bogus \/ Real(Reported[i].ibi)'
               /\ \A j \in 1 .. Len(fifo') : Behind(j, Reported[i].ibi)'
    <3>1. Reported[i].ibi = Bogus \/ Real(Reported[i].ibi)'
      BY <2>1, <1>2, <1>3, <1>11 DEF Real
    <3>2. ASSUME NEW j \in 1 .. Len(fifo')
          PROVE  Behind(j, Reported[i].ibi)'
      <4>1. PICK h \in 0 .. Len(sent) : h = Reported[i].ibi
        BY <2>1
      <4>2. Behind(j, h)'
        BY <4>1, <2>1, <1>12
      <4> QED BY <4>1, <4>2, <1>11 DEF Behind
    <3> QED BY <3>1, <3>2
  <2>3. DOMAIN Reported = 1 .. Len(Reported)
    BY ReportedSeq
  <2>4. \A i \in 1 .. Len(Reported) : Reported[i].ibi # Bogus =>
          sent'[Reported[i].ibi] = sent[Reported[i].ibi]
    BY <2>1, <1>3 DEF Real
  <2>5. RequestsAreReal'
    BY <2>3, <2>4, <1>1, <1>11 DEF ReportOK, RequestsAreReal
  <2>6. (\A i \in 1 .. Len(Reported) :
           /\ Reported[i].ibi = Bogus \/ Real(Reported[i].ibi)
           /\ \A j \in 1 .. Len(fifo) : Behind(j, Reported[i].ibi))'
    BY <2>2, <1>11 DEF Real, Behind
  <2> QED BY <1>1, <1>11, <2>5, <2>6 DEF ReportOK
<1> QED BY <1>4, <1>10, <1>13, <1>14, <1>15

(* Between IBIs, the handler's place does not matter.                      *)
LEMMA MoveReal ==
  ASSUME RealInv,
         UNCHANGED <<sent, fifo, cur, data, workq, consumed, placeVars>>,
         isr \in Between, isr' \in Between
  PROVE  RealInv'
<1> USE DEF RealInv, placeVars
<1>1. SentOK' /\ FifoOK'
  BY DEF SentOK, FifoOK, Whole, Left, Real
<1>2. CurOK'
  BY DEF CurOK, Pcs, Between, Reading
<1>3. PlaceOK'
  BY DEF PlaceOK, Aligned, Between, Reading
<1>4. ReportOK'
  BY SameReports DEF ReportOK
<1> QED BY <1>1, <1>2, <1>3, <1>4

LEMMA ResetReal ==
  ASSUME RealInv, IsrReset PROVE RealInv'
<1> USE DEF RealInv
<1>1. /\ fifo' = << >> /\ isr' = "count" /\ astray' = FALSE
      /\ UNCHANGED <<sent, cur, data, workq, consumed, garbled>>
  BY DEF IsrReset
<1>2. << >> \in Seq(Word) /\ Len(<< >>) = 0
  OBVIOUS
<1>3. SentOK' /\ FifoOK'
  BY <1>1, <1>2 DEF SentOK, FifoOK
<1>4. CurOK'
  BY <1>1 DEF CurOK, Pcs, Between, Reading
<1>5. PlaceOK'
  <2>1. Aligned' /\ isr' \notin Reading
        /\ isr' \notin {"payload", "stranger", "enqueue"} /\ isr' # "enqueue"
    BY <1>1 DEF Aligned, Reading
  <2> QED BY <2>1, SMT DEF PlaceOK
<1>6. ReportOK'
  <2>1. /\ astray' \in BOOLEAN
        /\ \A j \in 1 .. Len(fifo') : \E i \in 1 .. Len(fifo) : fifo'[j] = fifo[i]
    <3>1. astray' \in BOOLEAN
      BY <1>1
    <3>2. 1 .. Len(fifo') = {}
      BY <1>1, <1>2
    <3> QED BY <3>1, <3>2
  <2> QED BY <1>1, <2>1, SameReports
<1> QED BY <1>3, <1>4, <1>5, <1>6

LEMMA StatusReal ==
  ASSUME IbiAssumption, RealInv, IsrStatus
  PROVE  RealInv'
<1> USE DEF RealInv
<1>1. /\ isr = "loop" /\ fifo' = Popped(1)
      /\ cur' \in Decoded /\ data' = Bogus /\ isr' \in AfterStatus(cur'.kind)
      /\ UNCHANGED <<sent, workq, consumed, astray, garbled>>
  BY DEF IsrStatus, placeVars
<1>2. SentOK'
  BY <1>1 DEF SentOK
<1>3. /\ FifoOK' /\ Len(fifo') \in Nat
      /\ fifo' # << >> => 1 \in 1 .. Len(fifo')
      /\ Len(fifo') = IF 1 <= Len(fifo) THEN Len(fifo) - 1 ELSE 0
      /\ \A i \in 1 .. Len(fifo') :
           i + 1 \in 1 .. Len(fifo) /\ fifo'[i] = fifo[i + 1]
  BY <1>1, PopFifo
<1>4. ReportOK' /\ Reported' = Reported
  <2>1. \A j \in 1 .. Len(fifo') : \E i \in 1 .. Len(fifo) : fifo'[j] = fifo[i]
    BY <1>3
  <2>2. astray' \in BOOLEAN
    BY <1>1 DEF ReportOK
  <2> QED BY <1>1, <2>1, <2>2, SameReports
<1>5. /\ Len(fifo) \in Nat /\ (fifo = << >> <=> Len(fifo) = 0)
      /\ MaxWords \in Nat /\ Len(sent) \in Nat
  BY Elements
<1>6. ASSUME cur' \in Cur
      PROVE  /\ isr' \in Pcs /\ isr' \notin Between
             /\ cur'.kind = "sir" => isr' \in {"payload", "stranger"}
             /\ cur'.kind = "hotjoin" => isr' = "enqueue"
             /\ cur'.kind = "other" => isr' = "drain"
             /\ cur'.kind \in IbiKind
  <2>1. cur'.kind \in {"sir", "hotjoin", "other"}
    BY <1>6 DEF Cur, IbiKind
  <2> QED BY <1>1, <2>1
          DEF AfterStatus, Pcs, Between, Reading, IbiKind
<1>7. CASE fifo = << >>
  <2>1. cur' = [kind |-> "other", words |-> 0, ibi |-> Bogus]
    BY <1>1, <1>7 DEF Decoded
  <2>2. cur' \in Cur /\ cur'.kind = "other" /\ cur'.ibi = Bogus /\ cur'.words = 0
    BY <2>1, <1>5 DEF Cur, IbiKind, Bogus
  <2>3. isr' = "drain" /\ isr' \in Pcs
    BY <2>2, <1>6
  <2>4. fifo' = << >>
    BY <1>3, <1>5, <1>7
  <2>5. PlaceOK'
    BY <2>2, <2>3, <2>4 DEF PlaceOK, Aligned, Between, Reading
  <2>6. CurOK'
    BY <1>1, <2>2, <2>3 DEF CurOK, Bogus
  <2> QED BY <1>2, <1>3, <1>4, <2>5, <2>6
<1>8. CASE fifo # << >> /\ fifo[1].part # 0
  <2>1. Head(fifo) = fifo[1]
    BY <1>8, <1>5
  <2>2. cur' \in [kind : IbiKind, words : 0 .. MaxWords, ibi : {Bogus}]
    BY <1>1, <1>8, <2>1 DEF Decoded
  <2>3. cur' \in Cur /\ cur'.ibi = Bogus /\ data' \in Nat
    BY <1>1, <2>2 DEF Cur, Bogus
  <2>4. astray
    BY <1>1, <1>8 DEF PlaceOK, Aligned, Between
  <2>5. PlaceOK'
    BY <1>1, <2>4 DEF PlaceOK
  <2>6. CurOK'
    <3>1. isr' \in Reading => cur'.kind # "hotjoin"
      BY <1>6, <2>3 DEF Reading
    <3> QED BY <1>6, <2>3, <3>1 DEF CurOK
  <2> QED BY <1>2, <1>3, <1>4, <2>5, <2>6
<1>9. CASE fifo # << >> /\ fifo[1].part = 0
  <2> DEFINE k == fifo[1].ibi
  <2>1. /\ Head(fifo) = fifo[1] /\ 1 \in 1 .. Len(fifo)
        /\ k \in 1 .. Len(sent) /\ Left(1) = sent[k].words
        /\ sent[k].words \in 0 .. MaxWords /\ sent[k].kind \in IbiKind
        /\ sent[k].kind = "hotjoin" => sent[k].words = 0
    <3>1. 1 \in 1 .. Len(fifo) /\ Head(fifo) = fifo[1]
      BY <1>5, <1>9
    <3>2. k \in 1 .. Len(sent)
      BY <3>1, Elements
    <3>3. /\ sent[k].words \in 0 .. MaxWords /\ sent[k].kind \in IbiKind
          /\ sent[k].kind = "hotjoin" => sent[k].words = 0
      BY <3>2, Elements
    <3> QED BY <3>1, <3>2, <3>3, <1>5, <1>9 DEF Left
  <2>2. cur' = [kind |-> sent[k].kind, words |-> sent[k].words, ibi |-> k]
    BY <1>1, <1>9, <2>1 DEF Decoded
  <2>3. /\ cur' \in Cur /\ cur'.ibi = k /\ cur'.kind = sent[k].kind
        /\ cur'.words = sent[k].words /\ k # Bogus /\ data' \in Nat
    BY <1>1, <1>5, <2>1, <2>2 DEF Cur, Bogus
  <2>4. /\ \A j \in 2 .. Len(fifo) : Behind(j, k)
        /\ Left(1) # 0 =>
             /\ 2 \in 1 .. Len(fifo) /\ fifo[2].ibi = k
             /\ fifo[2].part = fifo[1].part + 1
        /\ Left(1) + 2 \in 1 .. Len(fifo) => fifo[Left(1) + 2].part = 0
    BY <1>9, AtHead
  <2>5. cur'.words = 0 => Aligned'
    <3>1. SUFFICES ASSUME cur'.words = 0, fifo' # << >>
                   PROVE  fifo'[1].part = 0
      BY DEF Aligned
    <3>2. fifo'[1] = fifo[2] /\ 2 \in 1 .. Len(fifo)
      <4>1. 1 \in 1 .. Len(fifo')
        BY <3>1, <1>3
      <4>2. 1 + 1 \in 1 .. Len(fifo) /\ fifo'[1] = fifo[1 + 1]
        BY <4>1, <1>3
      <4> QED BY <4>2
    <3>3. Left(1) = 0
      BY <3>1, <2>1, <2>3
    <3> QED BY <3>2, <3>3, <2>4
  <2>6. cur'.words # 0 =>
          fifo' # << >> /\ fifo'[1].ibi = k /\ fifo'[1].part = 1
    <3>1. SUFFICES ASSUME cur'.words # 0
                   PROVE  fifo' # << >> /\ fifo'[1].ibi = k /\ fifo'[1].part = 1
      OBVIOUS
    <3>2. 2 \in 1 .. Len(fifo) /\ fifo[2].ibi = k /\ fifo[2].part = 1
      BY <3>1, <2>1, <2>3, <2>4, <1>9
    <3>3. 1 \in 1 .. Len(fifo')
      BY <3>2, <1>3, <1>5
    <3>4. fifo'[1] = fifo[1 + 1]
      BY <3>3, <1>3
    <3>5. fifo' # << >>
      <4>1. fifo' \in Seq(Word)
        BY <1>3 DEF FifoOK
      <4> QED BY <3>3, <4>1, EmptySeq
    <3> QED BY <3>2, <3>4, <3>5
  <2>7. PlaceOK'
    <3>1. isr' = "enqueue" => cur'.words = 0
      BY <1>6, <2>1, <2>3 DEF IbiKind
    <3> QED BY <1>1, <1>6, <2>3, <2>5, <2>6, <3>1
            DEF PlaceOK, Overlong, Between, Reading
  <2>8. CurOK'
    <3>1. isr' \in Pcs /\ (isr' \in Reading => cur'.kind # "hotjoin")
      BY <1>6, <2>3 DEF Reading
    <3>2. Real(cur.ibi)' /\ cur'.kind = sent'[cur'.ibi].kind
          /\ cur'.words = sent'[cur'.ibi].words
      BY <1>1, <2>1, <2>3 DEF Real
    <3>3. ASSUME NEW j \in 1 .. Len(fifo')
          PROVE  Behind(j, cur.ibi)'
      <4>1. j + 1 \in 2 .. Len(fifo) /\ fifo'[j] = fifo[j + 1]
        BY <1>3, <1>5
      <4>2. Behind(j + 1, k)
        BY <4>1, <2>4
      <4> QED BY <4>1, <4>2, <2>3 DEF Behind
    <3>4. ASSUME NEW i \in 1 .. Len(Reported')
          PROVE  Reported'[i].ibi < cur'.ibi
      <4>1. Behind(1, Reported[i].ibi)
        BY <1>4, <2>1 DEF ReportOK
      <4> QED BY <4>1, <1>4, <1>9, <2>3 DEF Behind
    <3> QED BY <2>3, <3>1, <3>2, <3>3, <3>4 DEF CurOK
  <2> QED BY <1>2, <1>3, <1>4, <2>7, <2>8
<1> QED BY <1>7, <1>8, <1>9

(* Reading payload, or what is taken for it. A handler that has its place  *)
(* and reads the payload whole stands at a status word then.               *)
LEMMA PastRead ==
  ASSUME IbiAssumption, RealInv, isr \in Reading,
         NEW n \in Nat, fifo' = Popped(n), UNCHANGED <<sent, cur>>
  PROVE  /\ FifoOK'
         /\ \A j \in 1 .. Len(fifo') : \E i \in 1 .. Len(fifo) : fifo'[j] = fifo[i]
         /\ cur.ibi # Bogus => \A j \in 1 .. Len(fifo') : Behind(j, cur.ibi)'
         /\ ~astray /\ n = cur.words => Aligned'
<1> USE DEF RealInv
<1>1. /\ FifoOK' /\ Len(fifo') \in Nat
      /\ fifo' # << >> => 1 \in 1 .. Len(fifo')
      /\ \A i \in 1 .. Len(fifo') :
           i + n \in 1 .. Len(fifo) /\ fifo'[i] = fifo[i + n]
  BY PopFifo
<1>2. \A j \in 1 .. Len(fifo') : \E i \in 1 .. Len(fifo) : fifo'[j] = fifo[i]
  BY <1>1
<1>3. ASSUME cur.ibi # Bogus, NEW j \in 1 .. Len(fifo')
      PROVE  Behind(j, cur.ibi)'
  <2>1. isr \notin Between
    BY DEF Between, Reading
  <2>2. Behind(j + n, cur.ibi)
    BY <1>1, <1>3, <2>1 DEF CurOK
  <2> QED BY <1>1, <2>2 DEF Behind
<1>4. ASSUME ~astray, n = cur.words, fifo' # << >>
      PROVE  fifo'[1].part = 0
  <2>1. 1 + n \in 1 .. Len(fifo) /\ fifo'[1] = fifo[1 + n]
    BY <1>1, <1>4
  <2>2. CASE n = 0
    <3>1. 1 + n = 1 /\ fifo # << >>
      BY <2>1, <2>2, Elements
    <3>2. Aligned
      BY <2>2, <1>4 DEF PlaceOK
    <3> QED BY <2>1, <3>1, <3>2 DEF Aligned
  <2>3. CASE n # 0
    <3>1. fifo # << >> /\ fifo[1].ibi = cur.ibi /\ fifo[1].part = 1
      BY <2>3, <1>4 DEF PlaceOK
    <3>2. 1 \in 1 .. Len(fifo) /\ cur.ibi \in 1 .. Len(sent) /\ Len(sent) \in Nat
      BY <3>1, Elements
    <3>3. sent[cur.ibi].words = n
      BY <3>2, <1>4 DEF CurOK, Bogus, Between, Reading
    <3>4. Left(1) + 2 = 1 + n
      BY <3>1, <3>3 DEF Left
    <3>5. Left(1) + 2 \in 1 .. Len(fifo) => fifo[Left(1) + 2].part = 0
      BY <3>1, AtHead
    <3> QED BY <2>1, <3>4, <3>5
  <2> QED BY <2>2, <2>3
<1> QED BY <1>1, <1>2, <1>3, <1>4 DEF Aligned

LEMMA DrainReal ==
  ASSUME IbiAssumption, RealInv, IsrDrain
  PROVE  RealInv'
<1> USE DEF RealInv
<1>1. /\ isr \in {"drain", "stranger"} /\ fifo' = Popped(cur.words)
      /\ isr' = IF isr = "stranger" THEN "payload" ELSE "loop"
      /\ astray' = (astray \/ (isr = "stranger" /\ cur.words > 0))
      /\ UNCHANGED <<sent, cur, data, workq, consumed, garbled>>
  BY DEF IsrDrain
<1>2. isr \in Reading /\ cur.words \in Nat
  BY <1>1 DEF Reading, CurOK, Cur, IbiAssumption
<1>3. /\ FifoOK'
      /\ \A j \in 1 .. Len(fifo') : \E i \in 1 .. Len(fifo) : fifo'[j] = fifo[i]
      /\ cur.ibi # Bogus => \A j \in 1 .. Len(fifo') : Behind(j, cur.ibi)'
      /\ ~astray => Aligned'
  BY <1>1, <1>2, PastRead
<1>4. ReportOK' /\ Reported' = Reported
  <2>1. astray' \in BOOLEAN
    BY <1>1 DEF ReportOK
  <2> QED BY <1>1, <1>3, <2>1, SameReports
<1>5. SentOK'
  BY <1>1 DEF SentOK
<1>6. CurOK'
  <2>1. /\ isr' \in Pcs /\ cur' \in Cur /\ data' \in Nat
        /\ cur'.kind # "hotjoin"
    BY <1>1, <1>2 DEF CurOK, Pcs, Between, Reading
  <2>2. isr \notin Between
    BY <1>1 DEF Between
  <2>3. cur'.ibi # Bogus =>
          /\ Real(cur.ibi)'
          /\ cur'.kind = sent'[cur'.ibi].kind
          /\ cur'.words = sent'[cur'.ibi].words
          /\ \A i \in 1 .. Len(Reported') : Reported'[i].ibi < cur'.ibi
    BY <1>1, <1>4, <2>2 DEF CurOK, Real
  <2> QED BY <1>1, <1>3, <2>1, <2>3 DEF CurOK
<1>7. PlaceOK'
  <2>1. SUFFICES ASSUME ~astray' PROVE PlaceOK'
    BY DEF PlaceOK
  <2>2. ~astray /\ (isr = "stranger" => cur.words = 0) /\ Aligned'
    <3>1. ~astray /\ ~(isr = "stranger" /\ cur.words > 0)
      BY <1>1, <2>1, Zenon
    <3>2. isr = "stranger" => cur.words = 0
      BY <1>2, <3>1
    <3> QED BY <3>1, <3>2, <1>3
  <2>3. isr = "stranger" => cur.ibi # Bogus
    BY <2>2 DEF PlaceOK
  <2> QED BY <1>1, <2>2, <2>3 DEF PlaceOK, Between, Reading
<1> QED BY <1>3, <1>4, <1>5, <1>6, <1>7

LEMMA PayloadReal ==
  ASSUME IbiAssumption, RealInv, IsrPayload
  PROVE  RealInv'
<1> USE DEF RealInv
<1> DEFINE n == PayloadWordsRead(cur.words)
<1>1. /\ isr = "payload" /\ isr' = "enqueue" /\ fifo' = Popped(n)
      /\ data' = IF cur.words = 0 \/ fifo = << >> \/ n = 0
                 THEN Bogus ELSE Head(fifo).ibi
      /\ UNCHANGED <<sent, cur, workq, consumed, astray, garbled>>
  BY DEF IsrPayload, placeVars
<1>2. /\ isr \in Reading /\ cur.words \in Nat /\ n \in Nat
      /\ (cur.words = 0 <=> n = 0) /\ (~Overlong => n = cur.words)
  BY <1>1 DEF Reading, CurOK, Cur, IbiAssumption, PayloadWordsRead, Overlong
<1> HIDE DEF n
<1>3. /\ FifoOK'
      /\ \A j \in 1 .. Len(fifo') : \E i \in 1 .. Len(fifo) : fifo'[j] = fifo[i]
      /\ cur.ibi # Bogus => \A j \in 1 .. Len(fifo') : Behind(j, cur.ibi)'
      /\ ~astray /\ n = cur.words => Aligned'
  BY <1>1, <1>2, PastRead
<1>4. ReportOK' /\ Reported' = Reported
  <2>1. astray' \in BOOLEAN
    BY <1>1 DEF ReportOK
  <2> QED BY <1>1, <1>3, <2>1, SameReports
<1>5. SentOK'
  BY <1>1 DEF SentOK
<1>6. fifo # << >> => Head(fifo) = fifo[1] /\ fifo[1].ibi \in Nat
  BY Elements
<1>7. CurOK'
  <2>1. data' \in Nat
    BY <1>1, <1>6 DEF Bogus
  <2>2. isr' \in Pcs /\ isr' \notin Reading /\ cur' \in Cur /\ isr \notin Between
    BY <1>1 DEF CurOK, Pcs, Between, Reading
  <2>3. cur'.ibi # Bogus =>
          /\ Real(cur.ibi)'
          /\ cur'.kind = sent'[cur'.ibi].kind
          /\ cur'.words = sent'[cur'.ibi].words
          /\ \A i \in 1 .. Len(Reported') : Reported'[i].ibi < cur'.ibi
    BY <1>1, <1>4, <2>2 DEF CurOK, Real
  <2> QED BY <1>1, <1>3, <2>1, <2>2, <2>3 DEF CurOK
<1>8. PlaceOK'
  <2>1. SUFFICES ASSUME ~astray PROVE PlaceOK'
    BY <1>1 DEF PlaceOK
  <2>2. cur.ibi # Bogus
    BY <1>1, <2>1 DEF PlaceOK
  <2>3. ~Overlong' => Aligned'
    BY <1>1, <1>2, <1>3, <2>1 DEF Overlong
  <2>4. data' = IF cur.words = 0 THEN Bogus ELSE cur.ibi
    <3>1. CASE cur.words = 0
      BY <1>1, <3>1
    <3>2. CASE cur.words # 0
      <4>1. fifo # << >> /\ fifo[1].ibi = cur.ibi
        BY <1>2, <2>1, <3>2 DEF PlaceOK
      <4> QED BY <4>1, <1>1, <1>2, <1>6, <3>2
    <3> QED BY <3>1, <3>2
  <2> QED BY <1>1, <2>2, <2>3, <2>4 DEF PlaceOK, Between, Reading
<1> QED BY <1>3, <1>4, <1>5, <1>7, <1>8

LEMMA EnqueueReal ==
  ASSUME IbiAssumption, RealInv, IsrEnqueue
  PROVE  RealInv'
<1> USE DEF RealInv
<1>1. /\ isr = "enqueue" /\ isr' = "loop" /\ astray' = (astray \/ Overlong)
      /\ UNCHANGED <<sent, fifo, cur, data, consumed>>
  BY DEF IsrEnqueue
<1>2. SentOK' /\ FifoOK'
  BY <1>1 DEF SentOK, FifoOK, Whole, Left, Real
<1>3. CurOK' /\ PlaceOK'
  BY <1>1 DEF CurOK, PlaceOK, Aligned, Pcs, Between, Reading
<1>4. astray' \in BOOLEAN
  BY <1>1
<1>5. CASE QueueFull
  <2>1. UNCHANGED <<workq, garbled>>
    BY <1>5 DEF IsrEnqueue
  <2> QED BY <2>1, <1>1, <1>2, <1>3, <1>4, SameReports
<1>6. CASE ~QueueFull
  <2> DEFINE w == [kind |-> cur.kind, ibi |-> cur.ibi, data |-> data]
  <2>1. /\ workq' = Append(workq, w)
        /\ garbled' = IF astray THEN garbled \cup {Len(Reported) + 1}
                      ELSE garbled
    BY <1>6 DEF IsrEnqueue, Queued
  <2>2. /\ cur.kind \in IbiKind /\ cur.ibi \in Nat /\ data \in Nat
        /\ isr \notin Between /\ Len(fifo) \in Nat
        /\ \A j \in 1 .. Len(fifo) : fifo[j].ibi \in Nat /\ fifo[j].ibi # 0
    BY <1>1, Elements DEF CurOK, Cur, Between
  <2>3. w \in Item
    BY <2>2 DEF Item
  <2>4. workq' \in Seq(Item) /\ consumed' \in Seq(Item)
    BY <1>1, <2>1, <2>3, AppendProperties DEF ReportOK
  <2>5. Reported' = Append(Reported, w)
    BY <1>1, <2>1, <2>3, ConcatAppend DEF ReportOK, Reported
  <2>6. Reported \in Seq(Item) /\ Len(Reported) \in Nat
        /\ DOMAIN Reported = 1 .. Len(Reported)
    BY ReportedSeq
  <2>7. /\ Len(Reported') = Len(Reported) + 1
        /\ DOMAIN Reported' = 1 .. Len(Reported) + 1
        /\ \A i \in 1 .. Len(Reported) : Reported'[i] = Reported[i]
        /\ Reported'[Len(Reported) + 1] = w
    BY <2>3, <2>5, <2>6, AppendProperties
  <2>8. ASSUME NEW i \in 1 .. Len(Reported')
        PROVE  /\ Reported'[i].ibi = Bogus \/ Real(Reported[i].ibi)'
               /\ \A j \in 1 .. Len(fifo') : Behind(j, Reported[i].ibi)'
    <3>1. CASE i \in 1 .. Len(Reported)
      BY <3>1, <2>7, <1>1 DEF ReportOK, Real, Behind
    <3>2. CASE i = Len(Reported) + 1
      <4>1. Reported'[i].ibi = cur.ibi
        BY <3>2, <2>7
      <4>2. cur.ibi # Bogus =>
              Real(cur.ibi) /\ \A j \in 1 .. Len(fifo) : Behind(j, cur.ibi)
        BY <2>2 DEF CurOK
      <4>3. cur.ibi = Bogus => \A j \in 1 .. Len(fifo) : Behind(j, cur.ibi)
        BY <2>2 DEF Behind, Bogus
      <4> QED BY <4>1, <4>2, <4>3, <1>1 DEF Real, Behind
    <3> QED BY <3>1, <3>2, <2>6, <2>7
  <2>9. RequestsAreReal'
    <3>1. SUFFICES ASSUME NEW i \in 1 .. Len(Reported) + 1, i \notin garbled'
          PROVE  /\ Reported'[i].ibi # Bogus
                 /\ Reported'[i].kind = sent[Reported'[i].ibi].kind
                 /\ Reported'[i].data = IF sent[Reported'[i].ibi].words = 0
                                        THEN Bogus ELSE Reported'[i].ibi
                 /\ \A j \in 1 .. i - 1 : Reported'[j].ibi < Reported'[i].ibi
      BY <1>1, <2>7 DEF RequestsAreReal
    <3>2. CASE i \in 1 .. Len(Reported)
      <4>1. i \in DOMAIN Reported \ garbled
        BY <3>1, <3>2, <2>1, <2>6
      <4>2. /\ Reported[i].ibi # Bogus
            /\ Reported[i].kind = sent[Reported[i].ibi].kind
            /\ Reported[i].data = IF sent[Reported[i].ibi].words = 0
                                  THEN Bogus ELSE Reported[i].ibi
            /\ \A j \in 1 .. i - 1 : Reported[j].ibi < Reported[i].ibi
        BY <4>1 DEF ReportOK, RequestsAreReal
      <4>3. \A j \in 1 .. i - 1 : j \in 1 .. Len(Reported)
        BY <3>2, <2>6
      <4> QED BY <3>2, <4>2, <4>3, <2>7
    <3>3. CASE i = Len(Reported) + 1
      <4>1. Reported'[i] = w /\ i - 1 = Len(Reported)
        BY <3>3, <2>6, <2>7
      <4>2. ~astray
        BY <3>1, <3>3, <2>1
      <4>3. cur.ibi # Bogus /\ data = IF cur.words = 0 THEN Bogus ELSE cur.ibi
        BY <1>1, <4>2 DEF PlaceOK
      <4>4. /\ cur.kind = sent[cur.ibi].kind /\ cur.words = sent[cur.ibi].words
            /\ \A j \in 1 .. Len(Reported) : Reported[j].ibi < cur.ibi
        BY <2>2, <4>3 DEF CurOK
      <4>5. \A j \in 1 .. i - 1 : Reported'[j].ibi < cur.ibi
        BY <4>1, <4>4, <2>7
      <4> QED BY <4>1, <4>3, <4>4, <4>5
    <3> QED BY <3>2, <3>3, <2>6
  <2>10. ReportOK'
    <3>1. (\A i \in 1 .. Len(Reported) :
             /\ Reported[i].ibi = Bogus \/ Real(Reported[i].ibi)
             /\ \A j \in 1 .. Len(fifo) : Behind(j, Reported[i].ibi))'
      BY <2>8
    <3> QED BY <1>4, <2>4, <2>9, <3>1 DEF ReportOK
  <2> QED BY <1>2, <1>3, <2>10
<1> QED BY <1>5, <1>6

LEMMA ConsumeReal ==
  ASSUME RealInv, Consume PROVE RealInv'
<1> USE DEF RealInv
<1>1. /\ workq # << >>
      /\ consumed' = Append(consumed, Head(workq)) /\ workq' = Tail(workq)
      /\ UNCHANGED <<sent, fifo, isr, cur, data, astray, garbled>>
  BY DEF Consume, placeVars
<1>2. Reported' = Reported
  BY <1>1, MoveHead DEF ReportOK, Reported
<1>3. consumed' \in Seq(Item) /\ workq' \in Seq(Item)
  BY <1>1, HeadTailProperties, AppendProperties DEF ReportOK
<1>4. SentOK' /\ FifoOK' /\ PlaceOK'
  BY <1>1 DEF SentOK, FifoOK, Whole, Left, Real, PlaceOK, Aligned, Overlong
<1>5. CurOK'
  BY <1>1, <1>2 DEF CurOK, Real, Behind
<1>6. RequestsAreReal'
  BY <1>1, <1>2 DEF RequestsAreReal, ReportOK
<1>7. ReportOK'
  BY <1>1, <1>2, <1>3, <1>6 DEF ReportOK, Real, Behind
<1> QED BY <1>4, <1>5, <1>7

LEMMA StutterReal ==
  ASSUME RealInv, UNCHANGED ibiVars PROVE RealInv'
<1> USE DEF RealInv, ibiVars
<1>1. Reported' = Reported
  BY DEF Reported
<1>2. SentOK' /\ FifoOK' /\ PlaceOK'
  BY DEF SentOK, FifoOK, Whole, Left, Real, PlaceOK, Aligned, Overlong
<1>3. CurOK'
  BY <1>1 DEF CurOK, Real, Behind
<1>4. RequestsAreReal'
  BY <1>1 DEF RequestsAreReal, ReportOK
<1>5. ReportOK'
  BY <1>1, <1>4 DEF ReportOK, Real, Behind
<1> QED BY <1>2, <1>3, <1>5

LEMMA NextReal ==
  ASSUME IbiAssumption, RealInv, [IbiNext]_ibiVars
  PROVE  RealInv'
<1>1. CASE \E k \in IbiKind, n \in 0 .. MaxWords : HwAccept(k, n)
  BY <1>1, AcceptReal
<1>2. CASE IsrEnterOnError \/ IsrEnter \/ IsrCount \/ IsrAck
  BY <1>2, MoveReal DEF IsrEnterOnError, IsrEnter, IsrCount, IsrAck, Between
<1>3. CASE IsrReset
  BY <1>3, ResetReal
<1>4. CASE IsrStatus
  BY <1>4, StatusReal
<1>5. CASE IsrDrain
  BY <1>5, DrainReal
<1>6. CASE IsrPayload
  BY <1>6, PayloadReal
<1>7. CASE IsrEnqueue
  BY <1>7, EnqueueReal
<1>8. CASE Consume
  BY <1>8, ConsumeReal
<1>9. CASE UNCHANGED ibiVars \/ Stopped
  BY <1>9, StutterReal DEF Stopped
<1> QED BY <1>1, <1>2, <1>3, <1>4, <1>5, <1>6, <1>7, <1>8, <1>9
        DEF IbiNext, IsrStep

(* What the application is told of in-band interrupts is real: each item   *)
(* is of an IBI a device sent, of its kind and with its payload, in the    *)
(* order in which they were accepted and none twice, however the handler,  *)
(* queue resets after errors, new IBIs and the application interleave,     *)
(* however long the payloads and however small the queue (handle_ibis,     *)
(* handle_ibi_sir). Excused are the items put on the queue after an SIR    *)
(* with more than a word of payload, or with payload from an address that  *)
(* is not attached, until the next error response resets the FIFO.         *)
THEOREM RequestsReal == IbiSpec => []RequestsAreReal
<1>1. IbiInit => RealInv
  BY IbiAssumption, InitReal
<1>2. RealInv /\ [IbiNext]_ibiVars => RealInv'
  BY IbiAssumption, NextReal
<1>3. RealInv => RequestsAreReal
  BY DEF RealInv, ReportOK
<1> QED BY <1>1, <1>2, <1>3, PTL DEF IbiSpec

=============================================================================
