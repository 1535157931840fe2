-------------------------- MODULE SpiMonitorProofs --------------------------
(***************************************************************************)
(* Proofs about SpiMonitor, for every table size, flash size, block size   *)
(* and list of handles: what is sealed stays, the commands that get        *)
(* through are the ones asked for, and a finished init leaves exactly the  *)
(* blocks of the blocked regions closed.                                   *)
(***************************************************************************)
EXTENDS SpiMonitor, SequenceTheorems, WellFoundedInduction, TLAPS

Modes == {"single", "multi", "off"}
Flags == {"always", "once"}

TblType == [Slots -> [cmd : Cmds \cup {"none"}, valid : SUBSET Flags, lock : BOOLEAN]]
CtlType == [single : BOOLEAN, multi : BOOLEAN, filter : BOOLEAN, extra : BOOLEAN,
            push : BOOLEAN, irq : BOOLEAN, lock : BOOLEAN]

\* The values the variables take.
TypeInv ==
  /\ tbl \in TblType
  /\ perm \in [Dirs -> [Regs -> SUBSET Bits]]
  /\ plock \in SUBSET Dirs
  /\ sel \in Dirs \cup {"none"}
  /\ ctl \in CtlType
  /\ pc \in {"idle", "table", "job", "sweep"}
  /\ at \in [done : Nat, index : Nat, reg : Nat, bit : Nat, left : Nat]
  /\ pc # "idle" => conf \in Handles
  /\ ret.granted \in SUBSET Cmds
  /\ asked \in SUBSET Cmds
  /\ \A d \in Dirs : applied[d] = "none" \/ applied[d] \in Seq(Region)
  /\ sealed \in BOOLEAN

\* All the locks are set together, and only by lock_common.
LockInv ==
  /\ sealed => plock = Dirs /\ ctl.lock /\ \A i \in Slots : tbl[i].lock
  /\ ~sealed => plock = {} /\ ~ctl.lock

NumBlocks == Limit \div Unit
FirstBlock(r) == r.start \div Unit
Count(r) == AdjustedLen(r.start, r.length) \div Unit
Position == at.reg * PerReg + at.bit

\* Where init stands: the table it asked for is the one selected, and what is
\* left of the sweep ends where the region's blocks end.
SweepInv ==
  /\ pc = "table" => at.done <= Len(conf.list) /\ at.index >= 1
  /\ pc \in {"job", "sweep"} => at.done <= Len(Jobs)
  /\ pc = "sweep" =>
       /\ at.done < Len(Jobs) /\ Accepted(Current.region)
       /\ Current.d \notin plock /\ sel = Current.d
       /\ at.bit <= PerReg /\ at.left > 0
       /\ FirstBlock(Current.region) <= Position
       /\ Position + at.left = FirstBlock(Current.region) + Count(Current.region)

ControlInv == TypeInv /\ LockInv /\ SweepInv

\* The slots that init has filled, and what became of the commands it has
\* gone through: a slot of its own, a lock in the way or no slot left.
Placed(c, n) ==
  IF c \in DOMAIN Fixed
  THEN \/ tbl[Fixed[c]].lock
       \/ tbl[Fixed[c]].cmd = c /\ tbl[Fixed[c]].valid # {}
  ELSE \/ \E i \in 2 .. MaxIndex : tbl[i].lock
       \/ n >= MaxIndex
       \/ \E i \in 2 .. MaxIndex - 1 : i <= n /\ tbl[i].cmd = c /\ tbl[i].valid # {}

FilledTo(n, k) ==
  /\ \A i \in 2 .. MaxIndex - 1 : i <= n => tbl[i] # Empty
  /\ \A j \in 1 .. k : conf.list[j] \in Known => Placed(conf.list[j], n)

TableInv ==
  /\ pc = "table" => FilledTo(at.index, at.done)
  /\ pc \in {"job", "sweep"} => \E n \in Nat : FilledTo(n, Len(conf.list))

\* What the calls before this one leave open, and how far this one has come.
Closed(d, n, b) ==
  \E j \in 1 .. n : Jobs[j].d = d /\ ~Jobs[j].enable /\ Touches(b, Jobs[j].region)
OpenJob(d) == IF d = "R" THEN 1 ELSE 2
Swept(d, b) ==
  pc = "sweep" /\ Current.d = d /\ FirstBlock(Current.region) <= b /\ b < Position

JobsInv ==
  pc \in {"job", "sweep"} =>
    \A d \in Dirs \ plock :
      /\ applied[d] = "none"
      /\ \A r \in Regs, k \in Bits :
           IF Swept(d, r * PerReg + k) THEN k \in perm[d][r] <=> Current.enable
           ELSE at.done >= OpenJob(d) =>
                  (k \in perm[d][r] <=> ~Closed(d, at.done, r * PerReg + k))

Exact(d, regions) ==
  \A r \in Regs, k \in Bits :
    k \in perm[d][r] <=> \A i \in DOMAIN regions : ~Touches(r * PerReg + k, regions[i])

RegionInv == JobsInv /\ \A d \in Dirs : applied[d] # "none" => Exact(d, applied[d])

-----------------------------------------------------------------------------
\* Geometry: registers, blocks and addresses.
(* Division with remainder.                                                *)
LEMMA DivMod ==
  ASSUME NEW a \in Nat, NEW b \in Nat \ {0}
  PROVE  /\ a \div b \in Nat /\ a % b \in 0 .. b - 1
         /\ a = b * (a \div b) + (a % b)
  BY SMT

(* Quotient and remainder are unique: blocks have one place in a register. *)
LEMMA Unique ==
  ASSUME NEW b \in Nat \ {0}, NEW q \in Int, NEW r \in Int, NEW p \in Int, NEW s \in Int,
         0 <= r, r < b, 0 <= s, s < b, b * q + r = b * p + s
  PROVE  q = p /\ r = s
  BY SMT

(* A multiple is divided exactly.                                          *)
LEMMA DivMul ==
  ASSUME NEW b \in Nat \ {0}, NEW q \in Nat
  PROVE  (b * q) \div b = q /\ (b * q) % b = 0
  BY SMT

(* Multiples are ordered like their factors.                               *)
LEMMA Order ==
  ASSUME NEW b \in Nat \ {0}, NEW x \in Int, NEW y \in Int
  PROVE  /\ b * x < b * y <=> x < y
         /\ b * x <= b * y <=> x <= y
<1>1. x < y => b * x < b * y
  <2>1. SUFFICES ASSUME x < y PROVE b * x < b * y
    OBVIOUS
  <2>2. b * (y - x) >= b
    BY <2>1, SMT
  <2> QED BY <2>2, SMT
<1>2. y < x => b * y < b * x
  <2>1. SUFFICES ASSUME y < x PROVE b * y < b * x
    OBVIOUS
  <2>2. b * (x - y) >= b
    BY <2>1, SMT
  <2> QED BY <2>2, SMT
<1>3. b * x \in Int /\ b * y \in Int
  BY SMT
<1> QED BY <1>1, <1>2, <1>3, SMT

LEMMA Consts ==
  /\ Unit \in Nat \ {0} /\ PerReg \in Nat \ {0} /\ Limit \in Nat \ {0}
  /\ MaxIndex \in Nat /\ MaxIndex > 2
  BY MonitorAssumption, SMT

(* The flash is a whole number of registers of PerReg blocks.              *)
LEMMA Flash ==
  /\ NumBlocks \in Nat /\ Limit = Unit * NumBlocks
  /\ \E n \in Nat : Regs = 0 .. n - 1 /\ NumBlocks = PerReg * n
<1> DEFINE W == Unit * PerReg
           n == Limit \div W
<1>1. W \in Nat \ {0} /\ Limit % W = 0
  BY Consts, MonitorAssumption, SMT
<1>2. n \in Nat /\ Limit = W * n
  <2> HIDE DEF W
  <2>1. /\ Limit \div W \in Nat
        /\ Limit = W * (Limit \div W) + (Limit % W)
    BY <1>1, Consts, DivMod
  <2> QED BY <2>1, <1>1, SMT
<1> HIDE DEF n
<1>3. Limit = Unit * (PerReg * n) /\ PerReg * n \in Nat
  BY <1>2, Consts, SMT
<1>4. NumBlocks = PerReg * n
  <2> DEFINE m == PerReg * n
  <2>1. m \in Nat /\ Limit = Unit * m
    BY <1>3
  <2> HIDE DEF m
  <2>2. (Unit * m) \div Unit = m
    BY <2>1, Consts, DivMul
  <2> QED BY <2>1, <2>2 DEF NumBlocks, m
<1>5. Regs = 0 .. n - 1
  BY DEF Regs, n
<1> QED BY <1>2, <1>3, <1>4, <1>5

(* The blocks the loop goes over are those that hold a byte of the region, *)
(* and they lie in the flash.                                              *)
LEMMA RegionBlocks ==
  ASSUME NEW r \in Region, Accepted(r)
  PROVE  /\ FirstBlock(r) \in Nat /\ Count(r) \in Nat /\ Count(r) > 0
         /\ FirstBlock(r) + Count(r) <= NumBlocks
         /\ \A b \in Nat : Touches(b, r) <=>
              FirstBlock(r) <= b /\ b < FirstBlock(r) + Count(r)
<1> DEFINE F == r.start \div Unit
           o == r.start % Unit
           up == r.length + o + Unit - 1
           C == up \div Unit
<1>1. r.start \in Nat /\ r.length \in Nat /\ r.length > 0 /\ r.start + r.length <= Limit
  BY Consts, SMT DEF Region, Accepted
<1>2. F \in Nat /\ o \in 0 .. Unit - 1 /\ r.start = Unit * F + o
  BY <1>1, Consts, DivMod
<1> HIDE DEF F, o
<1>3. up \in Nat
  BY <1>1, <1>2, Consts, SMT
<1>4. /\ C \in Nat /\ up % Unit \in 0 .. Unit - 1
      /\ up = Unit * C + (up % Unit)
  <2> HIDE DEF up
  <2> QED BY <1>3, Consts, DivMod
<1>5. C = Count(r)
  <2>1. AdjustedLen(r.start, r.length) = Unit * C
    <3>1. AdjustedLen(r.start, r.length) = C * Unit
      BY DEF AdjustedLen, o
    <3> QED BY <3>1, <1>4, Consts, SMT
  <2>2. (Unit * C) \div Unit = C
    BY <1>4, Consts, DivMul
  <2> QED BY <2>1, <2>2 DEF Count
<1> HIDE DEF C
<1>6. r.length + o <= Unit * C /\ Unit * C < r.length + o + Unit
  BY <1>1, <1>2, <1>4, Consts, SMT
<1>7. C > 0
  <2>1. Unit * 0 < Unit * C
    BY <1>6, <1>1, <1>2, <1>4, Consts, SMT
  <2> QED BY <2>1, <1>4, Consts, Order, SMT
<1>8. ASSUME NEW b \in Nat
      PROVE  /\ b * Unit < r.start + r.length <=> b < F + C
             /\ r.start < (b + 1) * Unit <=> F <= b
  <2>1. b * Unit < r.start + r.length <=> b < F + C
    <3>1. CASE b < F + C
      <4>1. Unit * (b + 1) <= Unit * (F + C)
        BY <3>1, <1>2, <1>4, Consts, Order, SMT
      <4>2. b * Unit + Unit <= Unit * F + Unit * C
        BY <4>1, <1>2, <1>4, Consts, SMT
      <4> QED BY <4>2, <3>1, <1>6, <1>1, <1>2, <1>4, Consts, SMT
    <3>2. CASE ~(b < F + C)
      <4>1. Unit * (F + C) <= Unit * b
        BY <3>2, <1>2, <1>4, Consts, Order, SMT
      <4>2. Unit * F + Unit * C <= b * Unit
        BY <4>1, <1>2, <1>4, Consts, SMT
      <4> QED BY <4>2, <3>2, <1>6, <1>1, <1>2, <1>4, Consts, SMT
    <3> QED BY <3>1, <3>2
  <2>2. r.start < (b + 1) * Unit <=> F <= b
    <3>1. CASE F <= b
      <4>1. Unit * F <= Unit * b
        BY <3>1, <1>2, Consts, Order, SMT
      <4> QED BY <4>1, <3>1, <1>2, Consts, SMT
    <3>2. CASE ~(F <= b)
      <4>1. Unit * (b + 1) <= Unit * F
        BY <3>2, <1>2, Consts, Order, SMT
      <4> QED BY <4>1, <3>2, <1>2, Consts, SMT
    <3> QED BY <3>1, <3>2
  <2> QED BY <2>1, <2>2
<1>9. F + C <= NumBlocks
  <2>1. Unit * (F + C - 1) < Unit * NumBlocks
    <3>1. Unit * (F + C - 1) = Unit * F + Unit * C - Unit
      BY <1>2, <1>4, Consts, SMT
    <3>2. Unit * (F + C - 1) < r.start + r.length
      BY <3>1, <1>1, <1>2, <1>4, <1>6, Consts, SMT
    <3>3. r.start + r.length <= Unit * NumBlocks
      BY Flash, <1>1
    <3> DEFINE x == Unit * (F + C - 1)
               y == Unit * NumBlocks
    <3>4. x \in Int /\ y \in Int /\ r.start + r.length \in Int
      BY <1>1, <1>2, <1>4, Flash, Consts, SMTT(30)
    <3> HIDE DEF x, y
    <3> QED BY <3>2, <3>3, <3>4, SMT DEF x, y
  <2> QED BY <2>1, Flash, <1>2, <1>4, Consts, Order, SMT
<1>10. F = FirstBlock(r)
  BY DEF F, FirstBlock
<1> QED BY <1>2, <1>4, <1>5, <1>7, <1>8, <1>9, <1>10 DEF Touches

(* Where the loop starts: the register and the bit of the first block.     *)
LEMMA StartPosition ==
  ASSUME NEW r \in Region
  PROVE  LET first == AlignedAddr(r.start)
             reg == first \div (PerReg * Unit)
             bit == (first % (PerReg * Unit)) \div Unit
         IN /\ reg \in Nat /\ bit \in 0 .. PerReg - 1
            /\ reg * PerReg + bit = FirstBlock(r)
<1> DEFINE F == r.start \div Unit
           W == PerReg * Unit
           first == AlignedAddr(r.start)
           reg == first \div W
           m == first % W
           bit == m \div Unit
           d == F - PerReg * reg
<1>1. F \in Nat
  BY Consts, DivMod DEF Region
<1>2. first = Unit * F /\ first \in Nat
  BY <1>1, Consts, SMT DEF AlignedAddr
<1>3. W \in Nat \ {0}
  BY Consts, SMT
<1>4. reg \in Nat /\ m \in 0 .. W - 1 /\ first = W * reg + m
  <2> HIDE DEF first, W
  <2> QED BY <1>2, <1>3, DivMod
<1> HIDE DEF F, first, reg, m
<1>5. d \in Int /\ m = Unit * d
  BY <1>1, <1>2, <1>4, Consts, SMT
<1>6. 0 <= d /\ d < PerReg
  <2> HIDE DEF d
  <2>1. Unit * 0 <= Unit * d /\ Unit * d < Unit * PerReg
    BY <1>4, <1>5, Consts, SMT
  <2> QED BY <2>1, <1>5, Consts, Order, SMT
<1>7. bit = d
  <2> HIDE DEF d
  <2>1. (Unit * d) \div Unit = d
    BY <1>5, <1>6, Consts, DivMul, SMT
  <2> QED BY <2>1, <1>5
<1>8. reg * PerReg + d = F
  BY <1>1, <1>4, Consts, SMT
<1> QED BY <1>4, <1>5, <1>6, <1>7, <1>8, Consts DEF F, first, reg, m, FirstBlock

-----------------------------------------------------------------------------
(* The calls of spim_rw_perm_init.                                         *)

LEMMA ConcatAt ==
  ASSUME NEW S, NEW s \in Seq(S), NEW t \in Seq(S)
  PROVE  /\ s \o t \in Seq(S) /\ Len(s \o t) = Len(s) + Len(t)
         /\ \A j \in 1 .. Len(s) : (s \o t)[j] = s[j]
         /\ \A j \in Len(s) + 1 .. Len(s) + Len(t) : (s \o t)[j] = t[j - Len(s)]
  BY ConcatProperties, SMT

LEMMA HandleTypes ==
  ASSUME conf \in Handles
  PROVE  /\ conf.list \in Seq(Cmds) /\ conf.extra \in BOOLEAN /\ conf.mux \in {0, 1}
         /\ \A d \in Dirs : conf[d] \in Seq(Region)
  BY HandlesAssumption DEF Dirs

(* The two that open come first, and the others are the blocked regions,   *)
(* each with its table.                                                    *)
LEMMA JobsAre ==
  ASSUME conf \in Handles
  PROVE  /\ Jobs \in Seq([d : Dirs, enable : BOOLEAN, region : Region])
         /\ Len(Jobs) \in Nat /\ Len(Jobs) >= 2
         /\ Jobs[1] = Job("R", TRUE, Everything) /\ Jobs[2] = Job("W", TRUE, Everything)
         /\ \A j \in 3 .. Len(Jobs) :
              ~Jobs[j].enable /\ \E i \in DOMAIN conf[Jobs[j].d] :
                                    Jobs[j].region = conf[Jobs[j].d][i]
         /\ \A d \in Dirs : \A i \in DOMAIN conf[d] :
              \E j \in 3 .. Len(Jobs) : Jobs[j].d = d /\ Jobs[j].region = conf[d][i]
<1> DEFINE S == [d : Dirs, enable : BOOLEAN, region : Region]
           O == <<Job("R", TRUE, Everything), Job("W", TRUE, Everything)>>
           CR == Closing("R")
           CW == Closing("W")
           m == Len(conf["R"])
           n == Len(conf["W"])
<1>1. conf["R"] \in Seq(Region) /\ conf["W"] \in Seq(Region)
  BY HandleTypes DEF Dirs
<1>2. m \in Nat /\ n \in Nat /\ DOMAIN conf["R"] = 1 .. m /\ DOMAIN conf["W"] = 1 .. n
  BY <1>1
<1>3. Everything \in Region
  BY Consts, SMT DEF Everything, Region
<1>4. O \in Seq(S) /\ Len(O) = 2
  BY <1>3 DEF Job, Dirs
<1>5. /\ CR \in Seq(S) /\ Len(CR) = m
      /\ \A i \in 1 .. m : CR[i] = Job("R", FALSE, conf["R"][i])
  BY <1>1, <1>2 DEF Closing, Job, Dirs
<1>6. /\ CW \in Seq(S) /\ Len(CW) = n
      /\ \A i \in 1 .. n : CW[i] = Job("W", FALSE, conf["W"][i])
  BY <1>1, <1>2 DEF Closing, Job, Dirs
<1>7. O[1] = Job("R", TRUE, Everything) /\ O[2] = Job("W", TRUE, Everything)
  OBVIOUS
<1> HIDE DEF O, CR, CW, m, n, S
<1>8. Jobs = (O \o CR) \o CW
  BY DEF Jobs, O, CR, CW
<1>9. /\ Jobs \in Seq(S) /\ Len(Jobs) = 2 + m + n
      /\ \A j \in 1 .. 2 : Jobs[j] = O[j]
      /\ \A j \in 3 .. 2 + m : Jobs[j] = CR[j - 2]
      /\ \A j \in 3 + m .. 2 + m + n : Jobs[j] = CW[j - 2 - m]
  <2> DEFINE OC == O \o CR
  <2>1. /\ OC \in Seq(S) /\ Len(OC) = 2 + m
        /\ \A j \in 1 .. 2 : OC[j] = O[j]
        /\ \A j \in 3 .. 2 + m : OC[j] = CR[j - 2]
    <3>1. /\ OC \in Seq(S) /\ Len(OC) = Len(O) + Len(CR)
          /\ \A j \in 1 .. Len(O) : OC[j] = O[j]
          /\ \A j \in Len(O) + 1 .. Len(O) + Len(CR) : OC[j] = CR[j - Len(O)]
      BY <1>4, <1>5, ConcatAt
    <3> HIDE DEF OC
    <3> QED BY <3>1, <1>2, <1>4, <1>5, SMT
  <2> HIDE DEF OC
  <2>2. Jobs = OC \o CW
    BY <1>8 DEF OC
  <2>3. /\ Jobs \in Seq(S) /\ Len(Jobs) = 2 + m + n
        /\ \A j \in 1 .. 2 + m : Jobs[j] = OC[j]
        /\ \A j \in 2 + m + 1 .. 2 + m + n : Jobs[j] = CW[j - (2 + m)]
    <3>1. /\ OC \o CW \in Seq(S) /\ Len(OC \o CW) = Len(OC) + Len(CW)
          /\ \A j \in 1 .. Len(OC) : (OC \o CW)[j] = OC[j]
          /\ \A j \in Len(OC) + 1 .. Len(OC) + Len(CW) : (OC \o CW)[j] = CW[j - Len(OC)]
      BY <2>1, <1>6, ConcatAt, ZenonT(40)
    <3> QED BY <3>1, <2>1, <2>2, <1>2, <1>6, SMT
  <2>4. \A j \in 1 .. 2 : j \in 1 .. 2 + m
    BY <1>2, SMT
  <2>5. \A j \in 3 .. 2 + m : j \in 1 .. 2 + m
    BY <1>2, SMT
  <2>6. \A j \in 3 + m .. 2 + m + n :
          j \in 2 + m + 1 .. 2 + m + n /\ j - (2 + m) = j - 2 - m
    BY <1>2, SMT
  <2>7. \A j \in 1 .. 2 : Jobs[j] = O[j]
    BY <2>1, <2>3, <2>4, Zenon
  <2>8. \A j \in 3 .. 2 + m : Jobs[j] = CR[j - 2]
    BY <2>1, <2>3, <2>5, Zenon
  <2>9. \A j \in 3 + m .. 2 + m + n : Jobs[j] = CW[j - 2 - m]
    BY <2>3, <2>6
  <2> QED BY <2>3, <2>7, <2>8, <2>9, Zenon
<1>10. Jobs[1] = Job("R", TRUE, Everything) /\ Jobs[2] = Job("W", TRUE, Everything)
  <2>1. 1 \in 1 .. 2 /\ 2 \in 1 .. 2
    OBVIOUS
  <2> QED BY <2>1, <1>7, <1>9, Zenon
<1>11. ASSUME NEW j \in 3 .. Len(Jobs)
       PROVE  ~Jobs[j].enable /\ \E i \in DOMAIN conf[Jobs[j].d] :
                                    Jobs[j].region = conf[Jobs[j].d][i]
  <2>1. CASE j <= 2 + m
    <3>1. j - 2 \in 1 .. m /\ Jobs[j] = CR[j - 2]
      BY <2>1, <1>2, <1>9, SMT
    <3>2. Jobs[j] = Job("R", FALSE, conf["R"][j - 2])
      BY <3>1, <1>5
    <3> QED BY <3>1, <3>2, <1>2 DEF Job
  <2>2. CASE j > 2 + m
    <3>1. j - 2 - m \in 1 .. n /\ Jobs[j] = CW[j - 2 - m]
      BY <2>2, <1>2, <1>9, SMT
    <3>2. Jobs[j] = Job("W", FALSE, conf["W"][j - 2 - m])
      BY <3>1, <1>6
    <3> QED BY <3>1, <3>2, <1>2 DEF Job
  <2> QED BY <2>1, <2>2, <1>2, SMT
<1>12. ASSUME NEW d \in Dirs, NEW i \in DOMAIN conf[d]
       PROVE  \E j \in 3 .. Len(Jobs) : Jobs[j].d = d /\ Jobs[j].region = conf[d][i]
  <2>1. CASE d = "R"
    <3>1. i \in 1 .. m
      BY <2>1, <1>2
    <3>2. i + 2 \in 3 .. Len(Jobs) /\ Jobs[i + 2] = CR[i]
      BY <3>1, <1>2, <1>9, SMT
    <3>3. Jobs[i + 2] = Job("R", FALSE, conf["R"][i])
      BY <3>1, <3>2, <1>5
    <3> QED BY <3>2, <3>3, <2>1 DEF Job
  <2>2. CASE d = "W"
    <3>1. i \in 1 .. n
      BY <2>2, <1>2
    <3>2. i + 2 + m \in 3 .. Len(Jobs) /\ Jobs[i + 2 + m] = CW[i]
      BY <3>1, <1>2, <1>9, SMTT(30)
    <3>3. Jobs[i + 2 + m] = Job("W", FALSE, conf["W"][i])
      BY <3>1, <3>2, <1>6
    <3> QED BY <3>2, <3>3, <2>2 DEF Job
  <2> QED BY <2>1, <2>2 DEF Dirs
<1> QED BY <1>2, <1>9, <1>10, <1>11, <1>12, SMT DEF S

-----------------------------------------------------------------------------
(* The types, the locks and where init stands.                             *)

LEMMA FixedSlots ==
  /\ DOMAIN Fixed = {"EN4B", "EX4B", "WREAR"} /\ DOMAIN Fixed \subseteq Known
  /\ Fixed["EN4B"] = 0 /\ Fixed["EX4B"] = 1 /\ Fixed["WREAR"] = MaxIndex
  /\ \A c \in DOMAIN Fixed : Fixed[c] \in Slots
<1>1. /\ DOMAIN Fixed = {"EN4B", "EX4B", "WREAR"}
      /\ Fixed["EN4B"] = 0 /\ Fixed["EX4B"] = 1 /\ Fixed["WREAR"] = MaxIndex
  BY DEF Fixed
<1>2. 0 \in Slots /\ 1 \in Slots /\ MaxIndex \in Slots
  BY Consts, SMT DEF Slots
<1> QED BY <1>1, <1>2, MonitorAssumption

(* A write of a slot keeps the types and what is locked.                   *)
LEMMA PutType ==
  ASSUME NEW t \in TblType, NEW i \in Slots, NEW c \in Cmds, NEW f \in Flags
  PROVE  Put(t, i, Entry(c, f)) \in TblType
  BY DEF Put, Entry, TblType, Flags

LEMMA AllowType ==
  ASSUME NEW t \in TblType, NEW n \in Nat, n >= 1, NEW c \in Cmds
  PROVE  LET acc == Allow([t |-> t, index |-> n], c)
         IN /\ acc.t \in TblType /\ acc.index \in Nat /\ acc.index >= 1
            /\ (\A i \in Slots : t[i].lock) => acc.t = t
<1> DEFINE a == [t |-> t, index |-> n]
           put(i) == Put(t, i, Entry(c, "always"))
<1>0. "always" \in Flags
  BY DEF Flags
<1>1. CASE c \notin Known
  BY <1>1 DEF Allow
<1>2. CASE c \in Known /\ c \in DOMAIN Fixed
  <2>1. Allow(a, c) = [a EXCEPT !.t = put(Fixed[c])]
    BY <1>2 DEF Allow
  <2>2. Fixed[c] \in Slots
    BY <1>2, FixedSlots
  <2>3. put(Fixed[c]) \in TblType
    BY <1>0, <2>2, PutType
  <2>4. (\A i \in Slots : t[i].lock) => put(Fixed[c]) = t
    BY <2>2 DEF Put
  <2> QED BY <2>1, <2>3, <2>4
<1>3. CASE c \in Known /\ c \notin DOMAIN Fixed
  <2>1. Allow(a, c) = [t |-> IF n + 1 < MaxIndex THEN put(n + 1) ELSE t, index |-> n + 1]
    BY <1>3 DEF Allow
  <2>2. n + 1 < MaxIndex => n + 1 \in Slots
    BY Consts, SMT DEF Slots
  <2>3. n + 1 < MaxIndex => put(n + 1) \in TblType
    BY <1>0, <2>2, PutType
  <2>4. n + 1 < MaxIndex => ((\A i \in Slots : t[i].lock) => put(n + 1) = t)
    BY <2>2 DEF Put
  <2> QED BY <2>1, <2>3, <2>4, SMT
<1> QED BY <1>1, <1>2, <1>3

LEMMA ControlInit == Init => ControlInv
<1> SUFFICES ASSUME Init PROVE ControlInv
  OBVIOUS
<1>1. TypeInv
  <2>1. tbl \in TblType
    BY DEF Init, Empty, TblType, Flags
  <2>2. at \in [done : Nat, index : Nat, reg : Nat, bit : Nat, left : Nat]
    BY DEF Init, Start
  <2>3. ret.granted \in SUBSET Cmds
    BY DEF Init
  <2>4. perm \in [Dirs -> [Regs -> SUBSET Bits]]
    BY DEF Init
  <2>5. \A d \in Dirs : applied[d] = "none" \/ applied[d] \in Seq(Region)
    BY DEF Init
  <2>6. ctl \in CtlType
    BY DEF Init, CtlType
  <2> QED BY <2>1, <2>2, <2>3, <2>4, <2>5, <2>6 DEF Init, TypeInv
<1>2. LockInv
  BY DEF Init, LockInv
<1>3. SweepInv
  BY DEF Init, SweepInv
<1> QED BY <1>1, <1>2, <1>3 DEF ControlInv

(* A write of SPIPF000 that leaves the lock bits alone.                    *)
LEMMA ControlWrite ==
  ASSUME NEW changes \in CtlType, changes.lock = ctl.lock, ctl \in CtlType, Control(changes)
  PROVE  ctl' \in CtlType /\ ctl'.lock = ctl.lock /\ (ctl.lock => ctl' = ctl)
  BY DEF Control

LEMMA SameJobs ==
  ASSUME conf' = conf
  PROVE  Jobs' = Jobs
  BY DEF Jobs, Closing

(* An operation between two calls of init.                                 *)
LEMMA IdleStep ==
  ASSUME ControlInv, pc = "idle", pc' = pc, at' = at, perm' = perm, sel' = sel,
         applied' = applied, tbl' \in TblType, ctl' \in CtlType,
         ret'.granted \in SUBSET Cmds, asked' \in SUBSET Cmds, plock' \in SUBSET Dirs,
         sealed' \in BOOLEAN, LockInv'
  PROVE  ControlInv'
  BY DEF ControlInv, TypeInv, SweepInv

(* A search from the first slot finds the least one there is.              *)
LEMMA FirstIn ==
  ASSUME NEW S \in SUBSET Nat, S # {}
  PROVE  First(S) \in S /\ \A j \in S : First(S) <= j
<1>1. \A x, y \in Nat : x < y => <<x, y>> \in OpToRel(<, Nat)
  BY Zenon DEF OpToRel
<1>2. PICK R : IsWellFoundedOn(R, Nat) /\ \A x, y \in Nat : x < y => <<x, y>> \in R
  BY <1>1, NatLessThanWellFounded, Zenon
<1>3. IsWellFoundedOn(R, Nat) /\ S \subseteq Nat /\ S # {}
  BY <1>2
<1>4. PICK x \in S : \A y \in S : ~(<<y, x>> \in R)
  BY ONLY <1>3, WFMin, Zenon
<1>5. \A y \in S : x \in Nat /\ y \in Nat /\ ~(y < x)
  BY <1>2, <1>4
<1>6. \A y \in S : x <= y
  BY <1>5, SMT
<1> QED BY <1>4, <1>6, Zenon DEF First

LEMMA SlotsNat == \A S \in SUBSET Slots : S \in SUBSET Nat
  BY Consts, SMT DEF Slots

(* Adding a command writes one slot, which is not locked.                  *)
LEMMA AddNewSlot ==
  ASSUME ControlInv, NEW c \in Cmds, NEW f \in Flags, AddNew(c, f)
  PROVE  /\ \/ tbl' = tbl /\ ret'.granted = {}
            \/ c \in DOMAIN Fixed /\ tbl[Fixed[c]].lock /\ tbl' = tbl /\ ret'.granted = {c}
            \/ \E i \in Slots : /\ ~tbl[i].lock /\ tbl' = [tbl EXCEPT ![i] = Entry(c, f)]
                                /\ ret'.granted = {c}
<1> DEFINE put(i) == tbl' = Put(tbl, i, Entry(c, f)) /\ Answer("add", {c})
<1>1. CASE c \in DOMAIN Fixed
  <2>1. put(Fixed[c])
    BY <1>1 DEF AddNew
  <2>2. Fixed[c] \in Slots
    BY <1>1, FixedSlots
  <2> QED BY <1>1, <2>1, <2>2 DEF Put, Answer
<1>2. CASE c \notin DOMAIN Fixed /\ c \in Known /\ FreeSlots # {}
  <2> DEFINE i == First(FreeSlots)
  <2>1. put(i)
    BY <1>2 DEF AddNew
  <2>2. i \in FreeSlots
    <3>1. FreeSlots \subseteq Slots
      BY Consts, SMT DEF FreeSlots, Slots
    <3> QED BY <3>1, <1>2, SlotsNat, FirstIn
  <2>3. i \in Slots /\ ~tbl[i].lock
    BY <2>2, Consts, SMT DEF FreeSlots, Slots, Empty
  <2> HIDE DEF i
  <2> QED BY <2>1, <2>3 DEF Put, Answer
<1>3. CASE c \notin DOMAIN Fixed /\ ~(c \in Known /\ FreeSlots # {})
  BY <1>3 DEF AddNew, Answer
<1> QED BY <1>1, <1>2, <1>3

LEMMA SameTable ==
  ASSUME tbl \in TblType, tbl' \in TblType, \A i \in Slots : tbl'[i] = tbl[i]
  PROVE  tbl' = tbl
  BY DEF TblType

(* The operations on single commands leave locked slots alone.             *)
LEMMA AddKeepsLocked ==
  ASSUME ControlInv, NEW c \in Cmds, NEW f \in Flags, AddCmd(c, f)
  PROVE  /\ tbl' \in TblType /\ ret'.granted \in SUBSET {c}
         /\ \A i \in Slots : tbl[i].lock => tbl'[i] = tbl[i]
<1>1. tbl \in TblType
  BY DEF ControlInv, TypeInv
<1>2. CASE Unlocked(c) # {}
  <2> DEFINE s == First(Unlocked(c))
  <2>1. s \in Slots /\ ~tbl[s].lock
    <3>1. Unlocked(c) \subseteq Slots
      BY DEF Unlocked, SlotsOf
    <3>2. s \in Unlocked(c)
      BY <3>1, <1>2, SlotsNat, FirstIn
    <3> QED BY <3>2 DEF Unlocked, SlotsOf
  <2>2. tbl' = [tbl EXCEPT ![s].valid = @ \cup {f}] /\ ret' = [op |-> "add", granted |-> {c}]
    BY <1>2 DEF AddCmd, Answer
  <2> HIDE DEF s
  <2> QED BY <1>1, <2>1, <2>2 DEF TblType
<1>3. CASE Unlocked(c) = {}
  <2>1. AddNew(c, f)
    BY <1>3 DEF AddCmd
  <2>2. \/ tbl' = tbl /\ ret'.granted \in SUBSET {c}
        \/ \E i \in Slots : /\ ~tbl[i].lock /\ tbl' = [tbl EXCEPT ![i] = Entry(c, f)]
                            /\ ret'.granted = {c}
    BY <2>1, AddNewSlot
  <2>3. Entry(c, f) \in [cmd : Cmds \cup {"none"}, valid : SUBSET Flags, lock : BOOLEAN]
    BY DEF Entry
  <2> QED BY <1>1, <2>2, <2>3 DEF TblType
<1> QED BY <1>2, <1>3

LEMMA RemoveKeepsLocked ==
  ASSUME ControlInv, NEW c \in Cmds, RemoveCmd(c)
  PROVE  /\ tbl' \in TblType /\ ret'.granted = {}
         /\ \A i \in Slots : tbl[i].lock => tbl'[i] = tbl[i]
<1>1. tbl \in TblType
  BY DEF ControlInv, TypeInv
<1>2. tbl' = [i \in Slots |-> IF i \in Cleared(c) THEN Empty ELSE tbl[i]] /\ ret'.granted = {}
  BY DEF RemoveCmd, Answer
<1>3. \A i \in Cleared(c) : ~tbl[i].lock
  BY DEF Cleared, Unlocked
<1>4. Empty \in [cmd : Cmds \cup {"none"}, valid : SUBSET Flags, lock : BOOLEAN]
  BY DEF Empty
<1> QED BY <1>1, <1>2, <1>3, <1>4 DEF TblType

LEMMA LockKeepsLocked ==
  ASSUME ControlInv, NEW c \in Cmds, LockCmd(c)
  PROVE  /\ tbl' \in TblType /\ ret'.granted = {}
         /\ \A i \in Slots : tbl[i].lock => tbl'[i] = tbl[i]
         /\ \A i \in Slots : tbl'[i].cmd = tbl[i].cmd /\ tbl'[i].valid = tbl[i].valid
<1>1. tbl \in TblType
  BY DEF ControlInv, TypeInv
<1>2. tbl' = [i \in Slots |-> IF i \in Unlocked(c) THEN [tbl[i] EXCEPT !.lock = TRUE]
                              ELSE tbl[i]]
  BY DEF LockCmd
<1>3. ret'.granted = {}
  BY DEF LockCmd, Answer
<1>4. \A i \in Unlocked(c) : ~tbl[i].lock
  BY DEF Unlocked
<1> QED BY <1>1, <1>2, <1>3, <1>4 DEF TblType

LEMMA LockAllTable ==
  ASSUME ControlInv, LockCommon
  PROVE  /\ tbl' \in TblType /\ \A i \in Slots : tbl'[i].lock
         /\ \A i \in Slots : tbl'[i].cmd = tbl[i].cmd /\ tbl'[i].valid = tbl[i].valid
         /\ \A i \in Slots : tbl[i].lock => tbl'[i] = tbl[i]
<1>1. tbl \in TblType
  BY DEF ControlInv, TypeInv
<1>2. tbl' = [i \in Slots |-> [tbl[i] EXCEPT !.lock = TRUE]]
  BY DEF LockCommon
<1> QED BY <1>1, <1>2 DEF TblType

(* A round of the command table's loop.                                    *)
LEMMA AllowKeepsLocked ==
  ASSUME ControlInv, AllowNext
  PROVE  /\ tbl' \in TblType /\ at'.index \in Nat /\ at'.index >= 1
         /\ (\A i \in Slots : tbl[i].lock) => tbl' = tbl
<1> DEFINE c == conf.list[at.done + 1]
           acc == Allow([t |-> tbl, index |-> at.index], c)
<1>1. tbl \in TblType /\ at.done \in Nat /\ at.index \in Nat /\ at.index >= 1
  BY DEF ControlInv, TypeInv, SweepInv, AllowNext
<1>2. conf \in Handles /\ at.done < Len(conf.list)
  BY DEF ControlInv, TypeInv, AllowNext
<1>3. c \in Cmds
  <2>1. conf.list \in Seq(Cmds)
    BY <1>2, HandleTypes
  <2>2. at.done + 1 \in 1 .. Len(conf.list)
    BY <1>1, <1>2, <2>1, SMT
  <2> QED BY <2>1, <2>2
<1>4. tbl' = acc.t /\ at' = [at EXCEPT !.done = @ + 1, !.index = acc.index]
  BY DEF AllowNext
<1>5. at'.index = acc.index
  <2> HIDE DEF acc
  <2> QED BY <1>4 DEF ControlInv, TypeInv
<1> HIDE DEF c
<1>6. /\ acc.t \in TblType /\ acc.index \in Nat /\ acc.index >= 1
      /\ (\A i \in Slots : tbl[i].lock) => acc.t = tbl
  BY <1>1, <1>3, AllowType
<1> QED BY <1>4, <1>5, <1>6

JobType == [d : Dirs, enable : BOOLEAN, region : Region]

LEMMA CurrentIs ==
  ASSUME ControlInv, pc \in {"job", "sweep"}, at.done < Len(Jobs)
  PROVE  /\ Current \in JobType /\ conf \in Handles /\ at.done \in Nat
         /\ Len(Jobs) \in Nat
<1>1. conf \in Handles /\ at.done \in Nat
  BY DEF ControlInv, TypeInv
<1>2. Jobs \in Seq(JobType)
  BY <1>1, JobsAre DEF JobType
<1>3. Len(Jobs) \in Nat /\ at.done + 1 \in 1 .. Len(Jobs)
  BY <1>1, <1>2, SMT
<1> QED BY <1>1, <1>2, <1>3 DEF Current

(* One round covers the next blocks and no others, in the table and the    *)
(* register where they are.                                                *)
Covered(reg, swept, w) ==
  \A r \in Regs, k \in Bits :
    r = reg /\ k \in swept <=>
      Position <= r * PerReg + k /\ r * PerReg + k < Position + w

Wrote(reg, swept) ==
  perm' = [perm EXCEPT ![sel][reg] = IF Current.enable THEN @ \cup swept ELSE @ \ swept]

LEMMA RoundFacts ==
  ASSUME ControlInv, SweepRound
  PROVE  \E reg \in Regs, swept \in SUBSET Bits, w \in Nat :
           /\ w > 0 /\ w <= at.left
           /\ Covered(reg, swept, w) /\ Wrote(reg, swept)
           /\ at'.reg \in Nat /\ at'.bit \in Nat /\ at'.bit <= PerReg
           /\ Position' = Position + w
           /\ at' = [done |-> IF at.left = w THEN at.done + 1 ELSE at.done,
                     index |-> at.index, reg |-> at'.reg, bit |-> at'.bit,
                     left |-> at.left - w]
           /\ pc' = IF at.left = w THEN "job" ELSE "sweep"
<1> DEFINE over == at.bit = PerReg
           reg == IF over THEN at.reg + 1 ELSE at.reg
           bit == IF over THEN 0 ELSE at.bit
           whole == bit = 0 /\ at.left >= PerReg
           w == IF whole THEN PerReg ELSE 1
           swept == IF whole THEN Bits ELSE {bit}
<1>1. /\ pc = "sweep" /\ at.done < Len(Jobs) /\ Accepted(Current.region)
      /\ Current.d \notin plock /\ sel = Current.d
      /\ at.bit <= PerReg /\ at.left > 0
      /\ Position + at.left = FirstBlock(Current.region) + Count(Current.region)
  BY DEF SweepRound, ControlInv, SweepInv
<1>2. /\ at \in [done : Nat, index : Nat, reg : Nat, bit : Nat, left : Nat]
      /\ at.reg \in Nat /\ at.bit \in Nat /\ at.left \in Nat
  BY DEF ControlInv, TypeInv
<1>3. Current.region \in Region
  BY <1>1, CurrentIs DEF JobType
<1>4. Position \in Nat /\ Position + at.left <= NumBlocks
  <2>1. Position \in Nat
    BY <1>2, Consts, SMT DEF Position
  <2>2. FirstBlock(Current.region) + Count(Current.region) <= NumBlocks
    BY <1>1, <1>3, RegionBlocks
  <2> QED BY <2>1, <2>2, <1>1
<1>5. reg \in Nat /\ bit \in 0 .. PerReg - 1 /\ reg * PerReg + bit = Position
  BY <1>1, <1>2, Consts, SMT DEF Position
<1>6. w \in Nat /\ w > 0 /\ w <= at.left
  BY <1>1, <1>2, Consts, SMT
<1>7. bit \in Bits /\ swept \in SUBSET Bits
  BY <1>5 DEF Bits
<1>8. /\ perm' = [perm EXCEPT ![sel][reg] = IF Current.enable THEN @ \cup swept ELSE @ \ swept]
      /\ at' = [at EXCEPT !.reg = IF whole THEN reg + 1 ELSE reg,
                          !.bit = IF whole THEN 0 ELSE bit + 1,
                          !.left = at.left - w,
                          !.done = IF at.left - w = 0 THEN @ + 1 ELSE @]
      /\ pc' = IF at.left - w = 0 THEN "job" ELSE pc
  BY <1>1 DEF SweepRound
<1>9. /\ at'.reg = IF whole THEN reg + 1 ELSE reg
      /\ at'.bit = IF whole THEN 0 ELSE bit + 1
  <2> HIDE DEF reg, bit, whole, w
  <2> QED BY <1>2, <1>8
<1>10. at' = [done |-> IF at.left = w THEN at.done + 1 ELSE at.done,
              index |-> at.index, reg |-> at'.reg, bit |-> at'.bit, left |-> at.left - w]
  <2> DEFINE x == at'.reg
             y == at'.bit
  <2>1. at.left - w = 0 <=> at.left = w
    BY <1>2, <1>6, SMT
  <2>2. at' = [at EXCEPT !.reg = x, !.bit = y, !.left = at.left - w,
                         !.done = IF at.left = w THEN @ + 1 ELSE @]
    BY <2>1, <1>8, <1>9
  <2> HIDE DEF x, y, w, whole
  <2> QED BY <2>2, <1>2 DEF x, y
<1>11. /\ at'.reg \in Nat /\ at'.bit \in Nat /\ at'.bit <= PerReg
       /\ at'.reg * PerReg + at'.bit = Position + w
  <2>1. CASE whole
    BY <2>1, <1>5, <1>9, Consts, SMT
  <2>2. CASE ~whole
    <3>1. w = 1 /\ at'.reg = reg /\ at'.bit = bit + 1
      BY <2>2, <1>9
    <3> HIDE DEF reg, bit, w, whole
    <3> QED BY <3>1, <1>5, Consts, SMT
  <2> QED BY <2>1, <2>2
<1>12. Position' = Position + w
  BY <1>11 DEF Position
<1>13. \A k \in Bits : k \in swept <=>
          Position <= reg * PerReg + k /\ reg * PerReg + k < Position + w
  <2>1. SUFFICES ASSUME NEW k \in Bits
                 PROVE  k \in swept <=>
                   Position <= reg * PerReg + k /\ reg * PerReg + k < Position + w
    OBVIOUS
  <2>2. k \in 0 .. PerReg - 1
    BY DEF Bits
  <2>3. CASE whole
    <3>1. w = PerReg /\ swept = Bits /\ bit = 0
      BY <2>3
    <3> HIDE DEF reg, bit, w, whole, swept
    <3> QED BY <3>1, <2>2, <1>5, Consts, SMT
  <2>4. CASE ~whole
    <3>1. w = 1 /\ swept = {bit}
      BY <2>4
    <3> HIDE DEF reg, bit, w, whole, swept
    <3> QED BY <3>1, <2>2, <1>5, Consts, SMT
  <2> QED BY <2>3, <2>4
<1>14. PICK n \in Nat : Regs = 0 .. n - 1 /\ NumBlocks = PerReg * n
  BY Flash
<1> HIDE DEF reg, bit, w, whole, swept
<1>15. reg \in Regs
  <2>1. PerReg * reg < PerReg * n
    BY <1>4, <1>5, <1>6, <1>14, <1>2, Consts, SMT
  <2>2. reg < n
    BY <2>1, <1>5, Consts, Order
  <2> QED BY <2>2, <1>5, <1>14, SMT
<1>16. Covered(reg, swept, w)
  <2>1. SUFFICES ASSUME NEW r \in Regs, NEW k \in Bits, r # reg
                 PROVE  ~(Position <= r * PerReg + k /\ r * PerReg + k < Position + w)
    BY <1>13 DEF Covered
  <2>2. SUFFICES ASSUME Position <= r * PerReg + k, r * PerReg + k < Position + w
                 PROVE  FALSE
    OBVIOUS
  <2>3. r \in Nat /\ k \in 0 .. PerReg - 1
    BY <1>14, SMT DEF Bits
  <2>4. w = 1 \/ (w = PerReg /\ bit = 0)
    BY DEF w, whole
  <2>5. CASE w = 1
    <3>1. PerReg * r + k = PerReg * reg + bit
      BY <2>2, <2>3, <2>5, <1>4, <1>5, Consts, SMT
    <3>2. r = reg
      BY <3>1, <2>3, <1>5, Consts, Unique, SMT
    <3> QED BY <3>2, <2>1
  <2>6. CASE w = PerReg /\ bit = 0
    <3>1. PerReg * reg < PerReg * (r + 1) /\ PerReg * r < PerReg * (reg + 1)
      BY <2>2, <2>3, <2>6, <1>4, <1>5, Consts, SMT
    <3>2. reg < r + 1 /\ r < reg + 1
      BY <3>1, <2>3, <1>5, Consts, Order, SMT
    <3> QED BY <3>2, <2>1, <2>3, <1>5, SMT
  <2> QED BY <2>4, <2>5, <2>6
<1>17. pc' = IF at.left = w THEN "job" ELSE "sweep"
  BY <1>1, <1>2, <1>6, <1>8, SMT
<1>18. Wrote(reg, swept)
  BY <1>8 DEF Wrote
<1> QED BY <1>6, <1>7, <1>10, <1>11, <1>12, <1>15, <1>16, <1>17, <1>18

(* Steps that begin or go on with init.                                    *)
LEMMA InitStepType ==
  ASSUME ControlInv, pc' \in {"table", "job", "sweep"}, conf' \in Handles,
         at' \in [done : Nat, index : Nat, reg : Nat, bit : Nat, left : Nat],
         tbl' \in TblType, perm' \in [Dirs -> [Regs -> SUBSET Bits]],
         sel' \in Dirs \cup {"none"}, ctl' \in CtlType, ctl'.lock = ctl.lock,
         UNCHANGED <<plock, ret, sealed>>, asked' \in SUBSET Cmds,
         \A d \in Dirs : applied'[d] = "none" \/ applied'[d] \in Seq(Region),
         (\A i \in Slots : tbl[i].lock) => tbl' = tbl
  PROVE  TypeInv' /\ LockInv'
  BY DEF ControlInv, TypeInv, LockInv

LEMMA ControlNext == ControlInv /\ [Next]_vars => ControlInv'
<1> SUFFICES ASSUME ControlInv, [Next]_vars PROVE ControlInv'
  OBVIOUS
<1> USE DEF tables, config, history
<1>1. /\ TypeInv /\ LockInv /\ SweepInv
      /\ tbl \in TblType /\ ctl \in CtlType /\ plock \in SUBSET Dirs /\ sealed \in BOOLEAN
      /\ asked \in SUBSET Cmds /\ ret.granted \in SUBSET Cmds
      /\ perm \in [Dirs -> [Regs -> SUBSET Bits]] /\ sel \in Dirs \cup {"none"}
      /\ at \in [done : Nat, index : Nat, reg : Nat, bit : Nat, left : Nat]
      /\ \A d \in Dirs : applied[d] = "none" \/ applied[d] \in Seq(Region)
  BY DEF ControlInv, TypeInv
<1>s. Start \in [done : Nat, index : Nat, reg : Nat, bit : Nat, left : Nat]
  BY DEF Start
<1>2. CASE StartInit
  <2>1. PICK h \in Handles :
          /\ conf' = h
          /\ Control([ctl EXCEPT !.push = TRUE, !.single = TRUE, !.extra = @ \/ h.extra])
    BY <1>2 DEF StartInit
  <2>2. h.extra \in BOOLEAN /\ h.list \in Seq(Cmds)
    BY HandlesAssumption
  <2> DEFINE new == [ctl EXCEPT !.push = TRUE, !.single = TRUE, !.extra = @ \/ h.extra]
  <2>3. new \in CtlType /\ new.lock = ctl.lock
    BY <1>1, <2>2 DEF CtlType
  <2>4. ctl' \in CtlType /\ ctl'.lock = ctl.lock
    <3> HIDE DEF new
    <3>1. Control(new)
      BY <2>1 DEF new
    <3> QED BY <3>1, <2>3, <1>1, ControlWrite
  <2>5. TypeInv' /\ LockInv'
    BY <1>1, <1>2, <1>s, <2>1, <2>4, InitStepType DEF StartInit
  <2>6. SweepInv'
    <3>1. pc' = "table" /\ at'.done = 0 /\ at'.index = 1 /\ conf' = h
      BY <1>2, <2>1 DEF StartInit, Start
    <3>2. Len(h.list) \in Nat
      BY <2>2
    <3> QED BY <3>1, <3>2, SMT DEF SweepInv
  <2> QED BY <2>5, <2>6 DEF ControlInv
<1>3. CASE AllowNext
  <2>1. /\ tbl' \in TblType /\ at'.index \in Nat /\ at'.index >= 1
        /\ (\A i \in Slots : tbl[i].lock) => tbl' = tbl
    BY <1>3, AllowKeepsLocked
  <2> DEFINE i == at'.index
  <2>2. at' = [at EXCEPT !.done = @ + 1, !.index = i]
    BY <1>1, <1>3 DEF AllowNext
  <2>3. at' \in [done : Nat, index : Nat, reg : Nat, bit : Nat, left : Nat]
        /\ at'.done = at.done + 1
    <3> HIDE DEF i
    <3>1. i \in Nat
      BY <2>1 DEF i
    <3>2. at.done \in Nat /\ at.done + 1 \in Nat
      BY <1>1
    <3>3. at' = [done |-> at.done + 1, index |-> i, reg |-> at.reg, bit |-> at.bit,
                 left |-> at.left]
      BY <2>2, <1>1
    <3> QED BY <3>1, <3>2, <3>3, <1>1
  <2>4. asked' \in SUBSET Cmds
    BY <1>1, <1>3, MonitorAssumption DEF AllowNext
  <2>5. TypeInv' /\ LockInv'
    BY <1>1, <1>3, <2>1, <2>3, <2>4, InitStepType DEF AllowNext, TypeInv
  <2>6. SweepInv'
    <3>1. conf \in Handles /\ pc' = "table" /\ conf' = conf
      BY <1>1, <1>3 DEF AllowNext, TypeInv
    <3>2. Len(conf.list) \in Nat
      BY <3>1, HandleTypes
    <3>3. at.done < Len(conf.list)
      BY <1>3 DEF AllowNext
    <3> QED BY <1>1, <2>1, <2>3, <3>1, <3>2, <3>3, SMT DEF SweepInv
  <2> QED BY <2>5, <2>6 DEF ControlInv
<1>4. CASE StartRegions
  <2>0. conf \in Handles /\ conf' = conf
    BY <1>1, <1>4 DEF StartRegions, TypeInv
  <2>1. TypeInv' /\ LockInv'
    BY <1>1, <1>4, <1>s, <2>0, InitStepType DEF StartRegions
  <2>2. SweepInv'
    <3>1. pc' = "job" /\ at'.done = 0
      BY <1>4 DEF StartRegions, Start
    <3>2. Jobs' = Jobs /\ Len(Jobs) \in Nat
      BY <2>0, SameJobs, JobsAre
    <3> QED BY <3>1, <3>2, SMT DEF SweepInv
  <2> QED BY <2>1, <2>2 DEF ControlInv
<1>5. CASE SkipJob
  <2>0. /\ conf \in Handles /\ conf' = conf /\ pc = "job" /\ pc' = "job"
        /\ at.done < Len(Jobs) /\ at' = [at EXCEPT !.done = @ + 1]
    BY <1>1, <1>5 DEF SkipJob, TypeInv
  <2>1. at' \in [done : Nat, index : Nat, reg : Nat, bit : Nat, left : Nat]
        /\ at'.done = at.done + 1
    BY <1>1, <2>0
  <2>2. TypeInv' /\ LockInv'
    BY <1>1, <1>5, <2>0, <2>1, InitStepType DEF SkipJob
  <2>3. SweepInv'
    <3>1. Jobs' = Jobs /\ Len(Jobs) \in Nat
      BY <2>0, SameJobs, JobsAre
    <3> QED BY <1>1, <2>0, <2>1, <3>1, SMT DEF SweepInv
  <2> QED BY <2>2, <2>3 DEF ControlInv
<1>6. CASE StartSweep
  <2> DEFINE r == Current.region
             first == AlignedAddr(r.start)
             reg == first \div (PerReg * Unit)
             bit == (first % (PerReg * Unit)) \div Unit
             left == AdjustedLen(r.start, r.length) \div Unit
  <2>0. /\ conf \in Handles /\ conf' = conf /\ pc = "job" /\ pc' = "sweep"
        /\ at.done < Len(Jobs) /\ Accepted(r) /\ Current.d \notin plock /\ plock' = plock
        /\ at' = [at EXCEPT !.reg = reg, !.bit = bit, !.left = left]
        /\ sel' = Selected(Current.d)
    BY <1>1, <1>6 DEF StartSweep, TypeInv
  <2>1. Current.d \in Dirs /\ r \in Region
    BY <2>0, CurrentIs DEF JobType
  <2>2. /\ reg \in Nat /\ bit \in 0 .. PerReg - 1
        /\ reg * PerReg + bit = FirstBlock(r)
    BY <2>1, StartPosition
  <2>3. /\ left \in Nat /\ left > 0 /\ left = Count(r)
        /\ FirstBlock(r) \in Nat
    BY <2>0, <2>1, RegionBlocks DEF Count
  <2>4. sel' = Current.d
    <3>1. ~ctl.lock
      BY <1>1, <2>0, <2>1 DEF LockInv
    <3> QED BY <3>1, <2>0 DEF Selected
  <2> HIDE DEF reg, bit, left
  <2>5. bit \in Nat /\ bit <= PerReg
    BY <2>2, Consts, SMT
  <2>6. /\ at' \in [done : Nat, index : Nat, reg : Nat, bit : Nat, left : Nat]
        /\ at'.done = at.done /\ at'.reg = reg /\ at'.bit = bit /\ at'.left = left
    BY <1>1, <2>0, <2>2, <2>3, <2>5
  <2>7. TypeInv' /\ LockInv'
    <3>1. UNCHANGED <<tbl, perm, ctl, plock, ret, sealed, asked, applied>>
      BY <1>6 DEF StartSweep
    <3> QED BY <3>1, <1>1, <2>0, <2>1, <2>4, <2>6, InitStepType
  <2>8. SweepInv'
    <3>1. Jobs' = Jobs
      BY <2>0, SameJobs
    <3>2. Current' = Current
      BY <3>1, <2>6 DEF Current
    <3>3. Position' = FirstBlock(r)
      BY <2>2, <2>6 DEF Position
    <3>4. /\ FirstBlock(Current.region)' = FirstBlock(r)
          /\ Count(Current.region)' = Count(r)
          /\ Accepted(Current.region)'
      BY <3>2, <2>0 DEF FirstBlock, Count, AdjustedLen, Accepted
    <3>5. at'.done < Len(Jobs')
      BY <3>1, <2>0, <2>6
    <3>6. pc' \in {"job", "sweep"} => at'.done <= Len(Jobs')
      BY <3>1, <2>0, <2>6, CurrentIs, SMT
    <3>7. Current'.d \notin plock' /\ sel' = Current'.d
      BY <3>2, <2>0, <2>4
    <3>8. at'.bit <= PerReg /\ at'.left > 0 /\ Position' + at'.left = FirstBlock(r) + Count(r)
      BY <3>3, <2>3, <2>5, <2>6
    <3>9. FirstBlock(r) <= Position'
      BY <3>3, <2>3, SMT
    <3> QED BY <2>0, <3>4, <3>5, <3>6, <3>7, <3>8, <3>9 DEF SweepInv
  <2> QED BY <2>7, <2>8 DEF ControlInv
<1>7. CASE SweepRound
  <2>0. /\ conf \in Handles /\ conf' = conf /\ pc = "sweep" /\ at.done < Len(Jobs)
        /\ Current.d \notin plock /\ sel = Current.d /\ UNCHANGED <<plock, sel>>
        /\ Accepted(Current.region)
        /\ Position + at.left = FirstBlock(Current.region) + Count(Current.region)
        /\ FirstBlock(Current.region) <= Position
    BY <1>1, <1>7 DEF SweepRound, TypeInv, SweepInv
  <2>1. Current \in JobType /\ at.done \in Nat /\ Len(Jobs) \in Nat
    BY <2>0, CurrentIs
  <2>2. PICK reg \in Regs, swept \in SUBSET Bits, w \in Nat :
           /\ w > 0 /\ w <= at.left
           /\ Wrote(reg, swept)
           /\ at'.reg \in Nat /\ at'.bit \in Nat /\ at'.bit <= PerReg
           /\ Position' = Position + w
           /\ at' = [done |-> IF at.left = w THEN at.done + 1 ELSE at.done,
                     index |-> at.index, reg |-> at'.reg, bit |-> at'.bit,
                     left |-> at.left - w]
           /\ pc' = IF at.left = w THEN "job" ELSE "sweep"
    BY <1>7, RoundFacts
  <2>3. perm' \in [Dirs -> [Regs -> SUBSET Bits]]
    BY <1>1, <2>2, ZenonT(40) DEF Wrote
  <2> DEFINE x == at'.reg
             y == at'.bit
  <2>4. /\ at'.done = IF at.left = w THEN at.done + 1 ELSE at.done
        /\ at'.left = at.left - w
        /\ at' \in [done : Nat, index : Nat, reg : Nat, bit : Nat, left : Nat]
    <3>1. at' = [done |-> IF at.left = w THEN at.done + 1 ELSE at.done,
                 index |-> at.index, reg |-> x, bit |-> y, left |-> at.left - w]
      BY <2>2
    <3>2. x \in Nat /\ y \in Nat
      BY <2>2
    <3> HIDE DEF x, y
    <3>3. at.left - w \in Nat /\ (IF at.left = w THEN at.done + 1 ELSE at.done) \in Nat
      BY <1>1, <2>2
    <3> QED BY <3>1, <3>2, <3>3, <1>1
  <2>5. TypeInv' /\ LockInv'
    <3>1. UNCHANGED <<tbl, ctl, plock, ret, sealed, asked, applied>>
      BY <1>7 DEF SweepRound
    <3>2. pc' \in {"job", "sweep"}
      BY <2>2
    <3> QED BY <3>1, <3>2, <1>1, <2>0, <2>3, <2>4, InitStepType
  <2>6. Jobs' = Jobs
    BY <2>0, SameJobs
  <2>7. CASE at.left = w
    BY <2>0, <2>1, <2>2, <2>4, <2>6, <2>7, <2>5, SMT DEF SweepInv, ControlInv
  <2>8. CASE at.left # w
    <3>1. Current' = Current
      BY <2>4, <2>6, <2>8 DEF Current
    <3>2. /\ FirstBlock(Current.region)' = FirstBlock(Current.region)
          /\ Count(Current.region)' = Count(Current.region)
          /\ Accepted(Current.region)'
      BY <3>1, <2>0 DEF FirstBlock, Count, AdjustedLen, Accepted
    <3>3. at.left \in Nat /\ Position \in Int
      BY <1>1, Consts, SMT DEF Position
    <3>4. FirstBlock(Current.region) \in Nat /\ Count(Current.region) \in Nat
      BY <2>0, <2>1, RegionBlocks DEF JobType
    <3>5. /\ FirstBlock(Current.region) <= Position'
          /\ Position' + at'.left = FirstBlock(Current.region) + Count(Current.region)
          /\ at'.left > 0
      <4> DEFINE F == FirstBlock(Current.region)
                 C == Count(Current.region)
                 P == Position
                 Q == Position'
                 l == at.left
                 k == at'.left
      <4>1. /\ F <= P /\ P + l = F + C /\ Q = P + w /\ k = l - w /\ w <= l /\ l # w
            /\ l \in Nat /\ P \in Int /\ F \in Nat /\ C \in Nat
        BY <3>3, <3>4, <2>0, <2>2, <2>4, <2>8
      <4> HIDE DEF F, C, P, Q, l, k
      <4>2. F <= Q /\ Q + k = F + C /\ k > 0
        BY <4>1, SMT
      <4> QED BY <4>2 DEF F, C, P, Q, l, k
    <3>6. pc' = "sweep" /\ at'.done = at.done /\ at'.done < Len(Jobs') /\ at'.done <= Len(Jobs')
      BY <2>0, <2>1, <2>2, <2>4, <2>6, <2>8, SMT
    <3>7. Current'.d \notin plock' /\ sel' = Current'.d
      BY <3>1, <2>0
    <3>8. SweepInv'
      BY <3>1, <3>2, <3>5, <3>6, <3>7, <2>2 DEF SweepInv
    <3> QED BY <2>5, <3>8 DEF ControlInv
  <2> QED BY <2>7, <2>8
<1>8. CASE EnableFilter
  <2> DEFINE new == [ctl EXCEPT !.filter = TRUE, !.single = TRUE, !.irq = TRUE]
  <2>0. pc = "job" /\ conf \in Handles
    BY <1>1, <1>8 DEF EnableFilter, TypeInv
  <2>1. new \in CtlType /\ new.lock = ctl.lock
    BY <1>1 DEF CtlType
  <2>2. ctl' \in CtlType /\ ctl'.lock = ctl.lock
    <3> HIDE DEF new
    <3>1. Control(new)
      BY <1>8 DEF new, EnableFilter
    <3> QED BY <3>1, <2>1, <1>1, ControlWrite
  <2>3. ret'.granted \in SUBSET Cmds
    BY <1>8, MonitorAssumption DEF EnableFilter, Listed
  <2>4. \A d \in Dirs : applied'[d] = "none" \/ applied'[d] \in Seq(Region)
    BY <1>1, <1>8, <2>0, HandleTypes DEF EnableFilter
  <2>5. /\ pc' = "idle" /\ at' = Start
        /\ UNCHANGED <<tbl, perm, plock, sel, asked, sealed>>
    BY <1>8 DEF EnableFilter
  <2>6. TypeInv'
    BY <1>1, <1>s, <2>2, <2>3, <2>4, <2>5 DEF TypeInv
  <2>7. LockInv' /\ SweepInv'
    BY <1>1, <2>2, <2>5 DEF LockInv, SweepInv
  <2> QED BY <2>6, <2>7 DEF ControlInv
<1>9. ASSUME pc = "idle", KeepsPolicy, ret'.granted = {},
             NEW new \in CtlType, new.lock = ctl.lock, Control(new) \/ ctl' = ctl
      PROVE  ControlInv'
  <2>1. ctl' \in CtlType /\ ctl'.lock = ctl.lock
    BY <1>1, <1>9, ControlWrite
  <2>2. UNCHANGED <<tbl, perm, plock, sel, pc, at, conf, asked, applied, sealed>>
    BY <1>9 DEF KeepsPolicy
  <2>3. LockInv'
    BY <1>1, <2>1, <2>2 DEF LockInv
  <2> QED BY <1>1, <1>9, <2>1, <2>2, <2>3, IdleStep
<1>10. ASSUME NEW on \in BOOLEAN, SetFilter(on)
       PROVE  ControlInv'
  <2> DEFINE new == [ctl EXCEPT !.filter = on, !.single = on, !.multi = on /\ @]
  <2>1. new \in CtlType /\ new.lock = ctl.lock
    BY <1>1 DEF CtlType
  <2>2. pc = "idle" /\ KeepsPolicy /\ ret'.granted = {} /\ Control(new)
    BY <1>10 DEF SetFilter, Op, Answer
  <2> HIDE DEF new
  <2> QED BY <2>1, <2>2, <1>9
<1>11. ASSUME NEW extra \in BOOLEAN, BlockMode(extra)
       PROVE  ControlInv'
  <2> DEFINE new == [ctl EXCEPT !.extra = extra]
  <2>1. new \in CtlType /\ new.lock = ctl.lock
    BY <1>1 DEF CtlType
  <2>2. pc = "idle" /\ KeepsPolicy /\ ret'.granted = {} /\ Control(new)
    BY <1>11 DEF BlockMode, Op, Answer
  <2> HIDE DEF new
  <2> QED BY <2>1, <2>2, <1>9
<1>12. ASSUME NEW mode \in Modes, Passthrough(mode)
       PROVE  ControlInv'
  <2> DEFINE new == CASE mode = "single" -> [ctl EXCEPT !.single = TRUE]
                      [] mode = "multi"  -> [ctl EXCEPT !.single = FALSE, !.multi = TRUE]
                      [] mode = "off"    -> [ctl EXCEPT !.single = FALSE, !.multi = FALSE]
  <2>1. new \in CtlType /\ new.lock = ctl.lock
    <3>1. CASE mode = "single"
      BY <3>1, <1>1 DEF CtlType
    <3>2. CASE mode = "multi"
      BY <3>2, <1>1 DEF CtlType
    <3>3. CASE mode = "off"
      BY <3>3, <1>1 DEF CtlType
    <3> QED BY <3>1, <3>2, <3>3 DEF Modes
  <2>2. pc = "idle" /\ KeepsPolicy /\ ret'.granted = {} /\ Control(new)
    BY <1>12 DEF Passthrough, Op, Answer
  <2> HIDE DEF new
  <2> QED BY <2>1, <2>2, <1>9
<1>13. ASSUME NEW mux \in {0, 1}, NEW detour \in {"none", "SPI1", "SPI2"}, Route(mux, detour)
       PROVE  ControlInv'
  <2>1. pc = "idle" /\ KeepsPolicy /\ ret'.granted = {} /\ ctl' = ctl
    BY <1>13 DEF Route, Op, Answer
  <2> QED BY <1>1, <2>1, <1>9
<1>14. ASSUME pc = "idle", UNCHANGED <<perm, plock, sel, ctl, pc, at, conf, applied, sealed>>,
              tbl' \in TblType, \A i \in Slots : tbl[i].lock => tbl'[i] = tbl[i],
              ret'.granted \in SUBSET Cmds, asked' \in SUBSET Cmds
       PROVE  ControlInv'
  <2>1. LockInv'
    BY <1>1, <1>14 DEF LockInv
  <2> QED BY <1>1, <1>14, <2>1, IdleStep
<1>15. ASSUME NEW c \in Cmds, RemoveCmd(c)
       PROVE  ControlInv'
  <2>1. /\ pc = "idle" /\ UNCHANGED <<perm, plock, sel, ctl, pc, at, conf, applied, sealed>>
        /\ asked' \in SUBSET Cmds
    BY <1>1, <1>15 DEF RemoveCmd, Op
  <2>2. /\ tbl' \in TblType /\ ret'.granted = {}
        /\ \A i \in Slots : tbl[i].lock => tbl'[i] = tbl[i]
    BY <1>15, RemoveKeepsLocked
  <2> QED BY <2>1, <2>2, <1>14
<1>16. ASSUME NEW c \in Cmds, LockCmd(c)
       PROVE  ControlInv'
  <2>1. /\ pc = "idle" /\ UNCHANGED <<perm, plock, sel, ctl, pc, at, conf, applied, sealed>>
        /\ asked' \in SUBSET Cmds
    BY <1>1, <1>16 DEF LockCmd, Op
  <2>2. /\ tbl' \in TblType /\ ret'.granted = {}
        /\ \A i \in Slots : tbl[i].lock => tbl'[i] = tbl[i]
    BY <1>16, LockKeepsLocked
  <2> QED BY <2>1, <2>2, <1>14
<1>17. ASSUME NEW c \in Cmds, NEW f \in Flags, AddCmd(c, f)
       PROVE  ControlInv'
  <2>1. /\ tbl' \in TblType /\ ret'.granted \in SUBSET {c}
        /\ \A i \in Slots : tbl[i].lock => tbl'[i] = tbl[i]
    BY <1>17, AddKeepsLocked
  <2>2. /\ pc = "idle" /\ UNCHANGED <<perm, plock, sel, ctl, pc, at, conf, applied, sealed>>
        /\ asked' = asked \cup ret'.granted
    BY <1>17 DEF AddCmd, Op
  <2>3. ret'.granted \in SUBSET Cmds /\ asked' \in SUBSET Cmds
    BY <1>1, <2>1, <2>2
  <2> QED BY <2>1, <2>2, <2>3, <1>14
<1>18. CASE LockCommon
  <2>1. tbl' \in TblType /\ \A i \in Slots : tbl'[i].lock
    BY <1>18, LockAllTable
  <2>2. /\ pc = "idle" /\ UNCHANGED <<perm, sel, pc, at, conf, asked, applied>>
        /\ plock' = Dirs /\ ctl' = [ctl EXCEPT !.lock = TRUE] /\ sealed' = TRUE
        /\ ret'.granted = {}
    BY <1>18 DEF LockCommon, Op, Answer
  <2>3. ctl' \in CtlType /\ ctl'.lock
    BY <1>1, <2>2, Zenon DEF CtlType
  <2>4. LockInv'
    BY <2>1, <2>2, <2>3 DEF LockInv
  <2> QED BY <1>1, <2>1, <2>2, <2>3, <2>4, IdleStep
<1>19. CASE UNCHANGED vars
  BY <1>1, <1>19, ZenonT(40) DEF vars, ControlInv, TypeInv, LockInv, SweepInv, Position, Current,
    Jobs, Closing, FirstBlock, Count, AdjustedLen, Accepted
<1> QED BY <1>2, <1>3, <1>4, <1>5, <1>6, <1>7, <1>8, <1>10, <1>11, <1>12, <1>13, <1>15,
          <1>16, <1>17, <1>18, <1>19 DEF Next, Modes, Flags

THEOREM ControlCorrect == Spec => []ControlInv
  BY ControlInit, ControlNext, PTL DEF Spec

-----------------------------------------------------------------------------
(* What is sealed stays.                                                   *)

LEMMA SealedStep == ControlInv /\ sealed /\ Next => UNCHANGED <<tbl, perm, plock, ctl, sealed>>
<1> SUFFICES ASSUME ControlInv, sealed, Next PROVE UNCHANGED <<tbl, perm, plock, ctl, sealed>>
  OBVIOUS
<1> USE DEF tables, config, history
<1>1. /\ TypeInv /\ tbl \in TblType /\ ctl \in CtlType
      /\ plock = Dirs /\ ctl.lock /\ \A i \in Slots : tbl[i].lock
  BY DEF ControlInv, TypeInv, LockInv
<1>2. ASSUME NEW new, Control(new) PROVE ctl' = ctl
  BY <1>1, <1>2 DEF Control
<1>3. ASSUME tbl' \in TblType, \A i \in Slots : tbl[i].lock => tbl'[i] = tbl[i]
      PROVE  tbl' = tbl
  BY <1>1, <1>3, SameTable
<1>4. CASE StartInit
  BY <1>2, <1>4 DEF StartInit
<1>5. CASE AllowNext
  BY <1>1, <1>5, AllowKeepsLocked DEF AllowNext
<1>6. CASE StartRegions
  BY <1>6 DEF StartRegions
<1>7. CASE SkipJob
  BY <1>7 DEF SkipJob
<1>8. CASE StartSweep
  <2>1. Current.d \in Dirs
    BY <1>8, CurrentIs DEF StartSweep, JobType
  <2> QED BY <1>1, <1>8, <2>1 DEF StartSweep
<1>9. CASE SweepRound
  <2>1. pc = "sweep" /\ at.done < Len(Jobs) /\ Current.d \notin plock
    BY <1>9 DEF SweepRound, ControlInv, SweepInv
  <2>2. Current.d \in Dirs
    BY <2>1, CurrentIs DEF JobType
  <2> QED BY <1>1, <2>1, <2>2
<1>10. CASE EnableFilter
  BY <1>2, <1>10 DEF EnableFilter
<1>11. ASSUME NEW on \in BOOLEAN, SetFilter(on) \/ BlockMode(on)
       PROVE  UNCHANGED <<tbl, perm, plock, ctl, sealed>>
  BY <1>2, <1>11 DEF SetFilter, BlockMode, KeepsPolicy
<1>12. ASSUME NEW mode \in Modes, Passthrough(mode)
       PROVE  UNCHANGED <<tbl, perm, plock, ctl, sealed>>
  BY <1>2, <1>12 DEF Passthrough, KeepsPolicy
<1>13. ASSUME NEW mux, NEW detour, Route(mux, detour)
       PROVE  UNCHANGED <<tbl, perm, plock, ctl, sealed>>
  BY <1>13 DEF Route, KeepsPolicy
<1>14. ASSUME NEW c \in Cmds, RemoveCmd(c) \/ LockCmd(c)
       PROVE  UNCHANGED <<tbl, perm, plock, ctl, sealed>>
  BY <1>3, <1>14, RemoveKeepsLocked, LockKeepsLocked DEF RemoveCmd, LockCmd
<1>15. ASSUME NEW c \in Cmds, NEW f \in Flags, AddCmd(c, f)
       PROVE  UNCHANGED <<tbl, perm, plock, ctl, sealed>>
  BY <1>3, <1>15, AddKeepsLocked DEF AddCmd
<1>16. CASE LockCommon
  <2>1. tbl' = tbl
    BY <1>3, <1>16, LockAllTable
  <2>2. ctl' = ctl
    BY <1>1, <1>16 DEF LockCommon, CtlType
  <2> QED BY <1>1, <1>16, <2>1, <2>2 DEF LockCommon
<1> QED BY <1>4, <1>5, <1>6, <1>7, <1>8, <1>9, <1>10, <1>11, <1>12, <1>13, <1>14, <1>15,
          <1>16 DEF Next, Modes, Flags

(* Once lock_common has returned, no operation changes a command slot, a   *)
(* block table or the filter, and a second init goes through without       *)
(* effect.                                                                 *)
THEOREM SealHolds == Spec => SealedStays
<1>1. ControlInv /\ [Next]_vars => [sealed => UNCHANGED <<tbl, perm, plock, ctl, sealed>>]_vars
  BY SealedStep
<1> QED BY <1>1, ControlCorrect, PTL DEF Spec, SealedStays

-----------------------------------------------------------------------------
(* Which commands get through.                                             *)

(* A table write changes no slot that is locked, and a command that was    *)
(* asked for keeps being so: then what gets through stays asked for.       *)
LEMMA StillAsked ==
  ASSUME ControlInv, OnlyAsked, NEW g \in SUBSET Cmds, asked \cup g \subseteq asked',
         \A i \in Slots : tbl[i].lock => tbl'[i] = tbl[i],
         \A i \in Slots : \/ tbl'[i].cmd = tbl[i].cmd /\ tbl'[i].valid = tbl[i].valid
                          \/ tbl'[i].valid = {} \/ tbl'[i].cmd \in g
  PROVE  OnlyAsked'
<1> SUFFICES ASSUME NEW c \in Cmds, Allows(c)'
             PROVE  (c \in asked \/ \E i \in SlotsOf(c) : tbl[i].lock /\ tbl[i].valid = {"once"})'
  BY DEF OnlyAsked
<1>1. PICK i \in Slots : tbl'[i].cmd = c /\ tbl'[i].valid # {}
  BY DEF Allows
<1>2. CASE c \in g
  BY <1>2
<1>3. CASE c \notin g
  <2>1. Allows(c)
    BY <1>1, <1>3 DEF Allows
  <2>2. c \in asked \/ \E j \in SlotsOf(c) : tbl[j].lock /\ tbl[j].valid = {"once"}
    BY <2>1 DEF OnlyAsked
  <2>3. ASSUME NEW j \in SlotsOf(c), tbl[j].lock, tbl[j].valid = {"once"}
        PROVE  j \in SlotsOf(c)' /\ tbl'[j].lock /\ tbl'[j].valid = {"once"}
    BY <2>3 DEF SlotsOf
  <2> QED BY <2>2, <2>3
<1> QED BY <1>2, <1>3

LEMMA AskedInit == Init => OnlyAsked
  BY DEF Init, OnlyAsked, Allows, Empty

(* The round of the command table's loop, case by case.                    *)
LEMMA AllowCases ==
  ASSUME ControlInv, AllowNext
  PROVE  LET c == conf.list[at.done + 1]
             put(i) == Put(tbl, i, Entry(c, "always"))
         IN /\ c \in Cmds /\ asked' = asked \cup ({c} \cap Known) /\ at'.done = at.done + 1
            /\ \/ c \notin Known /\ tbl' = tbl /\ at'.index = at.index
               \/ c \in DOMAIN Fixed /\ tbl' = put(Fixed[c]) /\ at'.index = at.index
               \/ /\ c \in Known /\ c \notin DOMAIN Fixed /\ at'.index = at.index + 1
                  /\ tbl' = IF at.index + 1 < MaxIndex THEN put(at.index + 1) ELSE tbl
<1> DEFINE c == conf.list[at.done + 1]
           put(i) == Put(tbl, i, Entry(c, "always"))
           a == [t |-> tbl, index |-> at.index]
           acc == Allow(a, c)
<1>1. /\ at \in [done : Nat, index : Nat, reg : Nat, bit : Nat, left : Nat]
      /\ conf \in Handles /\ at.done < Len(conf.list)
  BY DEF ControlInv, TypeInv, AllowNext
<1>2. c \in Cmds
  <2>1. conf.list \in Seq(Cmds)
    BY <1>1, HandleTypes
  <2>2. at.done + 1 \in 1 .. Len(conf.list)
    BY <1>1, <2>1, SMT
  <2> QED BY <2>1, <2>2
<1>3. /\ tbl' = acc.t /\ at' = [at EXCEPT !.done = @ + 1, !.index = acc.index]
      /\ asked' = asked \cup ({c} \cap Known)
  BY DEF AllowNext
<1>4. at'.index = acc.index /\ at'.done = at.done + 1
  <2> HIDE DEF acc
  <2> QED BY <1>1, <1>3
<1> HIDE DEF c
<1>5. CASE c \notin Known
  <2>1. acc = a
    BY <1>5 DEF Allow
  <2> QED BY <1>2, <1>3, <1>4, <1>5, <2>1 DEF c
<1>6. CASE c \in DOMAIN Fixed
  <2>1. acc = [a EXCEPT !.t = put(Fixed[c])]
    BY <1>6, FixedSlots DEF Allow
  <2>2. acc.t = put(Fixed[c]) /\ acc.index = at.index
    BY <2>1
  <2> QED BY <1>2, <1>3, <1>4, <1>6, <2>2 DEF c
<1>7. CASE c \in Known /\ c \notin DOMAIN Fixed
  <2>1. acc = [t |-> IF at.index + 1 < MaxIndex THEN put(at.index + 1) ELSE tbl,
               index |-> at.index + 1]
    BY <1>7 DEF Allow
  <2>2. /\ acc.t = IF at.index + 1 < MaxIndex THEN put(at.index + 1) ELSE tbl
        /\ acc.index = at.index + 1
    BY <2>1
  <2> QED BY <1>2, <1>3, <1>4, <1>7, <2>2 DEF c
<1> QED BY <1>5, <1>6, <1>7

(* What a write of a slot does to all the slots.                           *)
LEMMA PutEffect ==
  ASSUME tbl \in TblType, NEW i \in Slots, NEW c \in Cmds, NEW f \in Flags,
         tbl' = Put(tbl, i, Entry(c, f))
  PROVE  /\ \A j \in Slots : j # i => tbl'[j] = tbl[j]
         /\ \A j \in Slots : tbl[j].lock => tbl'[j] = tbl[j]
         /\ tbl[i].lock \/ (tbl'[i].cmd = c /\ tbl'[i].valid = {f} /\ ~tbl'[i].lock)
  BY DEF Put, Entry, TblType

LEMMA AddEffect ==
  ASSUME ControlInv, NEW c \in Cmds, NEW f \in Flags, AddCmd(c, f)
  PROVE  /\ \A i \in Slots : \/ tbl'[i] = tbl[i]
                             \/ tbl'[i].cmd = c /\ ret'.granted = {c}
         /\ \/ ret'.granted = {}
            \/ c \in DOMAIN Fixed /\ tbl'[Fixed[c]].lock
            \/ Allows(c)'
<1>1. tbl \in TblType
  BY DEF ControlInv, TypeInv
<1>2. CASE Unlocked(c) # {}
  <2> DEFINE s == First(Unlocked(c))
  <2>1. s \in Slots /\ tbl[s].cmd = c
    <3>1. Unlocked(c) \subseteq Slots
      BY DEF Unlocked, SlotsOf
    <3>2. s \in Unlocked(c)
      BY <3>1, <1>2, SlotsNat, FirstIn
    <3> QED BY <3>2 DEF Unlocked, SlotsOf
  <2>2. tbl' = [tbl EXCEPT ![s].valid = @ \cup {f}] /\ ret'.granted = {c}
    BY <1>2 DEF AddCmd, Answer
  <2> HIDE DEF s
  <2>3. tbl'[s].cmd = c /\ f \in tbl'[s].valid
    BY <1>1, <2>1, <2>2 DEF TblType
  <2>4. \A i \in Slots : i # s => tbl'[i] = tbl[i]
    BY <1>1, <2>1, <2>2 DEF TblType
  <2> QED BY <2>1, <2>2, <2>3, <2>4 DEF Allows
<1>3. CASE Unlocked(c) = {}
  <2>1. AddNew(c, f)
    BY <1>3 DEF AddCmd
  <2>2. \/ tbl' = tbl /\ ret'.granted = {}
        \/ c \in DOMAIN Fixed /\ tbl[Fixed[c]].lock /\ tbl' = tbl /\ ret'.granted = {c}
        \/ \E i \in Slots : /\ ~tbl[i].lock /\ tbl' = [tbl EXCEPT ![i] = Entry(c, f)]
                            /\ ret'.granted = {c}
    BY <2>1, AddNewSlot
  <2>3. CASE tbl' = tbl /\ (ret'.granted = {} \/ (c \in DOMAIN Fixed /\ tbl[Fixed[c]].lock))
    BY <2>3
  <2>4. ASSUME NEW i \in Slots, tbl' = [tbl EXCEPT ![i] = Entry(c, f)], ret'.granted = {c}
        PROVE  /\ \A j \in Slots : tbl'[j] = tbl[j] \/ tbl'[j].cmd = c
               /\ Allows(c)'
    <3>1. tbl'[i].cmd = c /\ f \in tbl'[i].valid
      BY <1>1, <2>4 DEF Entry, TblType
    <3>2. \A j \in Slots : j # i => tbl'[j] = tbl[j]
      BY <1>1, <2>4 DEF TblType
    <3> QED BY <3>1, <3>2 DEF Allows
  <2> QED BY <2>2, <2>3, <2>4
<1> QED BY <1>2, <1>3

(* A remove that answers Ok leaves no slot of the command but locked ones  *)
(* that let it through once.                                               *)
LEMMA RemoveAsked ==
  ASSUME ControlInv, OnlyAsked, NEW c \in Cmds, RemoveCmd(c)
  PROVE  OnlyAsked'
<1>1. tbl \in TblType
  BY DEF ControlInv, TypeInv
<1>2. tbl' = [i \in Slots |-> IF i \in Cleared(c) THEN Empty ELSE tbl[i]]
  BY DEF RemoveCmd
<1>3. \A i \in Slots : /\ i \in Cleared(c) => tbl'[i].valid = {}
                       /\ i \notin Cleared(c) => tbl'[i] = tbl[i]
                       /\ tbl[i].lock => tbl'[i] = tbl[i]
  BY <1>2 DEF Empty, Cleared, Unlocked
<1>4. CASE asked' = asked
  BY <1>3, <1>4, StillAsked
<1>5. CASE Stuck(c) = {} /\ asked' = asked \ {c}
  <2> SUFFICES ASSUME NEW e \in Cmds, Allows(e)'
               PROVE  (e \in asked \/ \E i \in SlotsOf(e) : tbl[i].lock /\ tbl[i].valid = {"once"})'
    BY DEF OnlyAsked
  <2>1. PICK i \in Slots : tbl'[i].cmd = e /\ tbl'[i].valid # {}
    BY DEF Allows
  <2>2. tbl'[i] = tbl[i] /\ i \notin Cleared(c)
    BY <1>3, <2>1
  <2>3. CASE e = c
    <3>1. i \in SlotsOf(c) /\ i \notin Unlocked(c)
      BY <1>5, <2>1, <2>2, <2>3 DEF SlotsOf, Cleared
    <3>2. tbl[i].lock /\ "always" \notin tbl[i].valid
      BY <1>1, <1>5, <3>1 DEF Unlocked, Stuck, SlotsOf, TblType
    <3>3. tbl[i].valid = {"once"}
      BY <1>1, <2>1, <2>2, <3>2 DEF TblType, Flags
    <3> QED BY <2>1, <2>2, <3>2, <3>3 DEF SlotsOf
  <2>4. CASE e # c
    <3>1. Allows(e)
      BY <2>1, <2>2 DEF Allows
    <3>2. e \in asked \/ \E j \in SlotsOf(e) : tbl[j].lock /\ tbl[j].valid = {"once"}
      BY <3>1 DEF OnlyAsked
    <3>3. ASSUME NEW j \in SlotsOf(e), tbl[j].lock, tbl[j].valid = {"once"}
          PROVE  j \in SlotsOf(e)' /\ tbl'[j].lock /\ tbl'[j].valid = {"once"}
      BY <1>3, <3>3 DEF SlotsOf
    <3> QED BY <1>5, <2>4, <3>2, <3>3
  <2> QED BY <2>3, <2>4
<1> QED BY <1>4, <1>5 DEF RemoveCmd

LEMMA AskedNext == ControlInv /\ OnlyAsked /\ [Next]_vars => OnlyAsked'
<1> SUFFICES ASSUME ControlInv, OnlyAsked, [Next]_vars PROVE OnlyAsked'
  OBVIOUS
<1> USE DEF tables, config, history
<1>1. tbl \in TblType
  BY DEF ControlInv, TypeInv
<1>2. ASSUME tbl' = tbl, asked' = asked PROVE OnlyAsked'
  BY <1>2 DEF OnlyAsked, Allows, SlotsOf
<1>3. CASE AllowNext
  <2> DEFINE c == conf.list[at.done + 1]
             g == {c} \cap Known
             put(i) == Put(tbl, i, Entry(c, "always"))
  <2>0. "always" \in Flags
    BY DEF Flags
  <2>1. /\ c \in Cmds /\ asked' = asked \cup g
        /\ \/ tbl' = tbl
           \/ /\ c \in Known
              /\ \E i \in Slots : tbl' = put(i)
    <3>1. at.index \in Nat /\ at.index >= 1
      BY <1>3 DEF ControlInv, TypeInv, SweepInv, AllowNext
    <3>2. at.index + 1 < MaxIndex => at.index + 1 \in Slots
      BY <3>1, Consts, SMT DEF Slots
    <3> QED BY <1>3, <3>2, AllowCases, FixedSlots
  <2> HIDE DEF c
  <2>2. CASE tbl' = tbl
    BY <2>1, <2>2, StillAsked, MonitorAssumption
  <2>3. ASSUME NEW i \in Slots, tbl' = put(i), c \in Known PROVE OnlyAsked'
    <3>1. /\ \A j \in Slots : tbl[j].lock => tbl'[j] = tbl[j]
          /\ \A j \in Slots : tbl'[j] = tbl[j] \/ tbl'[j].cmd = c
      BY <1>1, <2>0, <2>1, <2>3, PutEffect
    <3>2. g \in SUBSET Cmds /\ c \in g
      BY <2>1, <2>3
    <3> QED BY <2>1, <3>1, <3>2, StillAsked
  <2> QED BY <2>1, <2>2, <2>3
<1>4. ASSUME NEW c \in Cmds, NEW f \in Flags, AddCmd(c, f) PROVE OnlyAsked'
  <2>1. \A i \in Slots : tbl[i].lock => tbl'[i] = tbl[i]
    BY <1>4, AddKeepsLocked
  <2>2. \A i \in Slots : tbl'[i] = tbl[i] \/ (tbl'[i].cmd = c /\ ret'.granted = {c})
    BY <1>4, AddEffect
  <2>3. asked' = asked \cup ret'.granted /\ ret'.granted \in SUBSET Cmds
    BY <1>4, AddKeepsLocked DEF AddCmd
  <2> DEFINE g == ret'.granted
  <2>4. \A i \in Slots : \/ tbl'[i].cmd = tbl[i].cmd /\ tbl'[i].valid = tbl[i].valid
                         \/ tbl'[i].cmd \in g
    BY <2>2
  <2> HIDE DEF g
  <2>5. g \in SUBSET Cmds /\ asked \cup g \subseteq asked'
    BY <2>3 DEF g
  <2> QED BY <2>1, <2>4, <2>5, StillAsked
<1>5. ASSUME \A i \in Slots : tbl'[i].cmd = tbl[i].cmd /\ tbl'[i].valid = tbl[i].valid,
             \A i \in Slots : tbl[i].lock => tbl'[i] = tbl[i], asked' = asked
      PROVE  OnlyAsked'
  <2> DEFINE g == {}
  <2>1. g \in SUBSET Cmds /\ asked \cup g \subseteq asked'
    BY <1>5
  <2>2. \A i \in Slots : \/ tbl'[i].cmd = tbl[i].cmd /\ tbl'[i].valid = tbl[i].valid
                         \/ tbl'[i].valid = {} \/ tbl'[i].cmd \in g
    BY <1>5
  <2> HIDE DEF g
  <2> QED BY <1>5, <2>1, <2>2, StillAsked
<1>6. ASSUME NEW c \in Cmds, LockCmd(c) PROVE OnlyAsked'
  BY <1>5, <1>6, LockKeepsLocked DEF LockCmd
<1>7. CASE LockCommon
  BY <1>5, <1>7, LockAllTable, Zenon DEF LockCommon
<1>8. ASSUME NEW c \in Cmds, RemoveCmd(c) PROVE OnlyAsked'
  BY <1>8, RemoveAsked
<1>9. CASE StartInit \/ StartRegions \/ SkipJob \/ StartSweep \/ SweepRound \/ EnableFilter
  BY <1>2, <1>9, Zenon DEF StartInit, StartRegions, SkipJob, StartSweep, SweepRound, EnableFilter
<1>10. ASSUME NEW on \in BOOLEAN, SetFilter(on) \/ BlockMode(on) PROVE OnlyAsked'
  BY <1>2, <1>10 DEF SetFilter, BlockMode, KeepsPolicy
<1>11. ASSUME NEW mode, Passthrough(mode) PROVE OnlyAsked'
  BY <1>2, <1>11 DEF Passthrough, KeepsPolicy
<1>12. ASSUME NEW mux, NEW detour, Route(mux, detour) PROVE OnlyAsked'
  BY <1>2, <1>12 DEF Route, KeepsPolicy
<1>13. CASE UNCHANGED vars
  BY <1>2, <1>13 DEF vars
<1> QED BY <1>3, <1>4, <1>6, <1>7, <1>8, <1>9, <1>10, <1>11, <1>12, <1>13 DEF Next, Flags

(* A command that was placed stays so when slots past the index are        *)
(* written, or the slot that is its own.                                   *)
LEMMA PlacedStays ==
  ASSUME NEW n \in Nat, NEW m \in Nat, n <= m, NEW c, Placed(c, n),
         \A i \in Slots : tbl[i].lock => tbl'[i] = tbl[i],
         \A i \in 2 .. MaxIndex - 1 : i <= n => tbl'[i] = tbl[i],
         c \in DOMAIN Fixed => \/ tbl'[Fixed[c]] = tbl[Fixed[c]]
                               \/ tbl'[Fixed[c]].cmd = c /\ tbl'[Fixed[c]].valid # {}
  PROVE  Placed(c, m)'
<1>1. CASE c \in DOMAIN Fixed
  BY <1>1 DEF Placed
<1>2. CASE c \notin DOMAIN Fixed
  <2>1. CASE \E i \in 2 .. MaxIndex : tbl[i].lock
    <3>1. PICK i \in 2 .. MaxIndex : tbl[i].lock
      BY <2>1
    <3>2. i \in Slots
      BY Consts, SMT DEF Slots
    <3>3. tbl'[i].lock
      BY <3>1, <3>2
    <3> QED BY <1>2, <3>3 DEF Placed
  <2>2. CASE n >= MaxIndex
    <3>1. m >= MaxIndex
      BY <2>2, Consts, SMT
    <3> QED BY <1>2, <3>1 DEF Placed
  <2>3. CASE \E i \in 2 .. MaxIndex - 1 : i <= n /\ tbl[i].cmd = c /\ tbl[i].valid # {}
    <3>1. PICK i \in 2 .. MaxIndex - 1 : i <= n /\ tbl[i].cmd = c /\ tbl[i].valid # {}
      BY <2>3
    <3>2. i <= m
      BY <3>1, Consts, SMT
    <3>3. tbl'[i] = tbl[i]
      BY <3>1
    <3> QED BY <1>2, <3>1, <3>2, <3>3 DEF Placed
  <2> QED BY <1>2, <2>1, <2>2, <2>3 DEF Placed
<1> QED BY <1>1, <1>2

(* A round of the loop places its command and displaces none before it.    *)
LEMMA AllowPlaces ==
  ASSUME ControlInv, TableInv, AllowNext
  PROVE  TableInv'
<1> DEFINE c == conf.list[at.done + 1]
           put(i) == Put(tbl, i, Entry(c, "always"))
<1>1. /\ tbl \in TblType /\ conf \in Handles /\ at.index \in Nat /\ at.index >= 1
      /\ at.done \in Nat /\ at.done < Len(conf.list)
      /\ pc = "table" /\ pc' = "table" /\ conf' = conf
  BY DEF ControlInv, TypeInv, SweepInv, AllowNext
<1>2. conf.list \in Seq(Cmds)
  BY <1>1, HandleTypes
<1>3. /\ c \in Cmds /\ at'.done = at.done + 1
      /\ \/ c \notin Known /\ tbl' = tbl /\ at'.index = at.index
         \/ c \in DOMAIN Fixed /\ tbl' = put(Fixed[c]) /\ at'.index = at.index
         \/ /\ c \in Known /\ c \notin DOMAIN Fixed /\ at'.index = at.index + 1
            /\ tbl' = IF at.index + 1 < MaxIndex THEN put(at.index + 1) ELSE tbl
  BY AllowCases
<1>4. FilledTo(at.index, at.done)
  BY <1>1 DEF TableInv
<1>5. PICK n \in Nat, k \in Nat, m \in Nat, e \in Cmds :
        /\ n = at.index /\ k = at.done /\ m = at'.index /\ e = c
        /\ n >= 1 /\ n <= m
  BY <1>1, <1>3, SMT
<1>6. "always" \in Flags /\ "always" \in {"always"}
  BY DEF Flags
<1> DEFINE wr(i) == Put(tbl, i, Entry(e, "always"))
<1> HIDE DEF c
<1>7. \/ e \notin Known /\ tbl' = tbl /\ m = n
      \/ e \in DOMAIN Fixed /\ tbl' = wr(Fixed[e]) /\ m = n
      \/ /\ e \in Known /\ e \notin DOMAIN Fixed /\ m = n + 1
         /\ tbl' = IF n + 1 < MaxIndex THEN wr(n + 1) ELSE tbl
  BY <1>3, <1>5
<1>8. ASSUME NEW i \in Slots, tbl' = wr(i)
      PROVE  /\ \A j \in Slots : j # i => tbl'[j] = tbl[j]
             /\ \A j \in Slots : tbl[j].lock => tbl'[j] = tbl[j]
             /\ (tbl'[i].lock \/ (tbl'[i].cmd = e /\ tbl'[i].valid # {}))
             /\ tbl'[i] # Empty
  <2>1. /\ \A j \in Slots : j # i => tbl'[j] = tbl[j]
        /\ \A j \in Slots : tbl[j].lock => tbl'[j] = tbl[j]
        /\ tbl[i].lock \/ (tbl'[i].cmd = e /\ tbl'[i].valid = {"always"} /\ ~tbl'[i].lock)
    BY <1>1, <1>6, <1>8, PutEffect
  <2>2. tbl'[i].lock \/ (tbl'[i].cmd = e /\ tbl'[i].valid # {})
    BY <1>6, <2>1
  <2>3. tbl'[i] # Empty
    BY <2>2, MonitorAssumption DEF Empty
  <2> QED BY <2>1, <2>2, <2>3
<1>9. \A i \in 2 .. MaxIndex - 1 : i \in Slots /\ i # 0 /\ i # 1 /\ i # MaxIndex
  BY Consts, SMT DEF Slots
<1>10. n + 1 < MaxIndex => n + 1 \in 2 .. MaxIndex - 1
  BY <1>5, Consts, SMT
<1>11. /\ \A i \in Slots : tbl[i].lock => tbl'[i] = tbl[i]
       /\ \A i \in 2 .. MaxIndex - 1 : i <= n => tbl'[i] = tbl[i]
       /\ \A f \in DOMAIN Fixed : \/ tbl'[Fixed[f]] = tbl[Fixed[f]]
                                  \/ f = e /\ tbl'[Fixed[f]].cmd = f /\ tbl'[Fixed[f]].valid # {}
  <2>1. CASE tbl' = tbl
    BY <2>1
  <2>2. CASE e \in DOMAIN Fixed /\ tbl' = wr(Fixed[e])
    <3>1. Fixed[e] \in Slots /\ Fixed[e] \in {0, 1, MaxIndex}
      BY <2>2, FixedSlots
    <3>2. /\ \A j \in Slots : j # Fixed[e] => tbl'[j] = tbl[j]
          /\ \A j \in Slots : tbl[j].lock => tbl'[j] = tbl[j]
          /\ tbl'[Fixed[e]] = tbl[Fixed[e]]
             \/ (tbl'[Fixed[e]].cmd = e /\ tbl'[Fixed[e]].valid # {})
      <4>1. tbl[Fixed[e]].lock \/ (tbl'[Fixed[e]].cmd = e /\ tbl'[Fixed[e]].valid = {"always"})
        BY <1>1, <1>6, <2>2, <3>1, PutEffect
      <4> QED BY <1>6, <1>8, <2>2, <3>1, <4>1
    <3>3. \A f \in DOMAIN Fixed : f # e => Fixed[f] # Fixed[e] /\ Fixed[f] \in Slots
      BY <2>2, FixedSlots, Consts, SMT
    <3> QED BY <1>9, <3>1, <3>2, <3>3
  <2>3. CASE n + 1 < MaxIndex /\ tbl' = wr(n + 1)
    <3>1. n + 1 \in Slots /\ n + 1 # 0 /\ n + 1 # 1 /\ n + 1 # MaxIndex
      BY <1>9, <1>10, <2>3
    <3>2. /\ \A j \in Slots : j # n + 1 => tbl'[j] = tbl[j]
          /\ \A j \in Slots : tbl[j].lock => tbl'[j] = tbl[j]
      BY <1>8, <2>3, <3>1
    <3>3. \A i \in 2 .. MaxIndex - 1 : i <= n => i # n + 1
      BY <1>5, SMT
    <3>4. \A f \in DOMAIN Fixed : Fixed[f] \in Slots /\ Fixed[f] # n + 1
      BY <3>1, FixedSlots
    <3> QED BY <1>9, <3>2, <3>3, <3>4
  <2> QED BY <1>7, <2>1, <2>2, <2>3
<1>12. \A i \in 2 .. MaxIndex - 1 : i <= m => tbl'[i] # Empty
  <2>1. SUFFICES ASSUME NEW i \in 2 .. MaxIndex - 1, i <= m PROVE tbl'[i] # Empty
    OBVIOUS
  <2>2. CASE i <= n
    BY <1>4, <1>5, <1>11, <2>2 DEF FilledTo
  <2>3. CASE ~(i <= n)
    <3>1. m = n + 1 /\ i = n + 1 /\ n + 1 < MaxIndex
      BY <1>5, <1>7, <2>1, <2>3, Consts, SMT
    <3>2. tbl' = wr(n + 1) /\ n + 1 \in Slots
      BY <1>5, <1>7, <1>9, <1>10, <3>1, SMT
    <3> QED BY <1>8, <3>1, <3>2
  <2> QED BY <2>2, <2>3
<1>13. \A j \in 1 .. k + 1 : conf.list[j] \in Known => Placed(conf.list[j], m)'
  <2>1. SUFFICES ASSUME NEW j \in 1 .. k + 1, conf.list[j] \in Known
                 PROVE  Placed(conf.list[j], m)'
    BY <1>1
  <2>2. PICK g \in Known : g = conf.list[j]
    BY <2>1
  <2>3. CASE j <= k
    <3>1. Placed(g, n)
      BY <1>4, <1>5, <2>1, <2>2, <2>3 DEF FilledTo
    <3>2. Placed(g, m)'
      BY <1>5, <1>11, <3>1, PlacedStays
    <3> QED BY <1>1, <2>2, <3>2 DEF Placed
  <2>4. CASE ~(j <= k)
    <3>1. g = e
      BY <1>5, <2>1, <2>2, <2>4, SMT DEF c
    <3>2. CASE e \in DOMAIN Fixed
      <4>1. tbl' = wr(Fixed[e]) /\ Fixed[e] \in Slots
        BY <1>7, <2>2, <3>1, <3>2, FixedSlots
      <4>2. tbl'[Fixed[e]].lock \/ (tbl'[Fixed[e]].cmd = e /\ tbl'[Fixed[e]].valid # {})
        BY <1>8, <4>1
      <4>3. Placed(e, m)'
        BY <3>2, <4>2 DEF Placed
      <4> QED BY <1>1, <2>2, <3>1, <4>3 DEF Placed
    <3>3. CASE e \notin DOMAIN Fixed /\ n + 1 < MaxIndex
      <4>1. tbl' = wr(n + 1) /\ m = n + 1
        BY <1>7, <2>2, <3>1, <3>3
      <4>2. n + 1 \in 2 .. MaxIndex - 1 /\ n + 1 \in Slots
        BY <1>9, <1>10, <3>3
      <4>3. tbl'[n + 1].lock \/ (tbl'[n + 1].cmd = e /\ tbl'[n + 1].valid # {})
        BY <1>8, <4>1, <4>2
      <4>4. n + 1 \in 2 .. MaxIndex /\ n + 1 <= m
        BY <1>5, <4>1, <4>2, Consts, SMT
      <4>5. Placed(e, m)'
        BY <3>3, <4>2, <4>3, <4>4 DEF Placed
      <4> QED BY <1>1, <2>2, <3>1, <4>5 DEF Placed
    <3>4. CASE e \notin DOMAIN Fixed /\ ~(n + 1 < MaxIndex)
      <4>1. m = n + 1
        BY <1>7, <2>2, <3>1, <3>4
      <4>2. m >= MaxIndex
        BY <1>5, <3>4, <4>1, Consts, SMT
      <4>3. Placed(e, m)'
        BY <3>4, <4>2 DEF Placed
      <4> QED BY <1>1, <2>2, <3>1, <4>3 DEF Placed
    <3> QED BY <3>2, <3>3, <3>4
  <2> QED BY <2>3, <2>4
<1>14. FilledTo(at.index, at.done)'
  <2>1. at'.done = k + 1 /\ at'.index = m
    BY <1>3, <1>5
  <2> QED BY <1>1, <1>12, <1>13, <2>1 DEF FilledTo, Placed
<1> QED BY <1>1, <1>14 DEF TableInv

(* A placed command gets through, but for the two excuses.                 *)
LEMMA PlacedGetsThrough ==
  ASSUME NEW n \in Nat, NEW c,
         \A i \in 2 .. MaxIndex - 1 : i <= n => tbl[i] # Empty, Placed(c, n)
  PROVE  \/ Allows(c)
         \/ c \in DOMAIN Fixed /\ tbl[Fixed[c]].lock
         \/ /\ c \notin DOMAIN Fixed
            /\ \/ \E i \in 2 .. MaxIndex : tbl[i].lock
               \/ \A i \in 2 .. MaxIndex - 1 : tbl[i] # Empty
<1>1. CASE c \in DOMAIN Fixed
  BY <1>1, FixedSlots DEF Placed, Allows
<1>2. CASE c \notin DOMAIN Fixed
  <2>1. CASE n >= MaxIndex
    <3>1. \A i \in 2 .. MaxIndex - 1 : i <= n
      BY <2>1, Consts, SMT
    <3> QED BY <1>2, <3>1
  <2>2. \A i \in 2 .. MaxIndex - 1 : i \in Slots
    BY Consts, SMT DEF Slots
  <2> QED BY <1>2, <2>1, <2>2 DEF Placed, Allows
<1> QED BY <1>1, <1>2

GrantInv == TableInv /\ GrantedGetThrough

LEMMA GrantInit == Init => GrantInv
  BY DEF Init, GrantInv, TableInv, GrantedGetThrough

LEMMA GrantNext == ControlInv /\ GrantInv /\ [Next]_vars => GrantInv'
<1> SUFFICES ASSUME ControlInv, GrantInv, [Next]_vars PROVE GrantInv'
  OBVIOUS
<1> USE DEF tables, config, history
<1>1. TableInv /\ GrantedGetThrough
  BY DEF GrantInv
<1>2. ASSUME pc' = "idle", ret'.granted = {} PROVE GrantInv'
  BY <1>2 DEF GrantInv, TableInv, GrantedGetThrough
<1>3. CASE StartInit
  <2>1. pc' = "table" /\ at'.done = 0 /\ at'.index = 1
    BY <1>3 DEF StartInit, Start
  <2>2. \A i \in 2 .. MaxIndex - 1 : ~(i <= 1)
    BY Consts, SMT
  <2>3. 1 .. 0 = {}
    BY SMT
  <2> QED BY <2>1, <2>2, <2>3 DEF GrantInv, TableInv, FilledTo, GrantedGetThrough
<1>4. CASE AllowNext
  <2>1. TableInv'
    BY <1>1, <1>4, AllowPlaces
  <2>2. pc' = "table"
    BY <1>4 DEF AllowNext
  <2> QED BY <2>1, <2>2 DEF GrantInv, GrantedGetThrough
<1>5. CASE StartRegions
  <2>1. /\ pc = "table" /\ pc' = "job" /\ at.done = Len(conf.list) /\ conf' = conf /\ tbl' = tbl
    BY <1>5 DEF StartRegions
  <2>2. PICK n \in Nat : n = at.index
    BY DEF ControlInv, TypeInv
  <2>3. FilledTo(n, Len(conf.list))
    BY <1>1, <2>1, <2>2 DEF TableInv
  <2>4. FilledTo(n, Len(conf.list))'
    BY <2>1, <2>3 DEF FilledTo, Placed
  <2> QED BY <2>1, <2>4 DEF GrantInv, TableInv, GrantedGetThrough
<1>6. CASE SkipJob \/ StartSweep \/ SweepRound
  <2>1. /\ pc \in {"job", "sweep"} /\ pc' \in {"job", "sweep"} /\ conf' = conf /\ tbl' = tbl
    BY <1>6 DEF SkipJob, StartSweep, SweepRound
  <2>2. PICK n \in Nat : FilledTo(n, Len(conf.list))
    BY <1>1, <2>1 DEF TableInv
  <2>3. FilledTo(n, Len(conf.list))'
    BY <2>1, <2>2 DEF FilledTo, Placed
  <2> QED BY <2>1, <2>3 DEF GrantInv, TableInv, GrantedGetThrough
<1>7. CASE EnableFilter
  <2>1. /\ pc = "job" /\ pc' = "idle" /\ tbl' = tbl
        /\ ret'.granted = Listed(conf.list)
    BY <1>7 DEF EnableFilter
  <2>2. conf \in Handles
    BY <2>1 DEF ControlInv, TypeInv
  <2>3. PICK n \in Nat : FilledTo(n, Len(conf.list))
    BY <1>1, <2>1 DEF TableInv
  <2>4. ASSUME NEW c \in ret'.granted
        PROVE  \/ Allows(c)
               \/ c \in DOMAIN Fixed /\ tbl[Fixed[c]].lock
               \/ /\ c \notin DOMAIN Fixed
                  /\ \/ \E i \in 2 .. MaxIndex : tbl[i].lock
                     \/ \A i \in 2 .. MaxIndex - 1 : tbl[i] # Empty
    <3>1. c \in Known /\ c \in ToSet(conf.list)
      BY <2>1 DEF Listed
    <3>2. DOMAIN conf.list = 1 .. Len(conf.list)
      BY <2>2, HandleTypes
    <3>3. PICK j \in 1 .. Len(conf.list) : conf.list[j] = c
      BY <3>1, <3>2 DEF ToSet
    <3>4. Placed(c, n)
      BY <2>3, <3>1, <3>3 DEF FilledTo
    <3> QED BY <2>3, <3>4, PlacedGetsThrough DEF FilledTo
  <2>5. GrantedGetThrough'
    BY <2>1, <2>4 DEF GrantedGetThrough, Allows
  <2> QED BY <2>1, <2>5 DEF GrantInv, TableInv
<1>8. ASSUME NEW c \in Cmds, NEW f \in Flags, AddCmd(c, f) PROVE GrantInv'
  <2>1. pc' = "idle"
    BY <1>8 DEF AddCmd, Op
  <2>2. /\ ret'.granted \in SUBSET {c}
        /\ ret'.granted = {} \/ (c \in DOMAIN Fixed /\ tbl'[Fixed[c]].lock) \/ Allows(c)'
    BY <1>8, AddKeepsLocked, AddEffect
  <2>3. \A d \in ret'.granted : Allows(d)' \/ (d \in DOMAIN Fixed /\ tbl'[Fixed[d]].lock)
    BY <2>2
  <2>4. GrantedGetThrough'
    BY <2>3 DEF GrantedGetThrough, Allows
  <2> QED BY <2>1, <2>4 DEF GrantInv, TableInv
<1>9. ASSUME NEW c \in Cmds, RemoveCmd(c) \/ LockCmd(c) PROVE GrantInv'
  BY <1>2, <1>9, RemoveKeepsLocked, LockKeepsLocked DEF RemoveCmd, LockCmd, Op
<1>10. CASE LockCommon
  BY <1>2, <1>10 DEF LockCommon, Op, Answer
<1>11. ASSUME NEW on \in BOOLEAN, SetFilter(on) \/ BlockMode(on) PROVE GrantInv'
  BY <1>2, <1>11 DEF SetFilter, BlockMode, Op, Answer, KeepsPolicy
<1>12. ASSUME NEW mode, Passthrough(mode) PROVE GrantInv'
  BY <1>2, <1>12 DEF Passthrough, Op, Answer, KeepsPolicy
<1>13. ASSUME NEW mux, NEW detour, Route(mux, detour) PROVE GrantInv'
  BY <1>2, <1>13 DEF Route, Op, Answer, KeepsPolicy
<1>14. CASE UNCHANGED vars
  <2>1. pc' = pc /\ at' = at /\ conf' = conf /\ tbl' = tbl /\ ret' = ret
    BY <1>14 DEF vars
  <2>3. pc = "table" => FilledTo(at.index, at.done)'
    BY <1>1, <2>1 DEF TableInv, FilledTo, Placed
  <2>4. pc \in {"job", "sweep"} => (\E n \in Nat : FilledTo(n, Len(conf.list)))'
    <3>1. SUFFICES ASSUME pc \in {"job", "sweep"}
                   PROVE  (\E n \in Nat : FilledTo(n, Len(conf.list)))'
      OBVIOUS
    <3>2. PICK n \in Nat : FilledTo(n, Len(conf.list))
      BY <1>1, <3>1 DEF TableInv
    <3>3. FilledTo(n, Len(conf.list))'
      BY <2>1, <3>2 DEF FilledTo, Placed
    <3> QED BY <3>3
  <2>5. GrantedGetThrough'
    BY <1>1, <2>1 DEF GrantedGetThrough, Allows
  <2> QED BY <2>1, <2>3, <2>4, <2>5 DEF GrantInv, TableInv
<1> QED BY <1>3, <1>4, <1>5, <1>6, <1>7, <1>8, <1>9, <1>10, <1>11, <1>12, <1>13, <1>14
        DEF Next, Flags

(* What gets through was asked for, and what was granted gets through: the *)
(* search of add and the loop of init meet the locks, the three commands   *)
(* with slots of their own and the end of the table.                       *)
THEOREM CommandsCorrect == Spec => []CommandsAsAsked
<1>1. Init => OnlyAsked /\ GrantInv
  BY AskedInit, GrantInit
<1>2. ControlInv /\ OnlyAsked /\ GrantInv /\ [Next]_vars => OnlyAsked' /\ GrantInv'
  BY AskedNext, GrantNext
<1>3. OnlyAsked /\ GrantInv => CommandsAsAsked
  BY DEF GrantInv, CommandsAsAsked
<1> QED BY <1>1, <1>2, <1>3, ControlCorrect, PTL DEF Spec

-----------------------------------------------------------------------------
(* Which blocks are closed.                                                *)

LEMMA BlockIndex ==
  ASSUME NEW r \in Regs, NEW k \in Bits
  PROVE  r * PerReg + k \in Nat /\ r * PerReg + k < NumBlocks
<1>1. PICK n \in Nat : Regs = 0 .. n - 1 /\ NumBlocks = PerReg * n
  BY Flash
<1>2. r \in Nat /\ r < n /\ k \in 0 .. PerReg - 1
  BY <1>1, SMT DEF Bits
<1>3. PerReg * (r + 1) <= PerReg * n
  BY <1>1, <1>2, Consts, Order, SMT
<1>4. r * PerReg + k \in Nat
  BY <1>2, Consts, SMT
<1>5. r * PerReg + k < PerReg * (r + 1) /\ PerReg * (r + 1) \in Int /\ PerReg * n \in Int
  BY <1>1, <1>2, Consts, SMT
<1> DEFINE x == r * PerReg + k
           y == PerReg * (r + 1)
           z == PerReg * n
<1> HIDE DEF x, y, z
<1>6. x \in Nat /\ x < y /\ y <= z /\ y \in Int /\ z \in Int
  BY <1>3, <1>4, <1>5 DEF x, y, z
<1>7. x < z
  BY <1>6, SMT
<1> QED BY <1>1, <1>4, <1>7 DEF x, z

(* The whole flash is accepted and touches every block.                    *)
LEMMA EverythingTouched ==
  /\ Everything \in Region /\ Accepted(Everything)
  /\ \A b \in Nat : b < NumBlocks => Touches(b, Everything)
<1>1. Everything \in Region /\ Accepted(Everything)
  BY Consts, SMT DEF Everything, Region, Accepted
<1>2. ASSUME NEW b \in Nat, b < NumBlocks PROVE Touches(b, Everything)
  <2>1. Unit * b < Unit * NumBlocks
    BY <1>2, Flash, Consts, Order
  <2>2. b * Unit < Limit
    <3>1. b * Unit = Unit * b
      BY Consts, SMT
    <3> QED BY <2>1, <3>1, Flash
  <2>3. 0 < (b + 1) * Unit
    BY Consts, SMT
  <2>4. 0 + Limit = Limit
    BY Consts, SMT
  <2> QED BY <1>1, <2>2, <2>3, <2>4 DEF Touches, Everything
<1> QED BY <1>1, <1>2

(* The first two calls open, one table each, and the others close.         *)
LEMMA OpenJobs ==
  ASSUME conf \in Handles, NEW n \in 1 .. Len(Jobs), NEW d \in Dirs
  PROVE  /\ Jobs[n].enable <=> n <= 2
         /\ OpenJob(d) \in 1 .. 2
         /\ n <= 2 /\ Jobs[n].d = d => n = OpenJob(d)
         /\ n = OpenJob(d) => Jobs[n].d = d /\ Jobs[n].region = Everything
         /\ n <= 2 => \A b : ~Closed(d, n, b)
<1>1. /\ Jobs[1] = Job("R", TRUE, Everything) /\ Jobs[2] = Job("W", TRUE, Everything)
      /\ \A j \in 3 .. Len(Jobs) : ~Jobs[j].enable
      /\ Len(Jobs) \in Nat
  BY JobsAre, Zenon
<1>2. /\ Jobs[1].enable /\ Jobs[1].d = "R" /\ Jobs[1].region = Everything
      /\ Jobs[2].enable /\ Jobs[2].d = "W" /\ Jobs[2].region = Everything
  BY <1>1 DEF Job
<1>3. n = 1 \/ n = 2 \/ (n \in 3 .. Len(Jobs) /\ ~(n <= 2))
  BY <1>1, SMT
<1>4. 1 <= 2 /\ 2 <= 2
  BY SMT
<1>5. Jobs[n].enable <=> n <= 2
  BY <1>1, <1>2, <1>3, <1>4
<1>6. OpenJob(d) \in 1 .. 2
  BY DEF OpenJob
<1>7. n <= 2 /\ Jobs[n].d = d => n = OpenJob(d)
  BY <1>2, <1>3 DEF OpenJob
<1>8. n = OpenJob(d) => Jobs[n].d = d /\ Jobs[n].region = Everything
  BY <1>2 DEF OpenJob, Dirs
<1>9. n <= 2 => \A b : ~Closed(d, n, b)
  <2>1. SUFFICES ASSUME n <= 2, NEW b, NEW j \in 1 .. n, ~Jobs[j].enable PROVE FALSE
    BY DEF Closed
  <2>2. j = 1 \/ j = 2
    BY <2>1, SMT
  <2> QED BY <1>2, <2>1, <2>2
<1> QED BY <1>5, <1>6, <1>7, <1>8, <1>9

(* One call more.                                                          *)
LEMMA ClosedStep ==
  ASSUME NEW n \in Nat, NEW d, NEW b
  PROVE  Closed(d, n + 1, b) <=>
           \/ Closed(d, n, b)
           \/ Jobs[n + 1].d = d /\ ~Jobs[n + 1].enable /\ Touches(b, Jobs[n + 1].region)
<1>1. \A j : j \in 1 .. n + 1 <=> j \in 1 .. n \/ j = n + 1
  BY SMT
<1> QED BY <1>1 DEF Closed

(* All the calls together close the regions of the handle.                 *)
LEMMA ClosedAll ==
  ASSUME conf \in Handles, NEW d \in Dirs, NEW b
  PROVE  Closed(d, Len(Jobs), b) <=> \E i \in DOMAIN conf[d] : Touches(b, conf[d][i])
<1>1. /\ \A j \in 3 .. Len(Jobs) :
           ~Jobs[j].enable /\ \E i \in DOMAIN conf[Jobs[j].d] :
                                 Jobs[j].region = conf[Jobs[j].d][i]
      /\ \A i \in DOMAIN conf[d] :
           \E j \in 3 .. Len(Jobs) : Jobs[j].d = d /\ Jobs[j].region = conf[d][i]
      /\ Len(Jobs) \in Nat /\ Len(Jobs) >= 2
  BY JobsAre
<1>2. ASSUME Closed(d, Len(Jobs), b)
      PROVE  \E i \in DOMAIN conf[d] : Touches(b, conf[d][i])
  <2>1. PICK j \in 1 .. Len(Jobs) : Jobs[j].d = d /\ ~Jobs[j].enable /\ Touches(b, Jobs[j].region)
    BY <1>2 DEF Closed
  <2>2. ~(j <= 2)
    BY <2>1, OpenJobs
  <2>3. j \in 3 .. Len(Jobs)
    BY <1>1, <2>2, SMT
  <2>4. PICK i \in DOMAIN conf[Jobs[j].d] : Jobs[j].region = conf[Jobs[j].d][i]
    BY <1>1, <2>3
  <2> QED BY <2>1, <2>4
<1>3. ASSUME NEW i \in DOMAIN conf[d], Touches(b, conf[d][i])
      PROVE  Closed(d, Len(Jobs), b)
  <2>1. PICK j \in 3 .. Len(Jobs) : Jobs[j].d = d /\ Jobs[j].region = conf[d][i]
    BY <1>1
  <2>2. j \in 1 .. Len(Jobs)
    BY <1>1, SMT
  <2>3. ~Jobs[j].enable
    BY <1>1, <2>1
  <2> QED BY <1>3, <2>1, <2>2, <2>3 DEF Closed
<1> QED BY <1>2, <1>3

LEMMA RegionInit == Init => RegionInv
  BY DEF Init, RegionInv, JobsInv, Dirs

(* A step outside the block tables.                                        *)
LEMMA RegionsSame ==
  ASSUME RegionInv, perm' = perm, pc' \notin {"job", "sweep"},
         \A d \in Dirs : applied'[d] = applied[d]
  PROVE  RegionInv'
  BY DEF RegionInv, JobsInv, Exact

(* The state of one block while init goes on.                              *)
BlockInv(d, r, k, n) ==
  IF Swept(d, r * PerReg + k) THEN k \in perm[d][r] <=> Current.enable
  ELSE n >= OpenJob(d) => (k \in perm[d][r] <=> ~Closed(d, n, r * PerReg + k))

LEMMA JobsStep ==
  ASSUME RegionInv, pc' \in {"job", "sweep"}, UNCHANGED <<plock, applied>>,
         pc \in {"job", "sweep"}, NEW m, m = at'.done,
         \A d \in Dirs : d \in plock => perm'[d] = perm[d],
         \A d \in Dirs \ plock, r \in Regs, k \in Bits : BlockInv(d, r, k, m)'
  PROVE  RegionInv'
<1>1. JobsInv'
  <2>1. SUFFICES ASSUME NEW d \in Dirs \ plock
                 PROVE  /\ applied'[d] = "none"
                        /\ \A r \in Regs, k \in Bits : BlockInv(d, r, k, m)'
    BY DEF JobsInv, BlockInv, Closed
  <2> QED BY DEF RegionInv, JobsInv
<1>2. ASSUME NEW d \in Dirs, applied'[d] # "none"
      PROVE  Exact(d, applied[d])'
  <2>1. applied[d] # "none" /\ d \in plock
    BY <1>2 DEF RegionInv, JobsInv
  <2>2. perm'[d] = perm[d] /\ applied'[d] = applied[d]
    BY <2>1
  <2>3. Exact(d, applied[d])
    BY <2>1 DEF RegionInv
  <2> QED BY <2>2, <2>3 DEF Exact
<1> QED BY <1>1, <1>2 DEF RegionInv

LEMMA OldBlock ==
  ASSUME RegionInv, pc \in {"job", "sweep"}, NEW d \in Dirs \ plock, NEW r \in Regs, NEW k \in Bits
  PROVE  BlockInv(d, r, k, at.done)
  BY DEF RegionInv, JobsInv, BlockInv

LEMMA SkipRegions ==
  ASSUME ControlInv, RegionInv, SkipJob
  PROVE  RegionInv'
<1> USE DEF tables, config, history
<1>1. /\ pc = "job" /\ pc' = "job" /\ conf \in Handles /\ conf' = conf /\ at.done < Len(Jobs)
      /\ UNCHANGED <<plock, applied, perm>> /\ at' = [at EXCEPT !.done = @ + 1]
      /\ at \in [done : Nat, index : Nat, reg : Nat, bit : Nat, left : Nat]
      /\ (~Accepted(Current.region) \/ Current.d \in plock)
  BY DEF ControlInv, TypeInv, SkipJob
<1>2. PICK n \in Nat, m \in Nat : n = at.done /\ m = at'.done /\ m = n + 1
  BY <1>1
<1>3. Len(Jobs) \in Nat /\ m \in 1 .. Len(Jobs) /\ Current = Jobs[m]
  <2>1. Len(Jobs) \in Nat
    BY <1>1, JobsAre
  <2> QED BY <2>1, <1>1, <1>2, SMT DEF Current
<1>4. Jobs' = Jobs
  BY <1>1, SameJobs
<1>5. ASSUME NEW d \in Dirs \ plock, NEW r \in Regs, NEW k \in Bits
      PROVE  BlockInv(d, r, k, m)'
  <2>1. PICK b \in Nat : b = r * PerReg + k
    BY BlockIndex
  <2>2. ~Swept(d, b)' /\ ~Swept(d, b)
    BY <1>1 DEF Swept
  <2>3. n >= OpenJob(d) => (k \in perm[d][r] <=> ~Closed(d, n, b))
    BY <1>1, <1>2, <2>1, <2>2, OldBlock DEF BlockInv
  <2>4. ~(Jobs[m].d = d /\ Touches(b, Jobs[m].region))
    BY <1>1, <1>3, <1>5 DEF Touches
  <2>5. Closed(d, m, b) <=> Closed(d, n, b)
    BY <1>2, <2>4, ClosedStep
  <2>6. m # OpenJob(d)
    <3>1. SUFFICES ASSUME m = OpenJob(d) PROVE FALSE
      OBVIOUS
    <3>2. Jobs[m].d = d /\ Jobs[m].region = Everything
      BY <1>1, <1>3, <3>1, OpenJobs
    <3> QED BY <1>1, <1>3, <1>5, <3>2, EverythingTouched
  <2>7. OpenJob(d) \in 1 .. 2
    BY DEF OpenJob
  <2>8. m >= OpenJob(d) => n >= OpenJob(d)
    BY <1>2, <2>6, <2>7, SMT
  <2>9. Closed(d, m, b)' <=> Closed(d, m, b)
    BY <1>4 DEF Closed, Touches, Accepted
  <2> QED BY <1>1, <2>1, <2>2, <2>3, <2>5, <2>8, <2>9 DEF BlockInv, Swept
<1> QED BY <1>1, <1>2, <1>5, JobsStep

LEMMA StartSweepRegions ==
  ASSUME ControlInv, RegionInv, StartSweep, ControlInv'
  PROVE  RegionInv'
<1> USE DEF tables, config, history
<1>1. /\ pc = "job" /\ pc' = "sweep" /\ conf \in Handles /\ conf' = conf
      /\ UNCHANGED <<plock, applied, perm>>
      /\ at \in [done : Nat, index : Nat, reg : Nat, bit : Nat, left : Nat]
      /\ at.done < Len(Jobs) /\ Accepted(Current.region)
  BY DEF ControlInv, TypeInv, StartSweep
<1> DEFINE R == Current.region
           first == AlignedAddr(R.start)
           reg == first \div (PerReg * Unit)
           bit == (first % (PerReg * Unit)) \div Unit
           left == AdjustedLen(R.start, R.length) \div Unit
<1>2. at' = [at EXCEPT !.reg = reg, !.bit = bit, !.left = left]
  BY DEF StartSweep
<1>3. R \in Region
  BY <1>1, CurrentIs DEF JobType
<1>4. /\ reg \in Nat /\ bit \in 0 .. PerReg - 1
      /\ reg * PerReg + bit = FirstBlock(R) /\ FirstBlock(R) \in Nat
  BY <1>1, <1>3, StartPosition, RegionBlocks
<1> HIDE DEF reg, bit, left
<1>5. at'.done = at.done /\ at'.reg = reg /\ at'.bit = bit
  BY <1>1, <1>2
<1>6. Jobs' = Jobs
  BY <1>1, SameJobs
<1>7. Current' = Current
  BY <1>5, <1>6 DEF Current
<1>8. Position' = FirstBlock(R) /\ FirstBlock(Current.region)' = FirstBlock(R)
  BY <1>4, <1>5, <1>7 DEF Position, FirstBlock
<1>9. PICK n \in Nat : n = at.done /\ n = at'.done
  BY <1>1, <1>5
<1>10. ASSUME NEW d \in Dirs \ plock, NEW r \in Regs, NEW k \in Bits
       PROVE  BlockInv(d, r, k, n)'
  <2>1. PICK b \in Nat : b = r * PerReg + k
    BY BlockIndex
  <2>2. ~Swept(d, b)
    BY <1>1 DEF Swept
  <2>3. ~Swept(d, b)'
    <3>1. ~(FirstBlock(R) <= b /\ b < FirstBlock(R))
      BY <1>4, SMT
    <3> QED BY <1>8, <3>1 DEF Swept
  <2>4. n >= OpenJob(d) => (k \in perm[d][r] <=> ~Closed(d, n, b))
    BY <1>1, <1>9, <2>1, <2>2, OldBlock DEF BlockInv
  <2>5. Closed(d, n, b)' <=> Closed(d, n, b)
    BY <1>6 DEF Closed, Touches, Accepted
  <2> QED BY <1>1, <2>1, <2>3, <2>4, <2>5 DEF BlockInv, Swept
<1> QED BY <1>1, <1>9, <1>10, JobsStep

(* A round of the sweep: the blocks it covers get what the call asks for,  *)
(* all others keep what they had, and after the last round exactly the     *)
(* blocks of the region have been covered.                                 *)
LEMMA RoundRegions ==
  ASSUME ControlInv, RegionInv, SweepRound
  PROVE  RegionInv'
<1> USE DEF tables, config, history
<1>1. /\ pc = "sweep" /\ conf \in Handles /\ conf' = conf
      /\ UNCHANGED <<plock, applied, sel>>
      /\ at \in [done : Nat, index : Nat, reg : Nat, bit : Nat, left : Nat]
      /\ at.done < Len(Jobs) /\ Accepted(Current.region)
      /\ Current.d \notin plock /\ sel = Current.d
      /\ FirstBlock(Current.region) <= Position
      /\ Position + at.left = FirstBlock(Current.region) + Count(Current.region)
      /\ perm \in [Dirs -> [Regs -> SUBSET Bits]]
  BY DEF ControlInv, TypeInv, SweepInv, SweepRound
<1>2. Current \in JobType /\ Current.d \in Dirs /\ Current.region \in Region
  BY <1>1, CurrentIs DEF JobType
<1>3. PICK reg \in Regs, swept \in SUBSET Bits, w \in Nat :
         /\ w > 0 /\ w <= at.left
         /\ Covered(reg, swept, w) /\ Wrote(reg, swept)
         /\ Position' = Position + w
         /\ at' = [done |-> IF at.left = w THEN at.done + 1 ELSE at.done,
                   index |-> at.index, reg |-> at'.reg, bit |-> at'.bit,
                   left |-> at.left - w]
         /\ pc' = IF at.left = w THEN "job" ELSE "sweep"
  BY RoundFacts
<1>4. at'.done = IF at.left = w THEN at.done + 1 ELSE at.done
  <2> DEFINE x == at'.reg
             y == at'.bit
  <2>1. at' = [done |-> IF at.left = w THEN at.done + 1 ELSE at.done,
               index |-> at.index, reg |-> x, bit |-> y, left |-> at.left - w]
    BY <1>3
  <2> HIDE DEF x, y
  <2> QED BY <2>1
<1>5. Len(Jobs) \in Nat
  BY <1>1, JobsAre
<1>6. Jobs' = Jobs
  BY <1>1, SameJobs
<1>7. PICK n \in Nat, m \in Nat, F \in Nat, C \in Nat, P \in Nat, l \in Nat :
        /\ n = at.done /\ m = at'.done /\ F = FirstBlock(Current.region)
        /\ C = Count(Current.region) /\ P = Position /\ l = at.left
  <2>1. FirstBlock(Current.region) \in Nat /\ Count(Current.region) \in Nat
    BY <1>1, <1>2, RegionBlocks
  <2>2. Position \in Nat
    BY <1>1, Consts, SMT DEF Position
  <2>3. at.done \in Nat /\ at'.done \in Nat /\ at.left \in Nat
    BY <1>1, <1>4
  <2> QED BY <2>1, <2>2, <2>3
<1>8. Current = Jobs[n + 1] /\ n + 1 \in 1 .. Len(Jobs) /\ n < Len(Jobs)
  <2>1. n \in Nat /\ n < Len(Jobs) /\ n = at.done
    BY <1>1, <1>7
  <2>2. n + 1 \in 1 .. Len(Jobs)
    BY <1>5, <2>1, SMT
  <2> QED BY <2>1, <2>2 DEF Current
<1>9. F <= P /\ P + l = F + C /\ w <= l /\ w > 0
  BY <1>1, <1>3, <1>7
<1>10. \A b \in Nat : Touches(b, Current.region) <=> F <= b /\ b < F + C
  BY <1>1, <1>2, <1>7, RegionBlocks
<1>11. \A d \in Dirs : d # Current.d => perm'[d] = perm[d]
  BY <1>1, <1>3 DEF Wrote
<1>12. ASSUME NEW r \in Regs, NEW k \in Bits, NEW d \in Dirs, d = Current.d
       PROVE  /\ r = reg /\ k \in swept => (k \in perm'[d][r] <=> Current.enable)
              /\ ~(r = reg /\ k \in swept) => (k \in perm'[d][r] <=> k \in perm[d][r])
  <2>1. perm'[d] = [perm[d] EXCEPT ![reg] = IF Current.enable THEN @ \cup swept ELSE @ \ swept]
    BY <1>1, <1>2, <1>3, <1>12 DEF Wrote
  <2>2. perm[d] \in [Regs -> SUBSET Bits]
    BY <1>1
  <2>3. perm'[d][reg] = IF Current.enable THEN perm[d][reg] \cup swept ELSE perm[d][reg] \ swept
    BY <2>1, <2>2
  <2>4. r # reg => perm'[d][r] = perm[d][r]
    BY <2>1, <2>2
  <2>5. Current.enable \in BOOLEAN
    BY <1>2 DEF JobType
  <2> QED BY <2>3, <2>4, <2>5, Zenon
<1>13. ASSUME NEW d \in Dirs \ plock, NEW r \in Regs, NEW k \in Bits
       PROVE  BlockInv(d, r, k, m)'
  <2>1. PICK b \in Nat : b = r * PerReg + k /\ b < NumBlocks
    BY BlockIndex
  <2>2. OpenJob(d) \in 1 .. 2
    BY DEF OpenJob
  <2>3. /\ Swept(d, b) => (k \in perm[d][r] <=> Current.enable)
        /\ ~Swept(d, b) => (n >= OpenJob(d) => (k \in perm[d][r] <=> ~Closed(d, n, b)))
    BY <1>1, <1>7, <2>1, OldBlock DEF BlockInv
  <2>4. Swept(d, b) <=> Current.d = d /\ F <= b /\ b < P
    BY <1>1, <1>7 DEF Swept
  <2>5. r = reg /\ k \in swept <=> P <= b /\ b < P + w
    BY <1>3, <1>7, <2>1 DEF Covered
  <2>6. \A j \in Nat : Closed(d, j, b)' <=> Closed(d, j, b)
    BY <1>6 DEF Closed, Touches, Accepted
  <2>7. CASE l # w
    <3>1. pc' = "sweep" /\ m = n /\ at'.done = at.done
      BY <1>3, <1>4, <1>7, <2>7
    <3>2. Current' = Current
      BY <1>6, <3>1 DEF Current
    <3>3. FirstBlock(Current.region)' = F /\ Position' = P + w
      BY <1>3, <1>7, <3>2 DEF FirstBlock
    <3>4. Swept(d, b)' <=> Current.d = d /\ F <= b /\ b < P + w
      BY <3>1, <3>2, <3>3 DEF Swept
    <3>5. CASE Current.d # d
      <4>1. perm'[d] = perm[d] /\ ~Swept(d, b)' /\ ~Swept(d, b)
        BY <1>11, <2>4, <3>4, <3>5
      <4>2. n >= OpenJob(d) => (k \in perm'[d][r] <=> ~Closed(d, n, b)')
        BY <2>3, <2>6, <4>1
      <4> QED BY <1>1, <2>1, <3>1, <4>1, <4>2 DEF BlockInv, Swept
    <3>6. CASE Current.d = d /\ F <= b /\ b < P + w
      <4>1. Swept(d, b)'
        BY <3>4, <3>6
      <4>2. k \in perm'[d][r] <=> Current'.enable
        <5>1. b < P \/ (P <= b /\ b < P + w)
          BY <3>6, SMT
        <5>2. CASE P <= b /\ b < P + w
          BY <1>12, <2>5, <3>2, <3>6, <5>2
        <5>3. CASE b < P
          <6>1. Swept(d, b) /\ ~(P <= b)
            BY <2>4, <3>6, <5>3, SMT
          <6> QED BY <1>12, <2>3, <2>5, <3>2, <3>6, <6>1
        <5> QED BY <5>1, <5>2, <5>3
      <4> QED BY <1>1, <2>1, <4>1, <4>2 DEF BlockInv, Swept
    <3>7. CASE Current.d = d /\ ~(F <= b /\ b < P + w)
      <4>1. ~Swept(d, b)' /\ ~Swept(d, b) /\ ~(P <= b /\ b < P + w)
        BY <1>9, <2>4, <3>4, <3>7, SMT
      <4>2. k \in perm'[d][r] <=> k \in perm[d][r]
        BY <1>12, <2>5, <3>7, <4>1
      <4>3. n >= OpenJob(d) => (k \in perm'[d][r] <=> ~Closed(d, n, b)')
        BY <2>3, <2>6, <4>1, <4>2
      <4> QED BY <1>1, <2>1, <3>1, <4>1, <4>3 DEF BlockInv, Swept
    <3> QED BY <3>5, <3>6, <3>7
  <2>8. CASE l = w
    <3>1. pc' = "job" /\ m = n + 1
      BY <1>3, <1>4, <1>7, <2>8
    <3>2. ~Swept(d, b)'
      BY <3>1 DEF Swept
    <3>3. Touches(b, Current.region) <=> F <= b /\ b < P + w
      BY <1>9, <1>10, <2>8
    <3>4. Closed(d, m, b)' <=>
            \/ Closed(d, n, b)
            \/ Current.d = d /\ ~Current.enable /\ Touches(b, Current.region)
      BY <1>8, <2>6, <3>1, ClosedStep
    <3>5. /\ Current.enable <=> m <= 2
          /\ m <= 2 /\ Current.d = d => m = OpenJob(d)
          /\ m = OpenJob(d) => Current.d = d /\ Current.region = Everything
          /\ m <= 2 => ~Closed(d, m, b)
      BY <1>1, <1>8, <3>1, OpenJobs
    <3>6. CASE Current.d # d
      <4>1. perm'[d] = perm[d] /\ ~Swept(d, b)
        BY <1>11, <2>4, <3>6
      <4>2. m >= OpenJob(d) => n >= OpenJob(d)
        BY <2>2, <3>1, <3>5, <3>6, SMT
      <4>3. m >= OpenJob(d) => (k \in perm'[d][r] <=> ~Closed(d, m, b)')
        BY <2>3, <3>4, <3>6, <4>1, <4>2
      <4> QED BY <1>1, <2>1, <3>2, <4>3 DEF BlockInv, Swept
    <3>7. CASE Current.d = d /\ Touches(b, Current.region)
      <4>1. k \in perm'[d][r] <=> Current.enable
        <5>1. b < P \/ (P <= b /\ b < P + w)
          BY <3>3, <3>7, SMT
        <5>2. CASE P <= b /\ b < P + w
          BY <1>12, <2>5, <3>7, <5>2
        <5>3. CASE b < P
          <6>1. Swept(d, b) /\ ~(P <= b)
            BY <2>4, <3>3, <3>7, <5>3, SMT
          <6> QED BY <1>12, <2>3, <2>5, <3>7, <6>1
        <5> QED BY <5>1, <5>2, <5>3
      <4>2. Current.enable => ~Closed(d, m, b)'
        BY <2>6, <3>5
      <4>3. ~Current.enable => Closed(d, m, b)'
        BY <3>4, <3>7
      <4> QED BY <1>1, <2>1, <3>2, <4>1, <4>2, <4>3 DEF BlockInv, Swept
    <3>8. CASE Current.d = d /\ ~Touches(b, Current.region)
      <4>1. ~Swept(d, b) /\ ~(P <= b /\ b < P + w)
        BY <1>9, <2>4, <3>3, <3>8, SMT
      <4>2. k \in perm'[d][r] <=> k \in perm[d][r]
        BY <1>12, <2>5, <3>8, <4>1
      <4>3. ~Current.enable
        <5>1. SUFFICES ASSUME Current.enable PROVE FALSE
          OBVIOUS
        <5>2. Current.region = Everything
          BY <3>5, <3>8, <5>1
        <5> QED BY <2>1, <3>8, <5>2, EverythingTouched
      <4>4. n >= OpenJob(d)
        <5>1. ~(m <= 2)
          BY <3>5, <4>3
        <5> QED BY <2>2, <3>1, <5>1, SMT
      <4>5. k \in perm'[d][r] <=> ~Closed(d, m, b)'
        BY <2>3, <3>4, <3>8, <4>1, <4>2, <4>4
      <4> QED BY <1>1, <2>1, <3>2, <4>5 DEF BlockInv, Swept
    <3> QED BY <3>6, <3>7, <3>8
  <2> QED BY <2>7, <2>8
<1>14. pc' \in {"job", "sweep"}
  BY <1>3
<1>15. \A d \in Dirs : d \in plock => perm'[d] = perm[d]
  BY <1>1, <1>11
<1> QED BY <1>1, <1>7, <1>13, <1>14, <1>15, JobsStep

LEMMA FilterRegions ==
  ASSUME ControlInv, RegionInv, EnableFilter
  PROVE  RegionInv'
<1> USE DEF tables, config, history
<1>1. /\ pc = "job" /\ pc' = "idle" /\ conf \in Handles /\ at.done = Len(Jobs)
      /\ perm' = perm
      /\ applied' = [d \in Dirs |-> IF d \in plock THEN applied[d] ELSE conf[d]]
  BY DEF ControlInv, TypeInv, EnableFilter
<1>2. ASSUME NEW d \in Dirs, d \notin plock PROVE Exact(d, conf[d])
  <2>1. SUFFICES ASSUME NEW r \in Regs, NEW k \in Bits
                 PROVE  k \in perm[d][r] <=>
                          \A i \in DOMAIN conf[d] : ~Touches(r * PerReg + k, conf[d][i])
    BY DEF Exact
  <2>2. PICK b \in Nat : b = r * PerReg + k
    BY BlockIndex
  <2>3. BlockInv(d, r, k, at.done) /\ ~Swept(d, b)
    BY <1>1, <1>2, OldBlock DEF Swept
  <2>4. OpenJob(d) \in 1 .. 2 /\ Len(Jobs) \in Nat /\ Len(Jobs) >= 2
    BY <1>1, JobsAre DEF OpenJob
  <2>5. at.done >= OpenJob(d)
    BY <1>1, <2>4, SMT
  <2>6. k \in perm[d][r] <=> ~Closed(d, Len(Jobs), b)
    BY <1>1, <2>2, <2>3, <2>5 DEF BlockInv
  <2> QED BY <1>1, <2>2, <2>6, ClosedAll
<1>3. ASSUME NEW d \in Dirs, applied'[d] # "none" PROVE Exact(d, applied[d])'
  <2>1. CASE d \in plock
    BY <1>1, <1>3, <2>1 DEF RegionInv, Exact
  <2>2. CASE d \notin plock
    <3>1. Exact(d, conf[d]) /\ applied'[d] = conf[d]
      BY <1>1, <1>2, <2>2
    <3> QED BY <1>1, <3>1 DEF Exact
  <2> QED BY <2>1, <2>2
<1> QED BY <1>1, <1>3 DEF RegionInv, JobsInv

LEMMA StartRegionsStep ==
  ASSUME ControlInv, RegionInv, StartRegions
  PROVE  RegionInv'
<1> USE DEF tables, config, history
<1>1. /\ pc' = "job" /\ at'.done = 0 /\ perm' = perm /\ plock' = plock
      /\ applied' = [d \in Dirs |-> IF d \in plock THEN applied[d] ELSE "none"]
  BY DEF StartRegions, Start
<1>2. \A d : ~(0 >= OpenJob(d))
  BY SMT DEF OpenJob
<1>3. JobsInv'
  BY <1>1, <1>2 DEF JobsInv, Swept, OpenJob
<1>4. \A d \in Dirs : applied'[d] # "none" => applied'[d] = applied[d]
  BY <1>1
<1> QED BY <1>1, <1>3, <1>4 DEF RegionInv, Exact

LEMMA RegionNext == ControlInv /\ RegionInv /\ [Next]_vars => RegionInv'
<1> SUFFICES ASSUME ControlInv, RegionInv, [Next]_vars PROVE RegionInv'
  OBVIOUS
<1> USE DEF tables, config, history
<1>1. ASSUME pc = "idle", pc' = pc, perm' = perm, applied' = applied PROVE RegionInv'
  BY <1>1, RegionsSame
<1>2. CASE StartInit
  BY <1>2, RegionsSame DEF StartInit
<1>3. CASE AllowNext
  BY <1>3, RegionsSame DEF AllowNext
<1>4. CASE StartRegions
  BY <1>4, StartRegionsStep
<1>5. CASE SkipJob
  BY <1>5, SkipRegions
<1>6. CASE StartSweep
  BY <1>6, ControlNext, StartSweepRegions DEF Next
<1>7. CASE SweepRound
  BY <1>7, RoundRegions
<1>8. CASE EnableFilter
  BY <1>8, FilterRegions
<1>9. ASSUME NEW c \in Cmds, NEW f \in Flags, AddCmd(c, f) PROVE RegionInv'
  BY <1>1, <1>9 DEF AddCmd, Op
<1>10. ASSUME NEW c \in Cmds, RemoveCmd(c) \/ LockCmd(c) PROVE RegionInv'
  BY <1>1, <1>10 DEF RemoveCmd, LockCmd, Op
<1>11. CASE LockCommon
  BY <1>1, <1>11 DEF LockCommon, Op
<1>12. ASSUME NEW on \in BOOLEAN, SetFilter(on) \/ BlockMode(on) PROVE RegionInv'
  BY <1>1, <1>12 DEF SetFilter, BlockMode, Op, KeepsPolicy
<1>13. ASSUME NEW mode, Passthrough(mode) PROVE RegionInv'
  BY <1>1, <1>13 DEF Passthrough, Op, KeepsPolicy
<1>14. ASSUME NEW mux, NEW detour, Route(mux, detour) PROVE RegionInv'
  BY <1>1, <1>14 DEF Route, Op, KeepsPolicy
<1>15. CASE UNCHANGED vars
  <2>1. /\ perm' = perm /\ plock' = plock /\ applied' = applied /\ pc' = pc /\ at' = at
        /\ conf' = conf
    BY <1>15 DEF vars
  <2>2. CASE pc \notin {"job", "sweep"}
    BY <2>1, <2>2, RegionsSame
  <2>3. CASE pc \in {"job", "sweep"}
    <3>1. PICK n : n = at.done
      OBVIOUS
    <3>2. Jobs' = Jobs /\ Current' = Current /\ Position' = Position
      BY <2>1, SameJobs DEF Current, Position
    <3>3. ASSUME NEW d \in Dirs \ plock, NEW r \in Regs, NEW k \in Bits
          PROVE  BlockInv(d, r, k, n)'
      <4>1. BlockInv(d, r, k, n)
        BY <2>3, <3>1, OldBlock
      <4>2. Swept(d, r * PerReg + k)' <=> Swept(d, r * PerReg + k)
        BY <2>1, <3>2 DEF Swept, FirstBlock
      <4>3. Closed(d, n, r * PerReg + k)' <=> Closed(d, n, r * PerReg + k)
        BY <3>2 DEF Closed, Touches, Accepted
      <4> QED BY <2>1, <3>2, <4>1, <4>2, <4>3 DEF BlockInv, Swept
    <3> QED BY <2>1, <2>3, <3>1, <3>3, JobsStep
  <2> QED BY <2>2, <2>3
<1> QED BY <1>2, <1>3, <1>4, <1>5, <1>6, <1>7, <1>8, <1>9, <1>10, <1>11, <1>12, <1>13, <1>14,
          <1>15 DEF Next, Flags

(* Whatever was configured before, a finished init leaves exactly the      *)
(* blocks that hold a byte of a blocked region closed, unaligned ends and  *)
(* whole registers included, each table by itself; and nothing but another *)
(* init opens or closes one.                                               *)
THEOREM RegionsCorrect == Spec => []RegionsBlocked
<1>1. RegionInv => RegionsBlocked
  BY DEF RegionInv, RegionsBlocked, Exact
<1> QED BY <1>1, RegionInit, RegionNext, ControlCorrect, PTL DEF Spec

=============================================================================
