--------------------------- MODULE SpiFlashProofs ---------------------------
(***************************************************************************)
(* Proofs about SpiFlash, for every set of configurations, devices, flash  *)
(* sizes and pages: the windows of driver and hardware agree and do not    *)
(* overlap, a command reaches the chip of its device and no other, the     *)
(* calibration picks a delay that passed together with its neighbours, and *)
(* a call of the block device does what it says, however long chips take.  *)
(***************************************************************************)
EXTENDS SpiFlash, WellFoundedInduction, TLAPS

Pcs == {"new", "idle", "config", "bus", "deconfig", "next", "load", "sweep",
        "done"}
Calls == BlockCalls \cup OtherCalls

\* Types, and the call under way: whose it is, and what its command asks for.
TypeInv ==
  /\ conf \in Configs
  /\ cur \in CS /\ cur < conf.max_cs
  /\ blk \subseteq Devices
  /\ pc \in Pcs /\ idx \in Nat /\ (pc = "sweep" => idx <= 4)
  /\ pc \notin {"new", "idle"} =>
       /\ dev \in Devices /\ Usable(dev) /\ call \in Calls
       /\ cmd = "READ" => call.op = "read"
       /\ cmd = "PP" => call.op = "program"
       /\ cmd = "read_init" => call.op = "read_init"
       /\ pc = "bus" => cur = dev.cs

\* The switch shows the device of the call, and only its monitor has pins.
SwitchInv ==
  /\ mux \in 0 .. 4 /\ (conf.master_idx = 0 => mux = 0)
  /\ pin \in [Monitors -> BOOLEAN] /\ gpio \in [Monitors -> BOOLEAN]
  /\ pc \in {"bus", "load", "sweep"} =>
       /\ conf.master_idx # 0 => mux = dev.spim + 1
       /\ mux # 0 => \A i \in Monitors \ {mux - 1} : ~pin[i] /\ ~gpio[i]

\* A window is whole megabytes, and every device a call may use has one.
WindowsInv ==
  /\ dec \in [CS -> [start : Nat, len : Nat]]
  /\ seg \in [CS -> [start : Nat, end : Nat]]
  /\ \A k \in Used :
       k < conf.max_cs /\ dec[k].len # 0 /\ dec[k].start % 4 = 0 /\ dec[k].len % 4 = 0
  /\ pc # "new" => \A v \in Devices :
       Usable(v) /\ v.cs < conf.max_cs => v.cs \in Used
  /\ WindowsSound

\* The divisors that were set, and where the sweep stands.
ClockInv == clk \in [CS -> 0 .. 240] /\ CalibrationSound

FlashInv == TypeInv /\ SwitchInv /\ WindowsInv /\ ClockInv

\* The pages a call that starts looks at, and what one that does not returns.
Looked(c) ==
  \A i \in 0 .. c.n - 1 : IF c.op = "erase" THEN c.at + i \in Sectors
                         ELSE c.at + i \in Pages
Refusals == {"OutOfBounds", "ProgramError"}

-----------------------------------------------------------------------------
\* Windows.

(* What the assumptions give of a configuration.                           *)
LEMMA ConfFacts ==
  ASSUME conf \in Configs
  PROVE  /\ conf.max_cs \in {1, 2} /\ conf.master_idx \in {0, 2}
         /\ conf.ctrl \in {"Fmc", "Spi"} /\ conf.frequency \in 1 .. 200
         /\ conf.capacity \in {64, 256}
         /\ conf.pure_spi_mode_only \in BOOLEAN
         /\ Granule \in {2, 4}
  BY FlashAssumption DEF SpiConfig, Granule, FmcGranule, SpiGranule, Hclk

(* The registers of a window of whole megabytes hold its offsets.          *)
LEMMA SegmentIs ==
  ASSUME conf \in Configs, NEW s \in Nat, NEW n \in Nat \ {0},
         s % 4 = 0, n % 4 = 0, Base <= s, s + n <= Base + Sz256M
  PROVE  /\ Segment([start |-> s, len |-> n]) =
              [start |-> s - Base, end |-> s + n - 1 - Base]
         /\ s - Base \in Nat /\ s + n - 1 - Base \in Nat
<1>1. PICK i \in Nat : s = 4 * i
  BY Z3
<1>2. PICK j \in Nat : n = 4 * j
  BY Z3
<1>3. Granule \in {2, 4}
  BY ConfFacts
<1>4. 1024 <= s /\ s + n <= 2048
  BY DEF Base, Sz256M
<1>5. Floor(s) = s
  BY <1>1, <1>3 DEF Floor
<1>6. Floor(s + n - 1) = s + n - Granule
  BY <1>1, <1>2, <1>3, <1>4 DEF Floor
<1>7. Floor(s) % 1024 = s - 1024
  BY <1>4, <1>5
<1>8. (Floor(s + n - 1) % 1024) + Granule - 1 = s + n - 1 - 1024
  BY <1>3, <1>4, <1>6
<1> QED
  BY <1>4, <1>7, <1>8 DEF Segment, Base, Sz256M

(* So the sizes read back from the registers are those of the windows.     *)
LEMMA SegFacts ==
  ASSUME conf \in Configs, WindowsInv
  PROVE  /\ \A k \in Used :
              /\ seg[k] = [start |-> dec[k].start - Base,
                           end |-> dec[k].start + dec[k].len - 1 - Base]
              /\ seg[k] # NoSeg /\ SegSize(k) = dec[k].len
         /\ \A k \in CS \ Used : seg[k] = NoSeg /\ SegSize(k) = 0
<1>1. ASSUME NEW k \in Used
      PROVE  /\ seg[k] = [start |-> dec[k].start - Base,
                           end |-> dec[k].start + dec[k].len - 1 - Base]
             /\ seg[k] # NoSeg /\ SegSize(k) = dec[k].len
  <2>1. k \in CS /\ dec[k].start \in Nat /\ dec[k].len \in Nat
        /\ dec[k] = [start |-> dec[k].start, len |-> dec[k].len]
    BY DEF WindowsInv, Used
  <2>2. /\ dec[k].len # 0 /\ dec[k].start % 4 = 0 /\ dec[k].len % 4 = 0
        /\ seg[k] = Segment(dec[k]) /\ Base <= dec[k].start
        /\ dec[k].start + dec[k].len <= Base + Sz256M
    BY DEF WindowsInv, WindowsSound
  <2>3. seg[k] = [start |-> dec[k].start - Base,
                  end |-> dec[k].start + dec[k].len - 1 - Base]
        /\ dec[k].start - Base \in Nat
    BY ONLY <2>1, <2>2, conf \in Configs, SegmentIs
  <2>4. dec[k].len >= 4
    <3>1. dec[k].len \in Nat \ {0} /\ dec[k].len % 4 = 0
      BY <2>1, <2>2
    <3> QED BY ONLY <3>1
  <2>5. dec[k].start + dec[k].len - 1 - Base # 0
    BY <2>1, <2>2, <2>4 DEF Base
  <2> QED
    BY <2>1, <2>3, <2>5 DEF SegSize, NoSeg, Base
<1> QED
  BY <1>1 DEF WindowsInv, WindowsSound, SegSize

(* Windows laid out in order inside the region are sound.                  *)
LEMMA LaidSound ==
  ASSUME conf \in Configs, conf' = conf, NEW K \in SUBSET CS,
         NEW st \in [CS -> Nat], NEW n \in [CS -> Nat],
         \A k \in K : /\ k < conf.max_cs /\ n[k] # 0
                      /\ st[k] % 4 = 0 /\ n[k] % 4 = 0
                      /\ Base <= st[k] /\ st[k] + n[k] <= Base + Sz256M,
         K = CS => st[0] + n[0] <= st[1],
         dec' = [k \in CS |-> IF k \in K THEN [start |-> st[k], len |-> n[k]]
                              ELSE NoWindow],
         seg' = [k \in CS |-> IF k \in K THEN Segment([start |-> st[k], len |-> n[k]])
                              ELSE NoSeg],
         \A v \in Devices : Usable(v) /\ v.cs < conf.max_cs => v.cs \in K
  PROVE  WindowsInv'
<1> DEFINE w(k) == [start |-> st[k], len |-> n[k]]
<1>1. \A k \in K : /\ w(k).start = st[k] /\ w(k).len = n[k] /\ w(k) # NoWindow
                   /\ w(k) \in [start : Nat, len : Nat]
  BY DEF NoWindow
<1>2. ASSUME NEW k \in K
      PROVE  Segment(w(k)) \in [start : Nat, end : Nat]
  <2>1. k \in CS /\ st[k] \in Nat /\ n[k] \in Nat \ {0} /\ st[k] % 4 = 0 /\ n[k] % 4 = 0
        /\ Base <= st[k] /\ st[k] + n[k] <= Base + Sz256M
    OBVIOUS
  <2>2. /\ Segment([start |-> st[k], len |-> n[k]]) =
             [start |-> st[k] - Base, end |-> st[k] + n[k] - 1 - Base]
        /\ st[k] - Base \in Nat /\ st[k] + n[k] - 1 - Base \in Nat
    BY ONLY <2>1, conf \in Configs, SegmentIs
  <2> QED
    BY ONLY <2>2
<1>3. \A k \in CS : /\ dec'[k] = IF k \in K THEN w(k) ELSE NoWindow
                    /\ seg'[k] = IF k \in K THEN Segment(w(k)) ELSE NoSeg
  BY Zenon
<1> HIDE DEF w
<1>4. Used' = K
  BY ONLY <1>1, <1>3, K \in SUBSET CS DEF Used
<1>5. dec' \in [CS -> [start : Nat, len : Nat]] /\ seg' \in [CS -> [start : Nat, end : Nat]]
  <2>1. dec' = [k \in CS |-> dec'[k]] /\ seg' = [k \in CS |-> seg'[k]]
    BY Zenon
  <2>2. \A k \in CS : dec'[k] \in [start : Nat, len : Nat]
    BY ONLY <1>1, <1>3 DEF NoWindow
  <2>3. \A k \in CS : seg'[k] \in [start : Nat, end : Nat]
    BY ONLY <1>2, <1>3 DEF NoSeg
  <2> QED BY <2>1, <2>2, <2>3
<1>6. \A k \in K : /\ seg'[k] = Segment(dec[k])'
                   /\ dec'[k].start = st[k] /\ dec'[k].len = n[k]
  <2>1. \A k \in K : dec'[k] = w(k) /\ seg'[k] = Segment(w(k))
    BY <1>3
  <2>2. \A k \in CS : Segment(dec[k])' =
          [start |-> Floor(dec'[k].start) % Sz256M,
           end |-> (Floor(dec'[k].start + dec'[k].len - 1) % Sz256M) + Granule - 1]
    BY DEF Segment, Floor, Granule
  <2> QED BY ONLY <1>1, <2>1, <2>2, K \in SUBSET CS, ZenonT(40) DEF Segment
<1>7. WindowsSound'
  <2>1. \A k \in Used' : /\ seg'[k] = Segment(dec[k])' /\ dec'[k].start >= Base
                         /\ dec'[k].start + dec'[k].len <= Base + Sz256M
    <3>1. \A k \in K : /\ st[k] \in Nat /\ n[k] \in Nat
                       /\ Base <= st[k] /\ st[k] + n[k] <= Base + Sz256M
      OBVIOUS
    <3> QED BY ONLY <1>4, <1>6, <3>1 DEF Base, Sz256M
  <2>2. \A k \in CS \ Used' : seg'[k] = NoSeg
    BY <1>3, <1>4
  <2>3. Used' = CS => dec'[0].start + dec'[0].len <= dec'[1].start
    BY <1>4, <1>6 DEF CS
  <2> QED BY <2>1, <2>2, <2>3 DEF WindowsSound
<1> QED
  <2>1. \A k \in Used' : /\ k < conf.max_cs /\ dec'[k].len # 0
                         /\ dec'[k].start % 4 = 0 /\ dec'[k].len % 4 = 0
    BY <1>4, <1>6
  <2>2. \A v \in Devices : Usable(v)' /\ v.cs < conf.max_cs => v.cs \in Used'
    BY <1>4 DEF Usable
  <2> QED BY <1>5, <1>7, <2>1, <2>2 DEF WindowsInv

(* n windows of one size, one behind the other, from the base on.          *)
LEMMA PreSound ==
  ASSUME conf \in Configs, conf' = conf, NEW n \in {1, 2}, n <= conf.max_cs,
         NEW u \in Nat \ {0}, u % 4 = 0, n * u <= Sz256M,
         dec' = PreWindows(n, u), seg' = SegmentsOf(PreWindows(n, u)),
         \A v \in Devices : Usable(v) /\ v.cs < conf.max_cs => v.cs < n
  PROVE  WindowsInv'
<1> DEFINE K == {k \in CS : k < n}
           st == [k \in CS |-> Base + k * u]
           sz == [k \in CS |-> u]
<1>1. st \in [CS -> Nat] /\ sz \in [CS -> Nat] /\ K \in SUBSET CS
  BY DEF Base, CS
<1>2. \A k \in K : /\ k < conf.max_cs /\ sz[k] # 0 /\ st[k] % 4 = 0 /\ sz[k] % 4 = 0
                   /\ Base <= st[k] /\ st[k] + sz[k] <= Base + Sz256M
  BY ConfFacts, Z3 DEF CS, Base, Sz256M
<1>3. st[0] + sz[0] <= st[1]
  BY DEF CS, Base
<1>4. \A k \in CS : k \in K => (k + 1) * u <= Sz256M
  BY DEF CS, Sz256M
<1>5. dec' = [k \in CS |-> IF k \in K THEN [start |-> st[k], len |-> sz[k]] ELSE NoWindow]
  BY <1>4 DEF PreWindows
<1>6. \A k \in K : [start |-> st[k], len |-> sz[k]] # NoWindow
  BY DEF NoWindow
<1>7. seg' = [k \in CS |-> IF k \in K THEN Segment([start |-> st[k], len |-> sz[k]])
                           ELSE NoSeg]
  <2>1. seg' = [k \in CS |-> IF dec'[k] = NoWindow THEN NoSeg ELSE Segment(dec'[k])]
    BY DEF SegmentsOf
  <2> QED BY ONLY <1>5, <1>6, <2>1
<1>8. \A v \in Devices : Usable(v) /\ v.cs < conf.max_cs => v.cs \in K
  BY FlashAssumption
<1> HIDE DEF K, st, sz
<1> QED
  BY ONLY <1>1, <1>2, <1>3, <1>5, <1>7, <1>8, conf \in Configs, conf' = conf, LaidSound, ZenonT(40)

(* decode_range_pre_init of the FMC.                                       *)
LEMMA FmcInitWindows ==
  ASSUME conf \in Configs, FmcInit
  PROVE  WindowsInv'
<1> DEFINE n == conf.max_cs
           u == IF conf.pure_spi_mode_only THEN PureUnit ELSE Sz2M
<1>1. n \in {1, 2} /\ u \in Nat \ {0} /\ u % 4 = 0 /\ n * u <= Sz256M
  BY ConfFacts DEF PureUnit, Sz256M, Sz2M
<1>2. conf' = conf /\ dec' = PreWindows(n, u) /\ seg' = SegmentsOf(PreWindows(n, u))
  BY DEF FmcInit, ControllerInit, FmcWindows
<1> HIDE DEF u
<1> QED BY ONLY conf \in Configs, <1>1, <1>2, PreSound

(* And of an SPI controller, which has one window behind the monitors.     *)
LEMMA SpiInitWindows ==
  ASSUME conf \in Configs, SpiInit
  PROVE  WindowsInv'
<1> DEFINE n == IF conf.master_idx # 0 THEN 1 ELSE conf.max_cs
           u == IF conf.pure_spi_mode_only THEN PureUnit
                ELSE IF conf.master_idx # 0 THEN Sz256M ELSE Sz2M
<1>1. n \in {1, 2} /\ n <= conf.max_cs /\ u \in Nat \ {0} /\ u % 4 = 0 /\ n * u <= Sz256M
  BY ConfFacts DEF PureUnit, Sz256M, Sz2M
<1>2. conf' = conf /\ dec' = PreWindows(n, u) /\ seg' = SegmentsOf(PreWindows(n, u))
  BY DEF SpiInit, ControllerInit, SpiWindows
<1>3. \A v \in Devices : Usable(v) /\ v.cs < conf.max_cs => v.cs < n
  BY DEF Usable
<1> HIDE DEF u, n
<1> QED BY ONLY conf \in Configs, <1>1, <1>2, <1>3, PreSound

(* Where the windows are, nothing else matters to them.                    *)
LEMMA SameWindows ==
  ASSUME WindowsInv, UNCHANGED <<conf, dec, seg>>, pc # "new" \/ pc' = "new"
  PROVE  WindowsInv'
<1>1. Used' = Used
  BY DEF Used
<1>2. \A k \in CS : Segment(dec[k])' = Segment(dec[k])
  BY DEF Segment, Floor, Granule
<1> QED
  BY <1>1, <1>2 DEF WindowsInv, WindowsSound, Usable, Used

(* decode_range_reinit of the chip select used last.                       *)
LEMMA ReinitWindows ==
  ASSUME conf \in Configs, cur \in CS, cur < conf.max_cs, pc # "new", WindowsInv,
         conf' = conf, NEW sz \in FlashSizes, Reinit(sz)
  PROVE  WindowsInv'
<1>1. CASE ~Fits(sz)
  BY <1>1, SameWindows DEF Reinit
<1>2. CASE Fits(sz)
  <2> DEFINE K == {k \in CS : Laid(k, sz)}
             st == [k \in CS |-> NewStart(k, sz)]
             n  == [k \in CS |-> NewSize(k, sz)]
  <2>1. sz \in Nat /\ sz # 0 /\ sz % 4 = 0 /\ sz <= 1024
    BY FlashAssumption
  <2>2. \A k \in CS : /\ SegSize(k) \in Nat /\ SegSize(k) % 4 = 0
                      /\ k \in Used <=> SegSize(k) # 0
                      /\ k \in Used => SegSize(k) = dec[k].len /\ k < conf.max_cs
    BY SegFacts DEF WindowsInv, Used
  <2>3. conf.max_cs \in {1, 2}
    BY ConfFacts
  <2>4. \A k \in CS : n[k] \in Nat /\ n[k] % 4 = 0
    BY <2>1, <2>2 DEF NewSize
  <2>5. /\ conf.max_cs = 1 => cur = 0 /\ n[0] <= Sz256M
        /\ conf.max_cs = 2 => n[0] + n[1] <= Sz256M
    BY <1>2, <2>1, <2>2, <2>3 DEF Fits, NewSize, CS, Sz256M
  <2>6. st[0] = Base /\ st[1] = Base + n[0]
    BY DEF NewStart, CS
  <2>7. \A k \in K : /\ k < conf.max_cs /\ n[k] # 0
    BY DEF Laid
  <2>8. \A k \in K : st[k] \in Nat /\ st[k] % 4 = 0
                     /\ Base <= st[k] /\ st[k] + n[k] <= Base + Sz256M
    <3>1. n[0] \in Nat /\ n[0] % 4 = 0 /\ n[1] \in Nat
      BY <2>4 DEF CS
    <3>2. K \subseteq {0, 1}
      BY DEF CS
    <3> HIDE DEF n, st, K
    <3> QED BY <2>3, <2>5, <2>6, <2>7, <3>1, <3>2 DEF Base, Sz256M
  <2>9. st \in [CS -> Nat] /\ n \in [CS -> Nat]
    BY <2>4, <2>6 DEF CS, Base, NewStart, NewSize
  <2>10. ASSUME NEW k \in CS
         PROVE  IF k \in K THEN k = cur \/ dec[k].len = n[k]
                ELSE dec[k] = NoWindow /\ seg[k] = NoSeg
    BY <2>1, <2>2, SegFacts DEF Laid, NewSize, Used
  <2>11. dec' = [k \in CS |-> IF k \in K THEN [start |-> st[k], len |-> n[k]] ELSE NoWindow]
    <3>1. dec' = [k \in CS |-> IF k \in K
                    THEN [start |-> st[k], len |-> IF k = cur THEN sz ELSE dec[k].len]
                    ELSE dec[k]]
      BY <1>2 DEF Reinit
    <3>2. n[cur] = sz
      BY DEF NewSize
    <3> HIDE DEF n, st, K
    <3> QED BY ONLY <2>10, <3>1, <3>2
  <2>12. seg' = [k \in CS |-> IF k \in K THEN Segment([start |-> st[k], len |-> n[k]])
                              ELSE NoSeg]
    <3>1. seg' = [k \in CS |-> IF k \in K
                    THEN Segment([start |-> st[k], len |-> n[k]]) ELSE seg[k]]
      BY <1>2 DEF Reinit
    <3> HIDE DEF n, st, K
    <3> QED BY ONLY <2>10, <3>1
  <2>13. \A v \in Devices : Usable(v) /\ v.cs < conf.max_cs => v.cs \in K
    <3>1. \A k \in Used : k \in K
      BY <2>1, <2>2 DEF Laid, NewSize, Used
    <3> QED BY <3>1 DEF WindowsInv
  <2>14. K \in SUBSET CS /\ st[0] + n[0] <= st[1]
    BY <2>4, <2>6 DEF CS, Base
  <2> HIDE DEF n, st, K
  <2> QED
    BY ONLY <2>7, <2>4, <2>8, <2>9, <2>11, <2>12, <2>13, <2>14, conf \in Configs, conf' = conf,
            LaidSound
<1> QED
  BY <1>1, <1>2

(* An address inside a window reaches its chip select and no other.        *)
LEMMA HitsOne ==
  ASSUME conf \in Configs, WindowsInv, NEW k \in Used, NEW a \in Nat,
         dec[k].start <= a, a < dec[k].start + dec[k].len
  PROVE  Hits(a) = {k}
<1>1. \A j \in Used : /\ j \in CS /\ dec[j].start \in Nat /\ dec[j].len \in Nat
                      /\ 1024 <= dec[j].start /\ dec[j].start + dec[j].len <= 2048
  BY DEF WindowsInv, WindowsSound, Used, Base, Sz256M
<1>2. a % 1024 = a - 1024 /\ a \in 1024 .. 2047
  BY <1>1
<1>3. \A j \in Used : /\ seg[j].start = dec[j].start - 1024
                      /\ seg[j].end = dec[j].start + dec[j].len - 1025
                      /\ seg[j] # NoSeg
  <2> SUFFICES ASSUME NEW j \in Used
               PROVE  /\ seg[j].start = dec[j].start - 1024
                      /\ seg[j].end = dec[j].start + dec[j].len - 1025
                      /\ seg[j] # NoSeg
    OBVIOUS
  <2>1. /\ seg[j] = [start |-> dec[j].start - Base,
                     end |-> dec[j].start + dec[j].len - 1 - Base]
        /\ seg[j] # NoSeg
    BY SegFacts
  <2>2. dec[j].start \in Nat /\ dec[j].len \in Nat
    BY <1>1
  <2> QED BY ONLY <2>1, <2>2 DEF Base
<1>4. \A j \in CS \ Used : seg[j] = NoSeg
  BY SegFacts
<1>5. ASSUME NEW j \in Used, j # k
      PROVE  ~(seg[j].start <= a - 1024 /\ a - 1024 <= seg[j].end)
  <2>1. dec[0].start + dec[0].len <= dec[1].start /\ j \in {0, 1} /\ k \in {0, 1}
    BY <1>1, <1>5 DEF WindowsInv, WindowsSound, Used, CS
  <2> QED BY <1>1, <1>3, <1>5, <2>1
<1>6. \A j \in CS : j \in Hits(a) <=>
        seg[j] # NoSeg /\ seg[j].start <= a - 1024 /\ a - 1024 <= seg[j].end
  BY <1>2 DEF Hits, Base, Sz256M, WindowsInv
<1>7. k \in Hits(a)
  BY <1>1, <1>2, <1>3, <1>6
<1>8. \A j \in CS : j # k => j \notin Hits(a)
  BY <1>4, <1>5, <1>6
<1> QED
  BY <1>7, <1>8 DEF Hits

(* In particular the first address of a window, which user mode accesses,  *)
(* and a DMA address that its length lets pass: with the switch where it   *)
(* belongs, that is the chip of the device.                                *)
LEMMA ChipHears ==
  ASSUME conf \in Configs, WindowsInv, NEW v \in Devices, v.cs \in Used,
         conf.master_idx # 0 => mux = v.spim + 1,
         NEW n \in Nat, n < dec[v.cs].len
  PROVE  Heard(dec[v.cs].start + n) = {ChipOf(v)}
<1>1. dec[v.cs].start + n \in Nat /\ dec[v.cs].start \in Nat /\ dec[v.cs].len \in Nat
  BY DEF WindowsInv, Used
<1>2. Hits(dec[v.cs].start + n) = {v.cs}
  <2> DEFINE a == dec[v.cs].start + n
  <2>1. a \in Nat /\ dec[v.cs].start <= a /\ a < dec[v.cs].start + dec[v.cs].len
    BY <1>1
  <2> HIDE DEF a
  <2>2. Hits(a) = {v.cs}
    BY ONLY <2>1, conf \in Configs, WindowsInv, v.cs \in Used, HitsOne
  <2> QED BY <2>2 DEF a
<1>3. Heard(dec[v.cs].start + n) =
        {<<k, IF conf.master_idx = 0 THEN 0 ELSE mux>> : k \in {v.cs}}
  BY <1>2 DEF Heard
<1> QED
  BY <1>3 DEF ChipOf

(* What a DMA asks for lies in a sector of the flash.                      *)
LEMMA SectorNat ==
  ASSUME TypeInv, pc = "bus", CanDma
  PROVE  SectorOf(call, idx) \in Nat
<1>1. call \in BlockCalls /\ call.op \in {"read", "program"}
  BY DEF TypeInv, CanDma, Calls, BlockCalls, OtherCalls, RawCommands
<1>2. call.at \in Nat
  BY <1>1, FlashAssumption DEF BlockCalls
<1> QED
  BY <1>1, <1>2, FlashAssumption DEF SectorOf, TypeInv

(* RightChip is the conjunction of what the switch, the windows and the    *)
(* types say of the state of a command.                                    *)
LEMMA ChipIsRight ==
  ASSUME TypeInv, SwitchInv, WindowsInv
  PROVE  RightChip
<1>1. conf \in Configs
  BY DEF TypeInv
<1>2. ASSUME pc = "bus"
      PROVE  /\ Heard(dec[cur].start) = {ChipOf(dev)}
             /\ CanDma /\ SectorOf(call, idx) < dec[cur].len
                  => Heard(DmaAddress) = {ChipOf(dev)}
  <2>1. /\ dev \in Devices /\ dev.cs = cur /\ dev.cs \in Used
        /\ conf.master_idx # 0 => mux = dev.spim + 1
    BY <1>2 DEF TypeInv, SwitchInv, WindowsInv
  <2>2. 0 < dec[dev.cs].len /\ dec[dev.cs].start \in Nat
    BY <2>1 DEF WindowsInv, Used
  <2>3. Heard(dec[dev.cs].start + 0) = {ChipOf(dev)}
    BY ONLY <1>1, WindowsInv, <2>1, <2>2, ChipHears
  <2>4. ASSUME CanDma, SectorOf(call, idx) < dec[cur].len
        PROVE  Heard(DmaAddress) = {ChipOf(dev)}
    <3>1. SectorOf(call, idx) \in Nat
      BY <1>2, <2>4, SectorNat
    <3>2. Heard(dec[dev.cs].start + SectorOf(call, idx)) = {ChipOf(dev)}
      BY ONLY <1>1, WindowsInv, <2>1, <2>4, <3>1, ChipHears
    <3> QED BY <2>1, <3>2 DEF DmaAddress
  <2> QED BY <2>1, <2>2, <2>3, <2>4
<1>3. ASSUME pc \in {"load", "sweep"}, dev.cs < conf.max_cs
      PROVE  Heard(dec[dev.cs].start) = {ChipOf(dev)}
  <2>1. /\ dev \in Devices /\ dev.cs \in Used
        /\ conf.master_idx # 0 => mux = dev.spim + 1
    BY <1>3 DEF TypeInv, SwitchInv, WindowsInv
  <2>2. 0 < dec[dev.cs].len /\ dec[dev.cs].start \in Nat
    BY <2>1 DEF WindowsInv, Used
  <2>3. Heard(dec[dev.cs].start + 0) = {ChipOf(dev)}
    BY ONLY <1>1, WindowsInv, <2>1, <2>2, ChipHears
  <2> QED BY <2>2, <2>3
<1>4. pc = "sweep" /\ cur = dev.cs => dev.cs < conf.max_cs
  BY DEF TypeInv
<1> QED
  BY <1>2, <1>3, <1>4 DEF RightChip, ChecksumAddress, SwitchInv

-----------------------------------------------------------------------------
\* Calibration.

(* A nonempty set of natural numbers has a least and, below a bound, a     *)
(* greatest element.                                                       *)
LEMMA LeastNat ==
  ASSUME NEW S \in SUBSET Nat, S # {}
  PROVE  \E x \in S : \A y \in S : x <= y
<1>1. \A x, y \in Nat : x < y => <<x, y>> \in OpToRel(<, Nat)
  BY Zenon DEF OpToRel
<1>2. PICK R : IsWellFoundedOn(R, Nat) /\ \A x, y \in Nat : x < y => <<x, y>> \in R
  BY <1>1, NatLessThanWellFounded, Zenon
<1>3. IsWellFoundedOn(R, Nat) /\ S \subseteq Nat /\ S # {}
  BY <1>2
<1>4. PICK x \in S : \A y \in S : ~(<<y, x>> \in R)
  BY ONLY <1>3, WFMin, Zenon
<1>5. \A y \in S : x \in Nat /\ y \in Nat /\ ~(y < x)
  BY <1>2, <1>4
<1>6. \A y \in S : x <= y
  BY <1>5, SMT
<1> QED
  BY <1>4, <1>6, Zenon

(* The greatest element, of a set of integers with a bound.                *)
LEMMA GreatestInt ==
  ASSUME NEW S \in SUBSET Int, S # {}, NEW m \in Int, \A x \in S : x <= m
  PROVE  MaxOf(S) \in S /\ \A y \in S : y <= MaxOf(S)
<1> DEFINE T == {m - x : x \in S}
<1>1. T \in SUBSET Nat /\ T # {}
  <2>1. \A x \in S : m - x \in Nat
    OBVIOUS
  <2>2. PICK x \in S : TRUE
    OBVIOUS
  <2>3. m - x \in T
    BY <2>2
  <2> QED BY <2>1, <2>3
<1>2. PICK t \in T : \A y \in T : t <= y
  BY <1>1, LeastNat
<1>3. PICK x \in S : t = m - x
  OBVIOUS
<1>4. \A y \in S : m - y \in T
  OBVIOUS
<1>5. \A y \in S : y <= x
  BY <1>2, <1>3, <1>4, SMTT(30)
<1> QED
  BY <1>5 DEF MaxOf

(* A divisor is found for every frequency, and it is not too fast.         *)
LEMMA DivisorFits ==
  ASSUME NEW max \in Nat
  PROVE  FreqDiv(max) \in 2 .. 240 /\ Hclk \div FreqDiv(max) <= max
<1> DEFINE S == {n \in 2 .. 240 : Hclk \div n <= max}
<1>1. 201 \in S
  BY DEF Hclk
<1>2. S \in SUBSET Nat
  OBVIOUS
<1>3. PICK n \in S : \A y \in S : n <= y
  BY <1>1, <1>2, LeastNat, ZenonT(40)
<1>4. n \in 2 .. 240 /\ Hclk \div n <= max /\ \A k \in 2 .. n - 1 : Hclk \div k > max
  <2>1. ASSUME NEW k \in 2 .. n - 1 PROVE Hclk \div k > max
    <3>1. k \notin S /\ k \in 2 .. 240
      BY <1>3
    <3>2. Hclk \div k \in Nat
      BY <3>1 DEF Hclk
    <3> QED BY <3>1, <3>2
  <2> QED BY <2>1
<1> QED
  BY <1>4, Zenon DEF FreqDiv

(* The last cell before i that did not pass, and the run up to i.          *)
LEMMA RunFacts ==
  ASSUME NEW N \in Nat, NEW cells \in [0 .. N - 1 -> BOOLEAN], NEW i \in 0 .. N - 1
  PROVE  /\ LastZero(cells, i) \in -1 .. i
         /\ \A j \in 0 .. i : j > LastZero(cells, i) => cells[j]
         /\ Run(cells, i) = i - LastZero(cells, i) /\ Run(cells, i) \in Nat
<1> DEFINE S == {-1} \cup {j \in 0 .. i : ~cells[j]}
<1>1. S \in SUBSET Int /\ S # {} /\ (\A x \in S : x <= i) /\ i \in Int
  OBVIOUS
<1>3. LastZero(cells, i) = MaxOf(S)
  BY DEF LastZero
<1> HIDE DEF S
<1>2. MaxOf(S) \in S /\ \A y \in S : y <= MaxOf(S)
  BY ONLY <1>1, GreatestInt
<1>4. LastZero(cells, i) \in -1 .. i
  BY <1>2, <1>3 DEF S
<1>5. \A j \in 0 .. i : j > LastZero(cells, i) => cells[j]
  <2>1. SUFFICES ASSUME NEW j \in 0 .. i, j > LastZero(cells, i), ~cells[j] PROVE FALSE
    OBVIOUS
  <2>2. j \in S
    BY <2>1 DEF S
  <2> QED BY <1>2, <1>3, <1>4, <2>1, <2>2
<1> QED
  BY <1>4, <1>5 DEF Run

(* A point picked lies strictly inside a run of cells that passed.         *)
LEMMA MidPointInside ==
  ASSUME NEW N \in Nat \ {0}, NEW cells \in [0 .. N - 1 -> BOOLEAN], MidPoint(cells) >= 0
  PROVE  /\ MidPoint(cells) \in Nat
         /\ MidPoint(cells) - 1 \in 0 .. N - 1 /\ MidPoint(cells) + 1 \in 0 .. N - 1
         /\ \A j \in MidPoint(cells) - 1 .. MidPoint(cells) + 1 : cells[j]
<1> DEFINE P(n) == /\ \A j \in DOMAIN cells : Run(cells, j) <= Run(cells, n)
                   /\ \A j \in 0 .. n - 1 : Run(cells, j) < Run(cells, n)
<1>1. DOMAIN cells = 0 .. N - 1
  OBVIOUS
<1>2. \E n \in DOMAIN cells : P(n)
  <2> DEFINE R == {Run(cells, j) : j \in 0 .. N - 1}
  <2>1. R \in SUBSET Int /\ R # {} /\ (\A x \in R : x <= N) /\ N \in Int
    <3>1. \A j \in 0 .. N - 1 : Run(cells, j) \in Int /\ Run(cells, j) <= N
      BY RunFacts
    <3>2. Run(cells, 0) \in R
      OBVIOUS
    <3> QED BY <3>1, <3>2
  <2> HIDE DEF R
  <2>2. MaxOf(R) \in R /\ \A x \in R : x <= MaxOf(R)
    BY ONLY <2>1, GreatestInt
  <2> DEFINE T == {j \in 0 .. N - 1 : Run(cells, j) = MaxOf(R)}
  <2>3. T \in SUBSET Nat /\ T # {}
    <3>1. PICK j \in 0 .. N - 1 : Run(cells, j) = MaxOf(R)
      BY <2>2 DEF R
    <3> QED BY <3>1
  <2>4. PICK n \in T : \A y \in T : n <= y
    BY <2>3, LeastNat
  <2>5. \A j \in 0 .. N - 1 : Run(cells, j) <= Run(cells, n)
    BY <2>2, <2>4 DEF R
  <2>6. ASSUME NEW j \in 0 .. n - 1 PROVE Run(cells, j) < Run(cells, n)
    <3>1. j \in 0 .. N - 1 /\ j \notin T /\ Run(cells, n) = MaxOf(R)
      BY <2>4
    <3>2. Run(cells, j) \in Int /\ Run(cells, n) \in Int
      BY <3>1, RunFacts
    <3> QED BY <2>5, <3>1, <3>2
  <2> QED BY <2>4, <2>5, <2>6
<1>3. PICK n \in DOMAIN cells : n = CHOOSE i \in DOMAIN cells : P(i)
  BY <1>2
<1>4. MidPoint(cells) =
        IF Run(cells, n) < 4 THEN -1
        ELSE (IF LastZero(cells, n) = -1 THEN 0 ELSE LastZero(cells, n))
             + Run(cells, n) \div 2
  BY <1>3 DEF MidPoint
<1> HIDE DEF P
<1> DEFINE z == LastZero(cells, n)
<1>5. n \in 0 .. N - 1 /\ z \in -1 .. n /\ Run(cells, n) = n - z
      /\ \A j \in 0 .. n : j > z => cells[j]
  BY <1>1, RunFacts
<1> HIDE DEF z
<1>6. n - z >= 4 /\ MidPoint(cells) = (IF z = -1 THEN 0 ELSE z) + (n - z) \div 2
  BY <1>4, <1>5 DEF z
<1>7. MidPoint(cells) - 1 > z /\ MidPoint(cells) - 1 >= 0 /\ MidPoint(cells) + 1 <= n
  BY <1>5, <1>6
<1>8. MidPoint(cells) \in Nat
  BY <1>5, <1>6
<1> HIDE DEF z
<1> QED
  BY ONLY <1>5, <1>7, <1>8, N \in Nat \ {0}

(* The next cell of a row, unless the row ends there.                      *)
LEMMA NextInRow ==
  ASSUME NEW b \in Nat \ {0}, NEW i \in Nat, i % b < b - 1
  PROVE  (i + 1) \div b = i \div b /\ (i + 1) % b = (i % b) + 1
<1>1. i = b * (i \div b) + (i % b) /\ i \div b \in Nat /\ i % b \in 0 .. b - 1
  BY SMT
<1>2. i + 1 = b * ((i + 1) \div b) + ((i + 1) % b) /\ (i + 1) \div b \in Nat
      /\ (i + 1) % b \in 0 .. b - 1
  BY SMT
<1>3. \A q, r, p, s \in Nat :
        r < b /\ s < b /\ b * q + r = b * p + s => q = p /\ r = s
  BY SMT
<1>4. b * (i \div b) + ((i % b) + 1) = b * ((i + 1) \div b) + ((i + 1) % b)
  BY <1>1, <1>2
<1> QED
  BY <1>1, <1>2, <1>3, <1>4

(* What is picked passed, and so did the delays beside it.                 *)
LEMMA PickIsSound ==
  ASSUME NEW d \in 0 .. 3, NEW g \in Found[d],
         NEW t \in {g.delay - 1, g.delay, g.delay + 1}
  PROVE  /\ <<g.hcycle, t>> \in Points
         /\ g.pass[<<TestedCycle(g.div, g.hcycle), t>>]
<1>0. PICK pass \in Outcomes(d) :
        /\ Picked(d, pass) >= 0
        /\ g = [pass |-> pass, div |-> d, hcycle |-> Picked(d, pass) \div RowSize,
                delay |-> Picked(d, pass) % RowSize]
  BY Zenon DEF Found
<1> DEFINE N == Hcycles * RowSize
           k == Picked(d, pass)
           cells == Cells(d, pass)
           p(i) == <<i \div RowSize, i % RowSize>>
           q(i) == <<TestedCycle(d, i \div RowSize), i % RowSize>>
<1> HIDE DEF q
<1>1. N \in Nat \ {0} /\ RowSize \in Nat \ {0} /\ RowSize - 1 = Delays
  BY FlashAssumption DEF RowSize
<1>2. k >= 0 /\ k = MidPoint(cells)
  BY <1>0 DEF Picked
<1>3. cells = [i \in 0 .. N - 1 |-> p(i) \in Points /\ pass[q(i)]]
  BY DEF Cells, q
<1>3a. \A i \in 0 .. N - 1 : (p(i) \in Points /\ pass[q(i)]) \in BOOLEAN
  OBVIOUS
<1>4. cells \in [0 .. N - 1 -> BOOLEAN]
  BY <1>3, <1>3a, Zenon
<1>5. \A i \in 0 .. N - 1 : cells[i] => p(i) \in Points /\ pass[q(i)]
  BY <1>3, Zenon
<1>6. /\ k \in Nat /\ k - 1 \in 0 .. N - 1 /\ k + 1 \in 0 .. N - 1
      /\ \A j \in k - 1 .. k + 1 : cells[j]
  <2> HIDE DEF N, cells, k
  <2>1. MidPoint(cells) >= 0
    BY <1>2
  <2>2. /\ MidPoint(cells) \in Nat
        /\ MidPoint(cells) - 1 \in 0 .. N - 1 /\ MidPoint(cells) + 1 \in 0 .. N - 1
        /\ \A j \in MidPoint(cells) - 1 .. MidPoint(cells) + 1 : cells[j]
    BY ONLY <1>1, <1>4, <2>1, MidPointInside
  <2> QED BY ONLY <1>2, <2>2
<1> HIDE DEF N, cells, k
<1>7. k \in Nat /\ k \in 0 .. N - 1 /\ k - 1 \in Nat
  BY <1>1, <1>6
<1>8. \A i \in {k - 1, k, k + 1} : p(i) \in Points /\ pass[q(i)]
  <2>1. \A i \in {k - 1, k, k + 1} : i \in 0 .. N - 1 /\ i \in k - 1 .. k + 1
    BY <1>1, <1>6, <1>7
  <2>2. \A i \in {k - 1, k, k + 1} : i \in 0 .. N - 1 /\ cells[i]
    BY <1>6, <2>1
  <2> HIDE DEF p
  <2> QED BY ONLY <1>5, <2>2
<1>9. \A i \in {k - 1, k, k + 1} : i % RowSize < RowSize - 1
  BY <1>1, <1>7, <1>8 DEF Points
<1>10. /\ k \div RowSize = (k - 1) \div RowSize /\ k % RowSize = ((k - 1) % RowSize) + 1
       /\ (k + 1) \div RowSize = k \div RowSize /\ (k + 1) % RowSize = (k % RowSize) + 1
  <2>1. (k - 1) + 1 = k
    BY <1>7
  <2>2. /\ ((k - 1) + 1) \div RowSize = (k - 1) \div RowSize
        /\ ((k - 1) + 1) % RowSize = ((k - 1) % RowSize) + 1
    BY ONLY <1>1, <1>7, <1>9, NextInRow
  <2>3. (k + 1) \div RowSize = k \div RowSize /\ (k + 1) % RowSize = (k % RowSize) + 1
    BY ONLY <1>1, <1>7, <1>9, NextInRow
  <2> QED BY <2>1, <2>2, <2>3
<1>11. \A i \in {k - 1, k, k + 1} : i \div RowSize = k \div RowSize
  BY <1>10
<1>12. g.div = d /\ g.pass = pass /\ g.hcycle = k \div RowSize
       /\ g.delay = k % RowSize
  BY <1>0 DEF k
<1>13. PICK i \in {k - 1, k, k + 1} : i % RowSize = t
  <2>1. (k - 1) % RowSize = (k % RowSize) - 1
    BY ONLY <1>1, <1>7, <1>10
  <2> QED BY <1>10, <1>12, <2>1
<1> QED
  <2>1. p(i) = <<g.hcycle, t>> /\ q(i) = <<TestedCycle(g.div, g.hcycle), t>>
    BY <1>11, <1>12, <1>13 DEF q
  <2> QED BY <1>8, <1>12, <1>13, <2>1

-----------------------------------------------------------------------------
\* The steps.

(* What the calls ask for: only block calls have these operations.         *)
LEMMA FirstCommandIs ==
  ASSUME NEW c \in Calls
  PROVE  /\ FirstCommand(c.op) = "READ" => c.op = "read"
         /\ FirstCommand(c.op) # "PP"
         /\ FirstCommand(c.op) = "read_init" => c.op = "read_init"
  BY DEF Calls, BlockCalls, OtherCalls, RawCommands, FirstCommand

(* A block call starts or is refused before it does anything.              *)
LEMMA BlockCallIs ==
  ASSUME TypeInv, BlockCall
  PROVE  \E v \in Devices, c \in BlockCalls :
           /\ Begin(v, c)
           /\ \/ Start /\ InBounds(c) /\ Looked(c)
              \/ pc' = "done" /\ ret' \in Refusals
<1>1. PICK v \in blk, c \in BlockCalls :
        /\ Begin(v, c)
        /\ CASE ~InBounds(c) -> pc' = "done" /\ ret' = "OutOfBounds"
             [] InBounds(c) /\ c.op = "program" /\ ~c.aligned ->
                  pc' = "done" /\ ret' = "ProgramError"
             [] OTHER -> Start /\ Looked(c)
  BY Zenon DEF BlockCall, Looked
<1>2. v \in Devices
  BY DEF TypeInv
<1>3. CASE ~InBounds(c)
  BY <1>1, <1>2, <1>3 DEF Refusals
<1>4. CASE InBounds(c) /\ c.op = "program" /\ ~c.aligned
  BY <1>1, <1>2, <1>4 DEF Refusals
<1>5. CASE InBounds(c) /\ ~(c.op = "program" /\ ~c.aligned)
  BY <1>1, <1>2, <1>5
<1> QED BY <1>3, <1>4, <1>5

(* The types hold at first and whatever is called.                         *)
LEMMA InitType == Init => TypeInv
  BY ConfFacts DEF Init, TypeInv, CS, Pcs

(* A new call is one of a device that may be used.                         *)
LEMMA CallType ==
  ASSUME TypeInv, BlockCall \/ OtherCall
  PROVE  TypeInv'
<1>1. PICK v \in Devices, c \in Calls : Begin(v, c) /\ pc' \in {"config", "done"}
  BY DEF BlockCall, OtherCall, TypeInv, Calls, Start
<1>2. /\ conf' = conf /\ cur' = cur /\ blk' = blk /\ idx' = 0
      /\ dev' = v /\ call' = c /\ cmd' = FirstCommand(c.op) /\ Usable(v)
  BY <1>1 DEF Begin, controller
<1>3. Usable(dev)'
  BY <1>2 DEF Usable
<1> QED
  BY <1>1, <1>2, <1>3, FirstCommandIs DEF TypeInv, Pcs

(* The call of a step that keeps it.                                       *)
LEMMA SameCall ==
  ASSUME TypeInv, conf' = conf, dev' = dev, call' = call, pc # "new", pc # "idle",
         cur' \in CS /\ cur' < conf.max_cs, blk' \subseteq Devices,
         pc' \in Pcs \ {"new", "idle"}, idx' \in Nat,
         cmd' = "READ" => call.op = "read",
         cmd' = "PP" => call.op = "program",
         cmd' = "read_init" => call.op = "read_init",
         pc' = "bus" => cur' = dev.cs, pc' = "sweep" => idx' <= 4
  PROVE  TypeInv'
<1>1. Usable(dev)' <=> Usable(dev)
  BY DEF Usable
<1> QED
  BY <1>1 DEF TypeInv

(* One case for every action: the call keeps its device and command.       *)
LEMMA TypeStep ==
  ASSUME TypeInv, Next
  PROVE  TypeInv'
<1> USE DEF controller, switch, request, Leave, Return, Pcs
<1>1. CASE BlockCall \/ OtherCall
  BY <1>1, CallType
<1>2. CASE FmcInit \/ SpiInit
  BY <1>2 DEF FmcInit, SpiInit, ControllerInit, TypeInv
<1>3. CASE Select
  BY <1>3, SameCall, FlashAssumption DEF Select, TypeInv
<1>4. CASE Deconfig
  BY <1>4, SameCall DEF Deconfig, TypeInv
<1>5. CASE Transceive
  <2>1. UNCHANGED <<conf, cur, blk, idx, request, cmd>> /\ pc = "bus" /\ pc' = "deconfig"
    BY <1>5 DEF Transceive
  <2> QED BY <2>1, SameCall DEF TypeInv
<1>6. CASE TransferInPlace
  BY <1>6, SameCall DEF TransferInPlace, TypeInv
<1>7. CASE Continue
  <2>1. /\ pc = "next" /\ blk' = blk /\ UNCHANGED <<conf, cur>>
        /\ UNCHANGED request /\ pc' \in {"config", "done"} /\ idx' \in Nat
        /\ \/ cmd' = cmd
           \/ cmd' \in {"WREN", "SE", "RDSR"}
           \/ cmd' = "PP" /\ call.op = "program"
    BY <1>7 DEF Continue, AfterWriteEnable, AfterWrite, AfterStatus, GoOn, TypeInv
  <2> QED BY <2>1, SameCall DEF TypeInv
<1>8. CASE FromJedecId
  BY <1>8, SameCall DEF FromJedecId, TypeInv
<1>9. CASE Finish
  BY <1>9 DEF Finish, TypeInv
<1>10. CASE FmcReadInit \/ SpiReadInit
  <2>1. UNCHANGED <<conf, cur, blk, idx, request, cmd>> /\ pc = "config"
        /\ pc' \in {"deconfig", "load"}
    BY <1>10 DEF FmcReadInit, SpiReadInit, ReadInit
  <2> QED BY <2>1, SameCall DEF TypeInv
<1>11. CASE LoadCalibrationData
  BY <1>11, SameCall DEF LoadCalibrationData, TypeInv, calibrationFrame
<1>12. CASE FmcSweep \/ SpiSweep
  <2>1. UNCHANGED <<conf, cur, blk, request, cmd>> /\ pc = "sweep"
        /\ pc' \in {"deconfig", "sweep"} /\ idx' \in {idx, idx + 1}
        /\ (pc' = "sweep" => idx # 4)
    BY <1>12 DEF FmcSweep, SpiSweep, Sweep, calibrationFrame
  <2>2. idx' \in Nat /\ (pc' = "sweep" => idx' <= 4)
    <3>1. idx \in Nat /\ idx <= 4
      BY <2>1 DEF TypeInv
    <3> QED BY ONLY <2>1, <3>1
  <2> QED BY <2>1, <2>2, SameCall DEF TypeInv
<1>13. CASE Engine \/ Chip
  <2>1. UNCHANGED <<conf, cur, blk, driver>>
    BY <1>13 DEF Engine, DmaFinishes, FmcInterrupt, SpiInterrupt, HandleInterrupt,
                 Chip, ChipReady
  <2> QED BY <2>1 DEF TypeInv, driver, Usable
<1> QED
  BY <1>1, <1>2, <1>3, <1>4, <1>5, <1>6, <1>7, <1>8, <1>9, <1>10, <1>11, <1>12, <1>13
     DEF Next, Driver

(* The switch moves to the device before a transfer, and back after it.    *)
LEMMA PreConfigSwitch ==
  ASSUME SwitchInv, conf \in Configs, conf' = conf, dev' = dev,
         dev \in Devices, Usable(dev), PreConfig(dev)
  PROVE  /\ mux' \in 0 .. 4 /\ (conf.master_idx = 0 => mux' = 0)
         /\ pin' \in [Monitors -> BOOLEAN] /\ gpio' \in [Monitors -> BOOLEAN]
         /\ conf.master_idx # 0 => mux' = dev.spim + 1
         /\ mux' # 0 => \A i \in Monitors \ {mux' - 1} : ~pin'[i] /\ ~gpio'[i]
<1>1. dev.spim \in -1 .. 3
  BY FlashAssumption
<1>2. mux' \in 0 .. 4 /\ (conf.master_idx = 0 => mux' = 0)
      /\ (conf.master_idx # 0 => mux' = dev.spim + 1)
      /\ (mux' # 0 => dev.spim # -1)
  BY <1>1 DEF SwitchInv, PreConfig, Switched, Usable
<1>3. pin' \in [Monitors -> BOOLEAN] /\ gpio' \in [Monitors -> BOOLEAN]
  BY Zenon DEF PreConfig, SwitchInv
<1>4. mux' # 0 => \A i \in Monitors \ {mux' - 1} : ~pin'[i] /\ ~gpio'[i]
  <2>1. ASSUME mux' # 0
        PROVE  /\ pin' = [i \in Monitors |-> i = mux' - 1 /\ pin[i]]
               /\ gpio' = [i \in Monitors |-> i = mux' - 1 /\ gpio[i]]
    BY <1>2, <2>1 DEF PreConfig
  <2> QED BY <2>1
<1> QED
  BY <1>2, <1>3, <1>4

(* Only the begin and the end of a transfer move the switch.               *)
LEMMA SwitchStep ==
  ASSUME TypeInv, SwitchInv, Next
  PROVE  SwitchInv'
<1> USE DEF controller, switch, request, Leave, Return
<1>1. CASE BlockCall \/ OtherCall
  <2>1. UNCHANGED <<conf, switch>> /\ pc' \in {"config", "done"}
    BY <1>1 DEF BlockCall, OtherCall, Begin, Start
  <2> QED BY <2>1 DEF SwitchInv
<1>2. CASE FmcInit \/ SpiInit
  BY <1>2 DEF FmcInit, SpiInit, ControllerInit, SwitchInv
<1>3. CASE Select
  <2>1. CASE UNCHANGED switch /\ pc' # "bus"
    BY <1>3, <2>1 DEF Select, SwitchInv
  <2>2. CASE PreConfig(dev)
    <3>1. conf \in Configs /\ conf' = conf /\ dev' = dev /\ dev \in Devices /\ Usable(dev)
      BY <1>3 DEF Select, TypeInv
    <3> QED BY <2>2, <3>1, PreConfigSwitch DEF SwitchInv
  <2> QED BY <1>3, <2>1, <2>2 DEF Select
<1>4. CASE Deconfig
  <2>1. conf' = conf /\ PostConfig(dev) /\ pc' \in {"next", "done"}
    BY <1>4 DEF Deconfig
  <2>2. mux' \in {0, mux} /\ pin' \in [Monitors -> BOOLEAN] /\ gpio' \in [Monitors -> BOOLEAN]
    BY <2>1, Zenon DEF PostConfig, SwitchInv
  <2> QED BY <2>1, <2>2 DEF SwitchInv
<1>5. CASE Transceive
  BY <1>5 DEF Transceive, SwitchInv
<1>6. CASE TransferInPlace
  BY <1>6 DEF TransferInPlace, SwitchInv
<1>7. CASE Continue
  <2>1. UNCHANGED <<conf, switch>> /\ pc' \in {"config", "done"}
    BY <1>7 DEF Continue, AfterWriteEnable, AfterWrite, AfterStatus, GoOn
  <2> QED BY <2>1 DEF SwitchInv
<1>8. CASE FromJedecId
  BY <1>8 DEF FromJedecId, SwitchInv
<1>9. CASE Finish
  BY <1>9 DEF Finish, SwitchInv
<1>10. CASE FmcReadInit \/ SpiReadInit
  <2>1. /\ conf \in Configs /\ conf' = conf /\ dev' = dev /\ dev \in Devices
        /\ Usable(dev) /\ PreConfig(dev)
    BY <1>10 DEF FmcReadInit, SpiReadInit, ReadInit, TypeInv
  <2> QED BY <2>1, PreConfigSwitch DEF SwitchInv
<1>11. CASE LoadCalibrationData
  BY <1>11 DEF LoadCalibrationData, SwitchInv, calibrationFrame
<1>12. CASE FmcSweep \/ SpiSweep
  <2>1. UNCHANGED <<conf, switch, dev>> /\ pc = "sweep"
    BY <1>12 DEF FmcSweep, SpiSweep, Sweep, calibrationFrame
  <2> QED BY <2>1 DEF SwitchInv
<1>13. CASE Engine \/ Chip
  <2>1. UNCHANGED <<conf, switch, driver>>
    BY <1>13 DEF Engine, DmaFinishes, FmcInterrupt, SpiInterrupt, HandleInterrupt,
                 Chip, ChipReady
  <2> QED BY <2>1 DEF SwitchInv, driver
<1> QED
  BY <1>1, <1>2, <1>3, <1>4, <1>5, <1>6, <1>7, <1>8, <1>9, <1>10, <1>11, <1>12, <1>13
     DEF Next, Driver

(* Only the two decode_range functions write a window.                     *)
LEMMA WindowsStep ==
  ASSUME TypeInv, WindowsInv, Next
  PROVE  WindowsInv'
<1> USE DEF controller
<1>1. conf \in Configs
  BY DEF TypeInv
<1>2. CASE FmcInit \/ SpiInit
  BY <1>1, <1>2, FmcInitWindows, SpiInitWindows
<1>3. CASE FmcReadInit \/ SpiReadInit
  <2>1. conf' = conf /\ pc # "new" /\ cur \in CS /\ cur < conf.max_cs
    BY <1>3 DEF FmcReadInit, SpiReadInit, ReadInit, TypeInv
  <2>2. Reinit(call.size) \/ UNCHANGED <<dec, seg>>
    BY <1>3 DEF FmcReadInit, SpiReadInit, ReadInit
  <2>3. call.size \in FlashSizes
    <3>1. call \in Calls /\ call.op = "read_init"
      BY <1>3 DEF FmcReadInit, SpiReadInit, ReadInit, TypeInv
    <3> QED BY <3>1 DEF Calls, BlockCalls, OtherCalls, RawCommands
  <2> QED BY <1>1, <2>1, <2>2, <2>3, ReinitWindows, SameWindows
<1>4. CASE UNCHANGED <<conf, dec, seg>> /\ (pc # "new" \/ pc' = "new")
  BY <1>4, SameWindows
<1>5. \/ UNCHANGED <<conf, dec, seg>> /\ (pc # "new" \/ pc' = "new")
      \/ FmcInit \/ SpiInit \/ FmcReadInit \/ SpiReadInit
  <2>1. CASE BlockCall \/ OtherCall
    BY <2>1 DEF BlockCall, OtherCall, Begin
  <2>2. CASE Engine \/ Chip
    BY <2>2 DEF Engine, DmaFinishes, FmcInterrupt, SpiInterrupt, HandleInterrupt,
                Chip, ChipReady, driver
  <2>3. CASE Driver
    BY <2>3 DEF Driver, Select, Deconfig, Transceive, TransferInPlace, Continue,
                FromJedecId, Finish, LoadCalibrationData, calibrationFrame,
                FmcSweep, SpiSweep, Sweep
  <2> QED BY <2>1, <2>2, <2>3 DEF Next
<1> QED
  BY <1>2, <1>3, <1>4, <1>5

(* A clock for a frequency that is not too high leaves the clocks right.   *)
LEMMA ClockApplied ==
  ASSUME ClockInv, NEW f \in Nat, conf.frequency = f, NEW max \in Nat, max <= f,
         NEW k \in CS
  PROVE  LET clocks == [clk EXCEPT ![k] = FreqDiv(max)]
         IN /\ clocks \in [CS -> 0 .. 240]
            /\ \A c \in CS : clocks[c] # 0 => Hclk \div clocks[c] <= f
<1> DEFINE n == FreqDiv(max)
<1>1. n \in 2 .. 240 /\ Hclk \div n <= max
  BY DivisorFits
<1> HIDE DEF n
<1>2. Hclk \div n \in Nat
  BY <1>1 DEF Hclk
<1>3. n \in 0 .. 240 /\ Hclk \div n <= f
  BY <1>1, <1>2
<1>4. clk \in [CS -> 0 .. 240] /\ \A c \in CS : clk[c] # 0 => Hclk \div clk[c] <= f
  BY DEF ClockInv, CalibrationSound
<1>5. /\ [clk EXCEPT ![k] = n] \in [CS -> 0 .. 240]
      /\ \A c \in CS : [clk EXCEPT ![k] = n][c] = IF c = k THEN n ELSE clk[c]
  BY <1>3, <1>4
<1> QED
  BY <1>3, <1>4, <1>5 DEF n

(* Only the calibration and the clock calls write a divisor.               *)
LEMMA ClockStep ==
  ASSUME TypeInv, ClockInv, Next
  PROVE  ClockInv'
<1> USE DEF controller
<1>1. conf.frequency \in Nat /\ conf.frequency <= conf.frequency
  BY ConfFacts DEF TypeInv
<1>a. pc \notin {"new", "idle"} => dev.cs \in CS
  BY FlashAssumption DEF TypeInv
<1>3. CASE FmcReadInit \/ SpiReadInit
  <2>1. conf' = conf /\ grid' = grid /\ dev.cs \in CS
    BY <1>3, <1>a DEF FmcReadInit, SpiReadInit, ReadInit
  <2>2. \/ clk' = [clk EXCEPT ![dev.cs] = FreqDiv(conf.frequency)]
        \/ clk' = [clk EXCEPT ![dev.cs] = 0]
    BY <1>3 DEF FmcReadInit, SpiReadInit, ReadInit
  <2>3. CASE clk' = [clk EXCEPT ![dev.cs] = FreqDiv(conf.frequency)]
    BY <1>1, <2>1, <2>3, ClockApplied DEF ClockInv, CalibrationSound
  <2>4. CASE clk' = [clk EXCEPT ![dev.cs] = 0]
    BY <2>1, <2>4 DEF ClockInv, CalibrationSound
  <2> QED BY <2>2, <2>3, <2>4
<1>4. CASE LoadCalibrationData
  <2>1. conf' = conf /\ grid' = grid /\ dev.cs \in CS
    BY <1>4, <1>a DEF LoadCalibrationData, calibrationFrame
  <2>2. CASE clk' = clk
    BY <2>1, <2>2 DEF ClockInv, CalibrationSound
  <2>3. CASE ApplyClock(conf.frequency)
    BY <1>1, <2>1, <2>3, ClockApplied DEF ApplyClock, ClockInv, CalibrationSound
  <2> QED BY <1>4, <2>2, <2>3 DEF LoadCalibrationData
<1>5. CASE FmcSweep \/ SpiSweep
  <2>1. conf' = conf /\ dev.cs \in CS /\ idx \in Nat /\ Sweep
    BY <1>5, <1>a DEF FmcSweep, SpiSweep, Sweep, calibrationFrame, TypeInv
  <2>1a. idx # 4 => idx \in 0 .. 3
    BY <2>1 DEF Sweep, TypeInv
  <2>2. CASE UNCHANGED <<clk, grid>>
    BY <2>1, <2>2 DEF ClockInv, CalibrationSound
  <2>3. CASE ApplyClock(conf.frequency) /\ grid' = grid
    BY <1>1, <2>1, <2>3, ClockApplied DEF ApplyClock, ClockInv, CalibrationSound
  <2>4. ASSUME ~(conf.frequency < Hclk \div (idx + 2)), ApplyClock(Hclk \div (idx + 2)),
               idx # 4, grid' \in Found[idx]
        PROVE  ClockInv'
    <3>1. Hclk \div (idx + 2) \in Nat /\ Hclk \div (idx + 2) <= conf.frequency
      BY <1>1, <2>1, <2>4 DEF Hclk
    <3>2. /\ clk' \in [CS -> 0 .. 240]
          /\ \A k \in CS : clk'[k] # 0 => Hclk \div clk'[k] <= conf.frequency
      BY <1>1, <2>1, <2>4, <3>1, ClockApplied DEF ApplyClock
    <3>7. \A t \in {grid'.delay - 1, grid'.delay, grid'.delay + 1} :
            /\ <<grid'.hcycle, t>> \in Points
            /\ grid'.pass[<<TestedCycle(grid'.div, grid'.hcycle), t>>]
      BY <2>1a, <2>4, PickIsSound
    <3> QED BY <2>1, <3>2, <3>7 DEF ClockInv, CalibrationSound
  <2> QED BY <2>1, <2>2, <2>3, <2>4 DEF Sweep
<1>6. CASE UNCHANGED <<conf, clk>> /\ (grid' = grid \/ grid' = NoGrid)
  BY <1>6 DEF ClockInv, CalibrationSound
<1>7. \/ UNCHANGED <<conf, clk>> /\ (grid' = grid \/ grid' = NoGrid)
      \/ FmcReadInit \/ SpiReadInit \/ LoadCalibrationData \/ FmcSweep \/ SpiSweep
  BY DEF Next, Driver, BlockCall, OtherCall, Begin, Select, Deconfig, Transceive,
         TransferInPlace, Continue, FromJedecId, Finish, FmcInit, SpiInit,
         ControllerInit, Engine, DmaFinishes,
         FmcInterrupt, SpiInterrupt, HandleInterrupt, Chip, ChipReady, driver
<1> QED
  BY <1>3, <1>4, <1>5, <1>6, <1>7

(* The four parts together are inductive.                                  *)
LEMMA FlashInit == Init => FlashInv
<1> SUFFICES ASSUME Init PROVE FlashInv
  OBVIOUS
<1>1. Used = {}
  BY DEF Init, Used
<1>2. WindowsInv
  BY <1>1 DEF Init, WindowsInv, WindowsSound, NoWindow, NoSeg, CS
<1>3. SwitchInv
  BY DEF Init, SwitchInv
<1>4. ClockInv
  BY DEF Init, ClockInv, CalibrationSound
<1> QED
  BY <1>2, <1>3, <1>4, InitType DEF FlashInv

(* Each part is kept by the lemma of its name.                             *)
LEMMA FlashStep == FlashInv /\ [Next]_vars => FlashInv'
<1>1. ASSUME FlashInv, UNCHANGED vars PROVE FlashInv'
  BY <1>1 DEF FlashInv, TypeInv, SwitchInv, WindowsInv, WindowsSound, ClockInv,
              CalibrationSound, vars, controller, switch, driver, request, Used,
              Usable, Segment, Floor, Granule
<1>2. ASSUME FlashInv, Next PROVE FlashInv'
  BY <1>2, TypeStep, SwitchStep, WindowsStep, ClockStep DEF FlashInv
<1> QED
  BY <1>1, <1>2

(* So they hold in every state of every behaviour.                         *)
LEMMA FlashInvariant == Spec => []FlashInv
  BY FlashInit, FlashStep, PTL DEF Spec

-----------------------------------------------------------------------------
\* Calls of the block device.

BlockOps == {"program", "erase", "read"}
CommandsOf(op) ==
  CASE op = "program" -> {"WREN", "PP", "RDSR"}
    [] op = "erase" -> {"WREN", "SE", "RDSR"}
    [] op = "read" -> {"READ"}
    [] OTHER -> {op}
ChipType == [wel : BOOLEAN, busy : BOOLEAN, mem : [Pages -> Int]]
Working == pc \notin {"new", "idle"} /\ call.op \in BlockOps

\* What a call of the block device may rely on at each place.
AtWork ==
  /\ idx < call.n /\ pc \notin {"load", "sweep"}
  /\ pc # "done" => InBounds(call) /\ Looked(call)
  /\ pc \in {"bus", "deconfig", "next"} \/ (pc = "done" /\ ret = "Ok")
       => fault \/ cur = dev.cs
  /\ call.op = "erase" /\ ~call.aligned => idx = 0 /\ cmd = "WREN"
  /\ pc = "done" => ret \in Refusals \cup {"Ok"} \/ call.op = "erase"
CallInv ==
  /\ chips \in [AllChips -> ChipType] /\ ncalls \in Nat /\ fault \in BOOLEAN
  /\ pc \notin {"new", "idle"} =>
       before \in [AllChips -> ChipType] /\ cmd \in CommandsOf(call.op)
  /\ Working => AtWork

\* Only the chip of a call is busy, and the call looks before it goes on.
BusyInv ==
  \A n \in AllChips : chips[n].busy =>
    /\ pc \notin {"new", "idle", "done"}
    /\ n = ChipOf(dev) /\ dev.cs < conf.max_cs
    /\ \/ cmd \in {"PP", "SE"} /\ pc \in {"deconfig", "next"}
       \/ cmd = "RDSR" /\ (pc \in {"config", "bus"} \/ rx = Busy)

\* A program or an erase finds writes enabled.
WelInv ==
  /\ Working
  /\ \/ cmd = "WREN" /\ pc \in {"deconfig", "next"}
     \/ cmd \in {"PP", "SE"} /\ pc \in {"config", "bus"}
  => fault \/ chips[ChipOf(dev)].wel

\* How many pages or sectors are written, and what the chips hold then.
Done ==
  IF call.op = "read" THEN 0
  ELSE IF pc = "done" THEN IF ret = "Ok" THEN call.n ELSE 0
  ELSE IF cmd = "RDSR" \/ (cmd \in {"PP", "SE"} /\ pc \in {"deconfig", "next"})
  THEN idx + 1 ELSE idx
Covers(c, d, p) == \E i \in 0 .. d - 1 :
  IF c.op = "erase" THEN p \div PagesPerSector = c.at + i ELSE p = c.at + i
New(n, p) ==
  IF call.op = "erase" THEN Blank
  ELSE Programmed(before[n].mem[p], [data |-> ncalls])
Held(n, p) ==
  IF n = ChipOf(dev) /\ Covers(call, Done, p) THEN New(n, p) ELSE before[n].mem[p]
Content == \A n \in AllChips, p \in Pages : chips[n].mem[p] = Held(n, p)

\* What OkMeansDone excuses, said of the window of the device.
Lost ==
  \/ fault
  \/ call.op = "erase" /\ call.at + call.n > Sz16M
  \/ /\ conf.dma /\ ~conf.pure_spi_mode_only
     /\ call.op = "read" \/ (call.op = "program" /\ conf.dma_write)
     /\ SectorOf(call, call.n - 1) >= dec[dev.cs].len
Answered ==
  call.op = "read" /\ (pc \in {"deconfig", "next"} \/ (pc = "done" /\ ret = "Ok"))
    => Lost \/ conf.irq \/ rx = chips[ChipOf(dev)].mem[call.at]
OutOfReach == pc = "done" /\ ret \in Refusals
ContentInv ==
  Working => ((Lost /\ ~OutOfReach) \/ Content) /\ Answered

-----------------------------------------------------------------------------
(* A page is in the sector its number is in, and sectors are numbers too.  *)
LEMMA SectorFacts ==
  /\ \A p \in Pages : p \in Nat /\ p \div PagesPerSector \in Nat
  /\ \A s \in Sectors : s \in Nat
  /\ \A s \in Nat : s * PagesPerSector \in Nat /\ (s * PagesPerSector) \div PagesPerSector = s
<1>1. \A a, b \in Nat : b # 0 => a \div b \in Nat
  BY SMT
<1>2. \A a, b \in Nat : a * b \in Nat
  BY SMT
<1>3. \A a, b \in Nat : b # 0 => (a * b) \div b = a
  <2>1. \A a, b, q, r \in Nat : a * b = b * q + r /\ r < b => q = a
    <3>1. \A b, d, r \in Int : b > 0 /\ r >= 0 /\ r < b /\ b * d = r => d = 0
      BY SMTT(30)
    <3>2. SUFFICES ASSUME NEW a \in Nat, NEW b \in Nat, NEW q \in Nat, NEW r \in Nat,
                          a * b = b * q + r, r < b
                   PROVE  q = a
      OBVIOUS
    <3>3. b * (a - q) = r
      BY <3>2, SMTT(30)
    <3> QED BY <3>1, <3>2, <3>3
  <2>2. \A x, b \in Nat : b # 0 => x = b * (x \div b) + (x % b) /\ x % b \in Nat /\ x % b < b
    BY SMT
  <2> QED BY <1>1, <1>2, <2>1, <2>2
<1> QED
  BY <1>1, <1>2, <1>3, FlashAssumption DEF Sectors

(* The call of the block device under way.                                 *)
LEMMA BlockFacts ==
  ASSUME TypeInv, Working
  PROVE  /\ call \in BlockCalls /\ call.at \in Nat /\ call.n \in {1, 2}
         /\ call.op = "read" => call.n = 1
         /\ dev \in Devices /\ Usable(dev) /\ conf \in Configs /\ idx \in Nat
<1>1. call \in BlockCalls
  BY DEF TypeInv, Working, BlockOps, Calls, BlockCalls, OtherCalls, RawCommands
<1> QED
  BY <1>1, SectorFacts DEF BlockCalls, TypeInv, Working

(* Chips keep their names while the configuration stays.                   *)
LEMMA ChipNames ==
  /\ TypeInv /\ pc \notin {"new", "idle"} => ChipOf(dev) \in AllChips
  /\ conf' = conf => AllChips' = AllChips
  /\ conf' = conf /\ dev' = dev => ChipOf(dev)' = ChipOf(dev)
  BY DEF TypeInv, AllChips, ChipOf, Usable

(* What hears a transfer: the chip of the device, except where a DMA       *)
(* leaves the window or times out.                                         *)
LEMMA TransferHeard ==
  ASSUME TypeInv, SwitchInv, WindowsInv, Transceive
  PROVE  \/ fault' = TRUE /\ chips' = chips /\ rx' = rx /\ CanDma
         \/ /\ fault' = fault
            /\ \E heard :
                 /\ Exchange(heard)
                 /\ cmd # "READ" => heard \subseteq {ChipOf(dev)}
                 /\ \/ heard = {ChipOf(dev)}
                    \/ CanDma /\ ~(SectorOf(call, idx) < dec[dev.cs].len)
<1>1. /\ pc = "bus" /\ cur = dev.cs
      /\ RightChip
      /\ conf.master_idx # 0 => mux = dev.spim + 1
  BY ChipIsRight DEF Transceive, TypeInv, SwitchInv
<1>2. ChipOf(dev)[1] = cur
  BY <1>1 DEF ChipOf
<1>3. Heard(dec[cur].start) = {ChipOf(dev)}
  BY <1>1 DEF RightChip
<1>4. CASE UserTransfer
  <2>1. {n \in Heard(dec[cur].start) : n[1] = cur} = {ChipOf(dev)}
    BY <1>2, <1>3
  <2> QED BY <1>4, <2>1 DEF UserTransfer
<1>5. CASE DmaTransfer
  <2> DEFINE heard == {n \in Heard(DmaAddress) : cmd = "PP" => n[1] = cur}
  <2>1. CanDma /\ cmd \in {"READ", "PP"}
    BY <1>5 DEF DmaTransfer, CanDma
  <2>2. CASE fault' = TRUE /\ chips' = chips /\ rx' = rx
    BY <2>1, <2>2
  <2>3. CASE Exchange(heard) /\ fault' = fault
    <3>1. ASSUME cmd # "READ" PROVE heard \subseteq {ChipOf(dev)}
      BY <1>1, <2>1, <3>1 DEF Heard, ChipOf
    <3>2. ASSUME SectorOf(call, idx) < dec[dev.cs].len PROVE heard = {ChipOf(dev)}
      BY <1>1, <1>2, <2>1, <3>2 DEF RightChip
    <3> HIDE DEF heard
    <3> QED BY <2>1, <2>3, <3>1, <3>2
  <2> QED BY <1>5, <2>2, <2>3 DEF DmaTransfer
<1> QED
  BY <1>4, <1>5 DEF Transceive, FmcUser, FmcDma, SpiUser, SpiDma

(* What a chip does with a command.                                        *)
LEMMA TakeFacts ==
  ASSUME NEW chip \in ChipType, NEW c, c.data \in Int
  PROVE  /\ Take(chip, c) \in ChipType
         /\ chip.busy => Take(chip, c) = chip
         /\ c.op = "WREN" /\ ~chip.busy => Take(chip, c).wel
         /\ c.op \notin {"PP", "SE"}
              => Take(chip, c).busy = chip.busy /\ Take(chip, c).mem = chip.mem
         /\ c.op \in {"READ", "RDSR"} => Take(chip, c) = chip
         /\ c.op \in {"PP", "SE"} /\ ~chip.wel => Take(chip, c) = chip
         /\ c.op = "PP" /\ ~chip.busy /\ chip.wel => \A p \in Pages :
              Take(chip, c).mem[p]
                = IF p = c.page THEN Programmed(chip.mem[p], c) ELSE chip.mem[p]
         /\ c.op = "SE" /\ ~chip.busy /\ chip.wel => \A p \in Pages :
              Take(chip, c).mem[p]
                = IF p \div PagesPerSector = c.page \div PagesPerSector
                  THEN Blank ELSE chip.mem[p]
<1>1. CASE chip.busy
  BY <1>1 DEF Take
<1>2. CASE ~chip.busy /\ c.op \in {"WREN", "WRDI", "RST"}
  <2>1. \E b \in BOOLEAN : Take(chip, c) = [chip EXCEPT !.wel = b]
    BY <1>2 DEF Take
  <2>2. c.op = "WREN" => Take(chip, c) = [chip EXCEPT !.wel = TRUE]
    BY <1>2 DEF Take
  <2> QED BY <1>2, <2>1, <2>2 DEF ChipType
<1>3. CASE ~chip.busy /\ c.op = "PP" /\ chip.wel
  <2>1. Take(chip, c) = [chip EXCEPT !.busy = TRUE, !.mem[c.page] = Programmed(@, c)]
    BY <1>3 DEF Take
  <2>2. Take(chip, c).mem = [chip.mem EXCEPT ![c.page] = Programmed(@, c)]
    BY <2>1 DEF ChipType
  <2>3. \A x : Programmed(x, c) \in Int
    BY DEF Programmed, Mixed
  <2>4. Take(chip, c).mem \in [Pages -> Int]
    <3>1. chip.mem \in [Pages -> Int]
      BY DEF ChipType
    <3>2. \A m \in [Pages -> Int], v \in Int : \A x : [m EXCEPT ![x] = v] \in [Pages -> Int]
      OBVIOUS
    <3> QED BY <2>2, <2>3, <3>1, <3>2
  <2>5. Take(chip, c) \in ChipType
    BY <2>1, <2>4 DEF ChipType
  <2>6. \A p \in Pages : Take(chip, c).mem[p]
          = IF p = c.page THEN Programmed(chip.mem[p], c) ELSE chip.mem[p]
    BY <2>2 DEF ChipType
  <2> QED BY <1>3, <2>5, <2>6
<1>4. CASE ~chip.busy /\ c.op = "SE" /\ chip.wel
  <2> DEFINE m == [p \in Pages |-> IF p \div PagesPerSector
                                        = c.page \div PagesPerSector
                                   THEN Blank ELSE chip.mem[p]]
  <2>1. Take(chip, c) = [chip EXCEPT !.busy = TRUE, !.mem = m]
    BY <1>4 DEF Take
  <2>2. m \in [Pages -> Int]
    BY DEF ChipType, Blank
  <2>3. Take(chip, c).mem = m /\ Take(chip, c) \in ChipType
    BY <2>1, <2>2 DEF ChipType
  <2> QED BY <1>4, <2>3
<1>5. CASE ~chip.busy /\ \/ c.op \notin {"WREN", "WRDI", "RST", "PP", "SE"}
                         \/ c.op \in {"PP", "SE"} /\ ~chip.wel
  <2>1. Take(chip, c) = chip
    BY <1>5 DEF Take
  <2> QED BY <1>5, <2>1
<1> QED
  BY <1>1, <1>2, <1>3, <1>4, <1>5

(* So a transfer moves the chip of the device and no other, by the command *)
(* of the call; unless the call is excused.                                *)
LEMMA TransferMoves ==
  ASSUME TypeInv, CallInv, SwitchInv, WindowsInv, Transceive
  PROVE  /\ chips' \in [AllChips -> ChipType] /\ fault' \in {fault, TRUE}
         /\ \A n \in AllChips : n # ChipOf(dev) => chips'[n] = chips[n]
         /\ chips'[ChipOf(dev)]
              \in {chips[ChipOf(dev)], Take(chips[ChipOf(dev)], Given)}
         /\ cmd \in {"READ", "RDSR"} => chips' = chips
         /\ \/ fault' = TRUE /\ CanDma
            \/ /\ chips'[ChipOf(dev)] = Take(chips[ChipOf(dev)], Given)
               /\ rx' = IF cmd \in {"RDSR", "READ", "RDID"}
                        THEN Answer({ChipOf(dev)}) ELSE rx
            \/ CanDma /\ ~(SectorOf(call, idx) < dec[dev.cs].len)
<1>1. /\ chips \in [AllChips -> ChipType]
      /\ Given.op = cmd /\ Given.data \in Int
      /\ ChipOf(dev) \in AllChips
  BY ChipNames DEF CallInv, Given, Transceive
<1>2. CASE fault' = TRUE /\ chips' = chips /\ CanDma
  BY <1>1, <1>2
<1>3. ASSUME fault' = fault, NEW heard, Exchange(heard),
             cmd # "READ" => heard \subseteq {ChipOf(dev)},
             \/ heard = {ChipOf(dev)}
             \/ CanDma /\ ~(SectorOf(call, idx) < dec[dev.cs].len)
      PROVE  /\ chips' \in [AllChips -> ChipType] /\ fault' \in {fault, TRUE}
             /\ \A n \in AllChips : n # ChipOf(dev) => chips'[n] = chips[n]
             /\ chips'[ChipOf(dev)]
                  \in {chips[ChipOf(dev)], Take(chips[ChipOf(dev)], Given)}
             /\ cmd \in {"READ", "RDSR"} => chips' = chips
             /\ heard = {ChipOf(dev)} =>
                  /\ chips'[ChipOf(dev)] = Take(chips[ChipOf(dev)], Given)
                  /\ rx' = IF cmd \in {"RDSR", "READ", "RDID"}
                           THEN Answer({ChipOf(dev)}) ELSE rx
  <2>1. /\ chips' = [n \in AllChips |-> IF n \in heard THEN Take(chips[n], Given)
                                        ELSE chips[n]]
        /\ rx' = IF cmd \in {"RDSR", "READ", "RDID"} THEN Answer(heard) ELSE rx
    BY <1>1, <1>3 DEF Exchange
  <2>2. \A n \in AllChips :
          /\ Take(chips[n], Given) \in ChipType
          /\ cmd \in {"READ", "RDSR"} => Take(chips[n], Given) = chips[n]
    BY <1>1, TakeFacts
  <2> QED BY <1>1, <1>3, <2>1, <2>2
<1> QED
  BY <1>2, <1>3, TransferHeard

-----------------------------------------------------------------------------
\* What a call of the block device may rely on.

(* The first command of a call is one of its commands.                     *)
LEMMA FirstOf ==
  ASSUME NEW op
  PROVE  /\ FirstCommand(op) \in CommandsOf(op)
         /\ op = "erase" => FirstCommand(op) = "WREN"
  BY DEF FirstCommand, CommandsOf

(* A step of the call under way that keeps what the call is.               *)
LEMMA SameBlock ==
  ASSUME TypeInv, CallInv, pc \notin {"new", "idle"}, conf' = conf,
         UNCHANGED <<request, before, ncalls>>,
         chips' \in [AllChips -> ChipType], fault' \in BOOLEAN,
         cmd' \in CommandsOf(call.op),
         Working =>
           /\ pc # "done" /\ pc' \notin {"load", "sweep"}
           /\ idx' < call.n
           /\ pc' \in {"bus", "deconfig", "next"} \/ (pc' = "done" /\ ret' = "Ok")
                => fault' \/ cur' = dev.cs
           /\ call.op = "erase" /\ ~call.aligned => idx' = 0 /\ cmd' = "WREN"
           /\ pc' = "done" => ret' \in Refusals \cup {"Ok"} \/ call.op = "erase"
  PROVE  CallInv'
<1>1. call' = call /\ dev' = dev /\ before' = before /\ ncalls' = ncalls
      /\ AllChips' = AllChips
  BY ChipNames DEF request
<1>2. Working' => Working
  BY <1>1 DEF Working
<1>3. InBounds(call)' <=> InBounds(call)
  BY <1>1 DEF InBounds
<1> QED
  BY <1>1, <1>2, <1>3 DEF CallInv, AtWork

(* A step of the engine or of a chip, whatever the driver does.            *)
LEMMA IdleDriver ==
  ASSUME CallInv, UNCHANGED <<conf, cur, ncalls, driver, before>>,
         chips' \in [AllChips -> ChipType]
  PROVE  CallInv'
<1>1. AllChips' = AllChips
  BY ChipNames
<1>2. UNCHANGED <<conf, cur, idx, call, dev, pc, ret, fault, cmd, before, ncalls>>
  BY DEF driver, request
<1>3. InBounds(call)' <=> InBounds(call)
  BY <1>2 DEF InBounds
<1>4. AtWork => AtWork'
  BY <1>2, <1>3 DEF AtWork, Looked
<1>5. Working' <=> Working
  BY <1>2 DEF Working
<1> QED
  BY <1>1, <1>2, <1>4, <1>5 DEF CallInv

(* The bounds were checked before the call touches anything; from the      *)
(* first transfer on the chip select is that of the device.                *)
LEMMA CallStep ==
  ASSUME FlashInv, CallInv, Next
  PROVE  CallInv'
<1> USE DEF FlashInv, controller, request, Leave, Return
<1>0. conf' = conf => AllChips' = AllChips
  BY ChipNames
<1>1. CASE BlockCall
  <2>1. PICK v \in Devices, c \in BlockCalls :
          /\ Begin(v, c)
          /\ \/ Start /\ InBounds(c) /\ Looked(c)
             \/ pc' = "done" /\ ret' \in Refusals
    BY <1>1, BlockCallIs
  <2>2. /\ call' = c /\ conf' = conf /\ chips' = chips /\ before' = chips
        /\ fault' = FALSE /\ cmd' = FirstCommand(c.op) /\ idx' = 0
        /\ pc' = "config" \/ (pc' = "done" /\ ret' \in Refusals)
    BY <2>1 DEF Begin, Start
  <2>3. c.n \in {1, 2}
    BY DEF BlockCalls
  <2>4. ncalls' \in Nat
    BY <2>1 DEF Begin, CallInv
  <2>5. (pc # "done" => InBounds(call) /\ Looked(call))'
    BY <2>1, <2>2 DEF InBounds, Looked
  <2>6. cmd' \in CommandsOf(c.op) /\ (c.op = "erase" => cmd' = "WREN")
    BY <2>2, FirstOf
  <2>7. chips' \in [AllChips' -> ChipType] /\ before' \in [AllChips' -> ChipType]
    BY <1>0, <2>2 DEF CallInv
  <2>8. AtWork'
    BY <2>2, <2>3, <2>5, <2>6 DEF AtWork, Refusals
  <2> HIDE DEF FlashInv
  <2> QED BY ONLY <2>2, <2>4, <2>6, <2>7, <2>8 DEF CallInv
<1>2. CASE OtherCall
  <2>1. PICK v \in Devices, c \in OtherCalls : Begin(v, c) /\ Start
    BY <1>2 DEF OtherCall
  <2>2. /\ call' = c /\ conf' = conf /\ chips' = chips /\ before' = chips
        /\ fault' = FALSE /\ cmd' = FirstCommand(c.op) /\ ncalls' \in Nat
        /\ c.op \notin BlockOps
    BY <2>1 DEF Begin, CallInv, OtherCalls, RawCommands, BlockOps
  <2> QED BY <1>0, <2>2, FirstOf DEF CallInv, Working
<1>3. CASE FmcInit \/ SpiInit
  BY <1>0, <1>3 DEF FmcInit, SpiInit, ControllerInit, CallInv, Working
<1>4. CASE Select
  BY <1>4, SameBlock DEF Select, CallInv, Working, AtWork, BlockOps, CommandsOf, Transactions
<1>5. CASE Deconfig
  BY <1>5, SameBlock DEF Deconfig, CallInv, Working, AtWork, BlockOps, CommandsOf, Transactions
<1>6. CASE Transceive
  <2>1. /\ UNCHANGED <<conf, cur, request, cmd, idx, ncalls, before>>
        /\ pc = "bus" /\ pc' = "deconfig"
    BY <1>6 DEF Transceive
  <2>2. chips' \in [AllChips -> ChipType] /\ fault' \in {fault, TRUE}
    BY <1>6, TransferMoves
  <2>3. cur = dev.cs
    BY <2>1 DEF TypeInv
  <2> QED BY <2>1, <2>2, <2>3, SameBlock DEF CallInv, AtWork, Working
<1>7. CASE TransferInPlace
  BY <1>7, SameBlock DEF TransferInPlace, CallInv, Working, AtWork, BlockOps, CommandsOf
<1>8. CASE Continue
  <2>1. /\ pc = "next" /\ UNCHANGED <<conf, cur, chips, ncalls, fault, before>>
        /\ \/ AfterWriteEnable \/ AfterWrite \/ AfterStatus
           \/ cmd \in {"WRDI", "RST", "READ"} /\ Return("Ok")
    BY <1>8 DEF Continue
  <2>0. UNCHANGED request
    BY <2>1 DEF AfterWriteEnable, AfterWrite, AfterStatus, GoOn
  <2>2. CASE ~Working
    <3>1. cmd = call.op /\ cmd \notin {"PP", "SE", "RDSR"}
      BY <2>1, <2>2 DEF CallInv, Working, BlockOps, CommandsOf, TypeInv, Calls,
                        BlockCalls, OtherCalls, RawCommands
    <3>2. cmd' = cmd
      BY <2>1, <3>1 DEF AfterWriteEnable, AfterWrite, AfterStatus
    <3> QED BY <2>0, <2>1, <2>2, <3>1, <3>2, SameBlock DEF CallInv, AtWork
  <2>3. CASE Working
    <3>1. /\ call.n \in {1, 2} /\ idx \in Nat /\ idx < call.n
          /\ fault \/ cur = dev.cs
      BY <2>1, <2>3, BlockFacts DEF CallInv, AtWork
    <3>2. /\ cmd' \in CommandsOf(call.op) /\ pc' \in {"config", "done"}
          /\ idx' < call.n
          /\ call.op = "erase" /\ ~call.aligned => idx' = 0 /\ cmd' = "WREN"
          /\ pc' = "done" => ret' = "Ok" \/ call.op = "erase"
      <4>1. AtWork /\ call.op \in BlockOps /\ cmd \in CommandsOf(call.op)
        BY <2>1, <2>3 DEF CallInv, Working
      <4>2. CASE AfterWriteEnable
        BY <2>1, <3>1, <4>1, <4>2 DEF AfterWriteEnable, GoOn, AtWork, BlockOps, CommandsOf
      <4>3. CASE AfterWrite
        BY <2>1, <3>1, <4>1, <4>3 DEF AfterWrite, GoOn, AtWork, BlockOps, CommandsOf
      <4>4. CASE AfterStatus
        BY <2>1, <3>1, <4>1, <4>4 DEF AfterStatus, GoOn, AtWork, BlockOps, CommandsOf
      <4>5. CASE cmd \in {"WRDI", "RST", "READ"} /\ Return("Ok")
        BY <2>1, <3>1, <4>1, <4>5 DEF AtWork, BlockOps, CommandsOf
      <4> QED BY <2>1, <4>2, <4>3, <4>4, <4>5
    <3> QED BY <2>0, <2>1, <2>3, <3>1, <3>2, SameBlock DEF CallInv, AtWork
  <2> QED BY <2>2, <2>3
<1>9. CASE FromJedecId
  BY <1>9, SameBlock DEF FromJedecId, CallInv, Working, AtWork, BlockOps, CommandsOf
<1>10. CASE Finish
  BY <1>0, <1>10 DEF Finish, CallInv, Working
<1>11. CASE FmcReadInit \/ SpiReadInit
  <2>1. UNCHANGED <<conf, cur, chips, request, cmd, ncalls, fault, before>> /\ pc = "config"
        /\ cmd = "read_init"
    BY <1>11 DEF FmcReadInit, SpiReadInit, ReadInit
  <2> QED BY <2>1, SameBlock DEF CallInv, AtWork, Working, BlockOps, CommandsOf
<1>12. CASE LoadCalibrationData \/ FmcSweep \/ SpiSweep
  <2>1. UNCHANGED calibrationFrame /\ pc \in {"load", "sweep"}
    BY <1>12 DEF LoadCalibrationData, FmcSweep, SpiSweep, Sweep
  <2> QED BY <2>1, SameBlock DEF CallInv, AtWork, Working, calibrationFrame
<1>13. CASE Engine
  <2>1. UNCHANGED <<conf, cur, chips, ncalls, driver, before>>
    BY <1>13 DEF Engine, DmaFinishes, FmcInterrupt, SpiInterrupt, HandleInterrupt
  <2> QED BY <2>1, IdleDriver DEF CallInv
<1>14. CASE Chip
  <2>1. PICK n \in AllChips :
          /\ chips' = [chips EXCEPT ![n].busy = FALSE, ![n].wel = FALSE]
          /\ UNCHANGED <<conf, cur, ncalls, driver, before>>
    BY <1>14 DEF Chip, ChipReady
  <2>2. chips' \in [AllChips -> ChipType]
    BY <2>1 DEF CallInv, ChipType
  <2> QED BY <2>1, <2>2, IdleDriver
<1> QED
  BY <1>1, <1>2, <1>3, <1>4, <1>5, <1>6, <1>7, <1>8, <1>9, <1>10, <1>11, <1>12,
     <1>13, <1>14 DEF Next, Driver

-----------------------------------------------------------------------------
\* A call does not leave a chip busy, and finds writes enabled.

(* Only a program or an erase has these commands.                          *)
LEMMA CommandsAre ==
  ASSUME TypeInv, CallInv, pc \notin {"new", "idle"}
  PROVE  /\ cmd \in {"PP", "SE", "RDSR"} => Working /\ call.op \in {"program", "erase"}
         /\ Working => cmd \in {"WREN", "PP", "SE", "RDSR", "READ"}
         /\ Working /\ call.op # "read" => cmd \in {"WREN", "PP", "SE", "RDSR"}
         /\ Working /\ cmd = "PP" => call.op = "program"
         /\ Working /\ cmd = "SE" => call.op = "erase"
         /\ Working /\ cmd = "READ" => call.op = "read"
         /\ Working /\ call.op = "read" => cmd = "READ"
<1>1. call.op \in BlockOps \cup RawCommands \cup {"transfer", "in_place", "read_init"}
  BY DEF TypeInv, Calls, BlockCalls, OtherCalls, RawCommands, BlockOps
<1>2. cmd \in CommandsOf(call.op)
  BY DEF CallInv
<1> QED
  BY <1>1, <1>2 DEF CommandsOf, BlockOps, Working, RawCommands

(* What the chip of a transfer answers.                                    *)
LEMMA AnswerOne ==
  ASSUME NEW n
  PROVE  /\ cmd = "RDSR" => Answer({n}) = IF chips[n].busy THEN Busy ELSE Ready
         /\ cmd = "READ" /\ ~chips[n].busy => Answer({n}) = chips[n].mem[ChipPage]
<1>1. (CHOOSE m \in {n} : TRUE) = n
  OBVIOUS
<1>2. {n} # {}
  OBVIOUS
<1>3. ASSUME cmd = "RDSR" PROVE Answer({n}) = IF chips[n].busy THEN Busy ELSE Ready
  BY <1>1, <1>2, <1>3 DEF Answer
<1>4. ASSUME cmd = "READ", ~chips[n].busy PROVE Answer({n}) = chips[n].mem[ChipPage]
  BY <1>1, <1>2, <1>4 DEF Answer
<1> QED
  BY <1>3, <1>4

(* The call waits while its chip is busy.                                  *)
LEMMA BusyStep ==
  ASSUME FlashInv, CallInv, BusyInv, Next
  PROVE  BusyInv'
<1> USE DEF FlashInv, controller, request, Leave, Return
<1>0. conf' = conf => AllChips' = AllChips
  BY ChipNames
<1>1. CASE BlockCall \/ OtherCall
  <2>1. pc = "idle" /\ conf' = conf /\ chips' = chips
    BY <1>1 DEF BlockCall, OtherCall, Begin
  <2> QED BY <1>0, <2>1 DEF BusyInv
<1>2. CASE FmcInit \/ SpiInit
  BY <1>0, <1>2 DEF FmcInit, SpiInit, ControllerInit, BusyInv
<1>3. CASE Select
  <2>1. /\ UNCHANGED <<conf, chips, request, cmd, rx>> /\ pc = "config"
        /\ dev.cs < conf.max_cs => pc' = "bus"
    BY <1>3 DEF Select
  <2>2. ChipOf(dev)' = ChipOf(dev) /\ AllChips' = AllChips
    BY <2>1, ChipNames
  <2> QED BY <2>1, <2>2 DEF BusyInv
<1>4. CASE Deconfig
  <2>1. /\ UNCHANGED <<conf, chips, request, cmd, rx>> /\ pc = "deconfig"
        /\ cmd \in {"PP", "SE", "RDSR"} => pc' = "next"
    BY <1>4 DEF Deconfig, Transactions
  <2>2. ChipOf(dev)' = ChipOf(dev) /\ AllChips' = AllChips
    BY <2>1, ChipNames
  <2> QED BY <2>1, <2>2 DEF BusyInv
<1>5. CASE Transceive
  <2>1. /\ UNCHANGED <<conf, request, cmd, idx>> /\ pc = "bus" /\ pc' = "deconfig"
    BY <1>5 DEF Transceive
  <2>2. /\ ChipOf(dev)' = ChipOf(dev) /\ AllChips' = AllChips
        /\ ChipOf(dev) \in AllChips /\ dev.cs < conf.max_cs
        /\ chips \in [AllChips -> ChipType]
    BY <2>1, ChipNames DEF TypeInv, CallInv
  <2>3. CASE cmd = "RDSR"
    <3>1. chips' = chips /\ rx' = Answer({ChipOf(dev)})
      BY <1>5, <2>3, TransferMoves DEF CanDma
    <3>2. chips[ChipOf(dev)].busy => rx' = Busy
      BY <2>3, <3>1, AnswerOne
    <3> QED BY <2>1, <2>2, <2>3, <3>1, <3>2 DEF BusyInv
  <2>4. CASE cmd # "RDSR"
    <3>1. \A n \in AllChips : ~chips[n].busy
      BY <2>1, <2>4 DEF BusyInv
    <3>2. /\ \A n \in AllChips : n # ChipOf(dev) => chips'[n] = chips[n]
          /\ chips'[ChipOf(dev)]
               \in {chips[ChipOf(dev)], Take(chips[ChipOf(dev)], Given)}
      BY <1>5, TransferMoves
    <3>3. Given.op = cmd /\ Given.data \in Int
      BY DEF Given, CallInv
    <3> DEFINE chip == chips[ChipOf(dev)]
    <3>4. chip \in ChipType /\ ~chip.busy
      BY <2>2, <3>1
    <3> HIDE DEF chip
    <3>5. cmd \notin {"PP", "SE"} => Take(chip, Given).busy = chip.busy
      BY ONLY <3>3, <3>4, TakeFacts
    <3>6. cmd \notin {"PP", "SE"} => ~chips'[ChipOf(dev)].busy
      BY <3>2, <3>4, <3>5 DEF chip
    <3> QED BY <2>1, <2>2, <3>1, <3>2, <3>6 DEF BusyInv
  <2> QED BY <2>3, <2>4
<1>6. CASE TransferInPlace
  <2>1. UNCHANGED <<conf, chips>> /\ pc = "bus" /\ cmd = "in_place"
    BY <1>6 DEF TransferInPlace
  <2> QED BY <1>0, <2>1 DEF BusyInv
<1>7. CASE Continue
  <2>1. /\ pc = "next" /\ UNCHANGED <<conf, chips, request>>
        /\ \/ cmd \in {"PP", "SE"} /\ pc' = "config" /\ cmd' = "RDSR"
           \/ cmd = "RDSR" /\ rx = Busy /\ pc' = "config" /\ cmd' = "RDSR"
           \/ cmd \notin {"PP", "SE"} /\ ~(cmd = "RDSR" /\ rx = Busy)
    BY <1>7 DEF Continue, AfterWriteEnable, AfterWrite, AfterStatus, GoOn
  <2>2. ChipOf(dev)' = ChipOf(dev) /\ AllChips' = AllChips
    BY <2>1, ChipNames
  <2> QED BY <2>1, <2>2 DEF BusyInv
<1>8. CASE FromJedecId
  <2>1. UNCHANGED <<conf, chips>> /\ cmd = "RDID"
    BY <1>8 DEF FromJedecId
  <2> QED BY <1>0, <2>1 DEF BusyInv
<1>9. CASE Finish
  BY <1>0, <1>9 DEF Finish, BusyInv
<1>10. CASE FmcReadInit \/ SpiReadInit
  <2>1. UNCHANGED <<conf, chips>> /\ cmd = "read_init"
    BY <1>10 DEF FmcReadInit, SpiReadInit, ReadInit
  <2> QED BY <1>0, <2>1 DEF BusyInv
<1>11. CASE LoadCalibrationData \/ FmcSweep \/ SpiSweep
  <2>1. UNCHANGED <<conf, chips>> /\ pc \in {"load", "sweep"}
    BY <1>11 DEF LoadCalibrationData, FmcSweep, SpiSweep, Sweep, calibrationFrame
  <2>2. cmd # "RDSR"
    BY <2>1, CommandsAre DEF CallInv, AtWork
  <2> QED BY <1>0, <2>1, <2>2 DEF BusyInv
<1>12. CASE Engine
  <2>1. UNCHANGED <<conf, chips, driver>>
    BY <1>12 DEF Engine, DmaFinishes, FmcInterrupt, SpiInterrupt, HandleInterrupt
  <2>2. ChipOf(dev)' = ChipOf(dev) /\ AllChips' = AllChips
    BY <2>1, ChipNames DEF driver
  <2> QED BY <2>1, <2>2 DEF BusyInv, driver
<1>13. CASE Chip
  <2>1. PICK n \in AllChips :
          /\ chips' = [chips EXCEPT ![n].busy = FALSE, ![n].wel = FALSE]
          /\ UNCHANGED <<conf, driver>>
    BY <1>13 DEF Chip, ChipReady
  <2>2. ChipOf(dev)' = ChipOf(dev) /\ AllChips' = AllChips
    BY <2>1, ChipNames DEF driver
  <2>3. \A m \in AllChips : chips'[m].busy => chips[m].busy
    BY <2>1 DEF CallInv, ChipType
  <2> QED BY <2>1, <2>2, <2>3 DEF BusyInv, driver
<1> QED
  BY <1>1, <1>2, <1>3, <1>4, <1>5, <1>6, <1>7, <1>8, <1>9, <1>10, <1>11, <1>12,
     <1>13 DEF Next, Driver

(* The write enable of the call is the last thing the chip heard before    *)
(* its program or erase.                                                   *)
LEMMA WelStep ==
  ASSUME FlashInv, CallInv, BusyInv, WelInv, Next
  PROVE  WelInv'
<1> USE DEF FlashInv, controller, request, Leave, Return
<1>1. CASE BlockCall \/ OtherCall
  <2>1. PICK c \in Calls : /\ cmd' = FirstCommand(c.op) /\ call' = c
                           /\ pc' \in {"config", "done"}
    BY <1>1 DEF BlockCall, OtherCall, Begin, Start, Calls
  <2>2. cmd' \notin {"PP", "SE"}
    BY <2>1 DEF FirstCommand, Calls, BlockCalls, OtherCalls, RawCommands
  <2> QED BY <2>1, <2>2 DEF WelInv
<1>2. CASE FmcInit \/ SpiInit \/ Finish
  BY <1>2 DEF FmcInit, SpiInit, ControllerInit, Finish, WelInv, Working
<1>3. CASE Select
  <2>1. /\ UNCHANGED <<conf, chips, request, cmd>> /\ pc = "config" /\ pc' \in {"bus", "next", "done"}
        /\ pc' = "bus" => fault' = fault
        /\ pc' = "next" => fault'
    BY <1>3 DEF Select
  <2>2. ChipOf(dev)' = ChipOf(dev)
    BY <2>1, ChipNames
  <2> QED BY <2>1, <2>2 DEF WelInv, Working
<1>4. CASE Deconfig
  <2>1. /\ UNCHANGED <<conf, chips, request, cmd, fault>> /\ pc = "deconfig"
        /\ pc' \in {"next", "done"}
    BY <1>4 DEF Deconfig
  <2>2. ChipOf(dev)' = ChipOf(dev)
    BY <2>1, ChipNames
  <2> QED BY <2>1, <2>2 DEF WelInv, Working
<1>5. CASE Transceive
  <2>1. /\ UNCHANGED <<conf, request, cmd, idx>> /\ pc = "bus" /\ pc' = "deconfig"
    BY <1>5 DEF Transceive
  <2>2. ChipOf(dev)' = ChipOf(dev) /\ ChipOf(dev) \in AllChips
    BY <2>1, ChipNames
  <2>3. ASSUME cmd = "WREN" PROVE chips'[ChipOf(dev)].wel
    <3>1. chips'[ChipOf(dev)] = Take(chips[ChipOf(dev)], Given)
      BY <1>5, <2>3, TransferMoves DEF CanDma
    <3>2. Given.op = cmd /\ Given.data \in Int
      BY DEF Given, CallInv
    <3>3. ~chips[ChipOf(dev)].busy
      BY <2>1, <2>2, <2>3 DEF BusyInv
    <3> DEFINE chip == chips[ChipOf(dev)]
    <3>4. chip \in ChipType /\ ~chip.busy
      BY <2>2, <3>3 DEF CallInv
    <3> HIDE DEF chip
    <3>5. Take(chip, Given).wel
      BY ONLY <2>3, <3>2, <3>4, TakeFacts
    <3> QED BY <3>1, <3>5 DEF chip
  <2> QED BY <2>1, <2>2, <2>3 DEF WelInv
<1>6. CASE TransferInPlace \/ FromJedecId
  BY <1>6 DEF TransferInPlace, FromJedecId, WelInv
<1>7. CASE Continue
  <2>1. /\ pc = "next" /\ UNCHANGED <<conf, chips, request, fault>>
        /\ pc' \in {"config", "done"}
        /\ cmd' \in {"PP", "SE"} => cmd = "WREN" \/ pc' = "done"
    BY <1>7 DEF Continue, AfterWriteEnable, AfterWrite, AfterStatus, GoOn
  <2>2. ChipOf(dev)' = ChipOf(dev)
    BY <2>1, ChipNames
  <2> QED BY <2>1, <2>2 DEF WelInv, Working
<1>8. CASE FmcReadInit \/ SpiReadInit
  BY <1>8, CommandsAre DEF FmcReadInit, SpiReadInit, ReadInit, WelInv, Working
<1>9. CASE LoadCalibrationData \/ FmcSweep \/ SpiSweep
  <2>1. UNCHANGED <<request, cmd>> /\ pc \in {"load", "sweep"}
    BY <1>9 DEF LoadCalibrationData, FmcSweep, SpiSweep, Sweep, calibrationFrame
  <2> QED BY <2>1 DEF WelInv, Working, CallInv, AtWork
<1>10. CASE Engine
  <2>1. UNCHANGED <<conf, chips, driver>>
    BY <1>10 DEF Engine, DmaFinishes, FmcInterrupt, SpiInterrupt, HandleInterrupt
  <2>2. ChipOf(dev)' = ChipOf(dev)
    BY <2>1, ChipNames DEF driver
  <2> QED BY <2>1, <2>2 DEF WelInv, Working, driver
<1>11. CASE Chip
  <2>1. PICK n \in AllChips :
          /\ chips[n].busy
          /\ chips' = [chips EXCEPT ![n].busy = FALSE, ![n].wel = FALSE]
          /\ UNCHANGED <<conf, driver>>
    BY <1>11 DEF Chip, ChipReady
  <2>2. ChipOf(dev)' = ChipOf(dev)
    BY <2>1, ChipNames DEF driver
  <2>3. \A m \in AllChips : m # n => chips'[m] = chips[m]
    BY <2>1 DEF CallInv
  <2>4. ~\/ cmd = "WREN" /\ pc \in {"deconfig", "next"}
         \/ cmd \in {"PP", "SE"} /\ pc \in {"config", "bus"}
    BY <2>1 DEF BusyInv
  <2> QED BY <2>1, <2>4 DEF WelInv, driver
<1> QED
  BY <1>1, <1>2, <1>3, <1>4, <1>5, <1>6, <1>7, <1>8, <1>9, <1>10, <1>11
     DEF Next, Driver

-----------------------------------------------------------------------------
\* What the chips hold while a call goes on.

(* One page or sector more.                                                *)
LEMMA CoversNext ==
  ASSUME NEW c \in BlockCalls, NEW d \in Nat, NEW p \in Pages
  PROVE  LET here == IF c.op = "erase" THEN p \div PagesPerSector = c.at + d
                     ELSE p = c.at + d
         IN /\ Covers(c, d + 1, p) <=> Covers(c, d, p) \/ here
            /\ here => ~Covers(c, d, p)
            /\ ~Covers(c, 0, p)
<1>1. c.at \in Nat
  BY SectorFacts DEF BlockCalls
<1>2. p \in Nat /\ p \div PagesPerSector \in Nat
  BY SectorFacts
<1>3. \A i \in 0 .. d - 1 : i \in 0 .. d
  OBVIOUS
<1>4. \A i \in 0 .. d : i \in 0 .. d - 1 \/ i = d
  OBVIOUS
<1>5. d \in 0 .. d /\ (d + 1) - 1 = d
  OBVIOUS
<1>6. CASE c.op = "erase"
  BY <1>1, <1>2, <1>3, <1>4, <1>5, <1>6 DEF Covers
<1>7. CASE c.op # "erase"
  BY <1>1, <1>2, <1>3, <1>4, <1>5, <1>7 DEF Covers
<1> QED
  BY <1>6, <1>7

(* A DMA that leaves the window is one the excuse speaks of: the last      *)
(* sector of a call is the highest.                                        *)
LEMMA OutsideIsLost ==
  ASSUME TypeInv, CallInv, WindowsInv, Working, CanDma,
         ~(SectorOf(call, idx) < dec[dev.cs].len)
  PROVE  Lost
<1>1. \A a, b, d \in Nat : d # 0 /\ a <= b => a \div d <= b \div d
  <2>1. \A x, y, d \in Int : d > 0 /\ x > y => d * x >= d * y + d
    <3>1. \A z, d \in Int : d > 0 /\ z > 0 => d * z >= d
      BY SMTT(30)
    <3> TAKE x, y, d \in Int
    <3>2. d * (x - y) = d * x - d * y
      BY SMTT(30)
    <3> QED BY <3>1, <3>2
  <2>2. \A a, d \in Nat : d # 0 => a \div d \in Int /\ a % d \in 0 .. d - 1 /\ a = d * (a \div d) + (a % d)
    BY SMT
  <2>3. \A q, r, x, y, d \in Int :
          q = d * x + r /\ d > 0 /\ r >= 0 /\ d * x >= d * y + d => q >= d * y + d
    BY SMTT(30)
  <2> TAKE a, b, d \in Nat
  <2> HAVE d # 0 /\ a <= b
  <2> DEFINE x == a \div d
             y == b \div d
             r == a % d
             s == b % d
             u == d * x
             v == d * y
  <2>4. /\ x \in Int /\ y \in Int /\ r \in 0 .. d - 1 /\ s \in 0 .. d - 1
        /\ a = u + r /\ b = v + s /\ u \in Int /\ v \in Int
    BY <2>2
  <2>5. x > y => u >= v + d
    BY <2>1, <2>4
  <2> HIDE DEF x, y, r, s, u, v
  <2>6. x <= y
    BY <2>4, <2>5
  <2> QED BY <2>6 DEF x, y
<1>2. /\ call.at \in Nat /\ call.n \in {1, 2} /\ idx \in Nat /\ idx < call.n
      /\ call.op \in {"read", "program"}
      /\ call.op = "program" => conf.dma_write
      /\ conf.dma /\ ~conf.pure_spi_mode_only
  BY BlockFacts, CommandsAre DEF CanDma, CallInv, AtWork, Working
<1>3. /\ SectorOf(call, idx) = (call.at + idx) \div PagesPerSector
      /\ SectorOf(call, call.n - 1) = (call.at + (call.n - 1)) \div PagesPerSector
  BY <1>2 DEF SectorOf
<1>4. SectorOf(call, idx) <= SectorOf(call, call.n - 1)
  BY <1>1, <1>2, <1>3, FlashAssumption
<1>5. SectorOf(call, idx) \in Int /\ SectorOf(call, call.n - 1) \in Int
      /\ dec[dev.cs].len \in Int
  <2>1. \A x, d \in Nat : d # 0 => x \div d \in Int
    BY SMT
  <2>2. dev.cs \in CS
    BY BlockFacts, FlashAssumption
  <2> QED BY <1>2, <1>3, <2>1, <2>2, FlashAssumption DEF WindowsInv
<1>6. SectorOf(call, call.n - 1) >= dec[dev.cs].len
  BY <1>4, <1>5
<1> QED
  BY <1>2, <1>6 DEF Lost

(* The page a command carries is the one the call is at, as long as the    *)
(* address fits the command.                                               *)
LEMMA PageGiven ==
  ASSUME TypeInv, CallInv, Working, pc = "bus"
  PROVE  /\ cmd = "PP" => Given.page = call.at + idx /\ call.at + idx \in Pages
         /\ cmd = "READ" => ChipPage = call.at
         /\ cmd = "SE" /\ call.at + call.n <= Sz16M
              => Given.page \div PagesPerSector = call.at + idx
<1> DEFINE m == Sz16M * PagesPerSector
<1>1. /\ call.at \in Nat /\ call.n \in {1, 2} /\ idx \in Nat /\ idx < call.n
      /\ call.op = "read" => call.n = 1
      /\ conf.capacity \in {64, 256}
      /\ InBounds(call) /\ Looked(call)
  BY BlockFacts, FlashAssumption DEF CallInv, AtWork, SpiConfig
<1>2. \A x, y \in Nat : x < y => x % y = x
  BY SMT
<1>3. m \in Nat /\ PagesPerSector \in Nat
  BY FlashAssumption DEF Sz16M
<1>4. ASSUME cmd \in {"PP", "READ"} PROVE ChipPage = call.at + idx
  <2>1. PageOf(call, idx) = call.at + idx /\ Unit(call.op) = PagesPerSector
    BY <1>4, CommandsAre DEF PageOf, Unit
  <2>2. CASE FourByte
    BY <2>1, <2>2 DEF ChipPage
  <2>3. CASE ~FourByte
    <3>1. conf.capacity = 64
      BY <1>1, <1>4, <2>3 DEF FourByte, Wide, Sz16M
    <3>2. call.at + call.n <= m
      BY <1>1, <2>1, <3>1 DEF InBounds, Sz16M
    <3> HIDE DEF m
    <3>3. call.at + idx < m
      BY <1>1, <1>3, <3>2
    <3>4. (call.at + idx) % m = call.at + idx
      BY <1>1, <1>2, <1>3, <3>3
    <3> QED BY <2>1, <2>3, <3>4 DEF ChipPage, m
  <2> QED BY <2>2, <2>3
<1>5. ASSUME cmd = "PP" PROVE Given.page = call.at + idx /\ call.at + idx \in Pages
  <2>1. call.op # "erase" /\ idx \in 0 .. call.n - 1
    BY <1>1, <1>5, CommandsAre
  <2> QED BY <1>1, <1>4, <1>5, <2>1 DEF Given, Looked
<1>6. ASSUME cmd = "READ" PROVE ChipPage = call.at
  BY <1>1, <1>4, <1>6, CommandsAre
<1>7. ASSUME cmd = "SE", call.at + call.n <= Sz16M
      PROVE  Given.page \div PagesPerSector = call.at + idx
  <2>1. call.op = "erase" /\ ~FourByte
    BY <1>7, CommandsAre DEF FourByte
  <2> DEFINE s == call.at + idx
  <2>2. s \in Nat /\ s < Sz16M
    BY <1>1, <1>7 DEF Sz16M
  <2> HIDE DEF s
  <2>3. \A a, b, d \in Nat : a < b /\ d # 0 => a * d < b * d
    <3>1. \A z, d \in Int : z > 0 /\ d > 0 => z * d > 0
      BY SMTT(30)
    <3> TAKE a, b, d \in Nat
    <3>2. (b - a) * d = b * d - a * d
      BY SMTT(30)
    <3> QED BY <3>1, <3>2
  <2>4. s * PagesPerSector < m /\ s * PagesPerSector \in Nat
    BY <2>2, <2>3, SectorFacts, FlashAssumption DEF Sz16M
  <2>5. (s * PagesPerSector) % m = s * PagesPerSector
    BY <1>2, <1>3, <2>4
  <2>6. Given.page = s * PagesPerSector
    BY <1>7, <2>1, <2>5 DEF Given, ChipPage, PageOf, s
  <2> QED BY <2>2, <2>6, SectorFacts DEF s
<1> QED
  BY <1>5, <1>6, <1>7

(* A step that leaves what is stored and how far the call is.              *)
LEMMA SameContent ==
  ASSUME TypeInv, CallInv, ContentInv, pc \notin {"new", "idle"},
         UNCHANGED <<conf, dev, call, before, ncalls, dec>>,
         \A n \in AllChips : chips'[n].mem = chips[n].mem,
         fault => fault',
         Working => /\ Done' = Done \/ (fault' /\ ~OutOfReach')
                    /\ OutOfReach' => OutOfReach
                    /\ \/ fault' \/ call.op # "read"
                       \/ Answered /\ rx' = rx
                          /\ (pc' = "next" \/ (pc' = "done" /\ ret' = "Ok")
                                => pc \in {"deconfig", "next"}
                                   \/ (pc = "done" /\ ret = "Ok"))
                          /\ (pc' = "deconfig" => pc = "deconfig")
  PROVE  ContentInv'
<1> SUFFICES ASSUME Working' PROVE (((Lost /\ ~OutOfReach) \/ Content) /\ Answered)'
  BY DEF ContentInv
<1>1. Working
  BY DEF Working
<1>2. /\ AllChips' = AllChips /\ ChipOf(dev)' = ChipOf(dev) /\ ChipOf(dev) \in AllChips
  BY ChipNames
<1>3. Lost => Lost'
  BY DEF Lost
<1>4. fault' => Lost'
  BY DEF Lost
<1>5. Done' = Done /\ Content => Content'
  <2>1. Done' = Done => \A n, p : Held(n, p)' = Held(n, p)
    BY <1>1, <1>2 DEF Held, New
  <2> QED BY <1>2, <2>1 DEF Content
<1>6. Answered'
  BY <1>1, <1>2, <1>3, <1>4 DEF Answered
<1> QED
  BY <1>1, <1>3, <1>4, <1>5, <1>6 DEF ContentInv

(* The transfers of a call move the chip on by one page or sector.         *)
LEMMA TransferContent ==
  ASSUME TypeInv, SwitchInv, WindowsInv, CallInv, BusyInv, WelInv, ContentInv,
         Transceive
  PROVE  ContentInv'
<1> DEFINE c == ChipOf(dev)
<1>1. /\ UNCHANGED <<conf, dev, call, cmd, idx, ret, before, ncalls, dec>>
      /\ pc = "bus" /\ pc' = "deconfig"
  BY DEF Transceive, request
<1>2. /\ \A n \in AllChips : n # c => chips'[n] = chips[n]
      /\ chips'[c] \in {chips[c], Take(chips[c], Given)}
      /\ cmd \in {"READ", "RDSR"} => chips' = chips
      /\ fault' \in {fault, TRUE} /\ fault \in BOOLEAN
  BY TransferMoves DEF CallInv
<1>3. /\ c \in AllChips /\ c' = c /\ AllChips' = AllChips
      /\ chips[c] \in ChipType
  BY <1>1, ChipNames DEF CallInv
<1>4. Given.op = cmd /\ Given.data = ncalls /\ Given.data \in Int
  BY DEF Given, CallInv
<1>5. cmd # "RDSR" => ~chips[c].busy
  BY <1>1, <1>3 DEF BusyInv
<1> SUFFICES ASSUME Working' PROVE (((Lost /\ ~OutOfReach) \/ Content) /\ Answered)'
  BY DEF ContentInv
<1>6. Working /\ ~OutOfReach /\ ~OutOfReach'
  BY <1>1 DEF Working, OutOfReach
<1>7. CASE Lost'
  BY <1>6, <1>7 DEF Answered
<1>8. CASE ~Lost'
  <2>1. ~fault' /\ ~fault /\ ~Lost
    <3>1. fault' # TRUE
      BY <1>8 DEF Lost
    <3>2. fault' = fault /\ fault = FALSE
      BY <1>2, <3>1
    <3> QED BY <1>1, <1>8, <3>2 DEF Lost
  <2>2. Content
    BY <1>6, <2>1 DEF ContentInv
  <2>3. ~(CanDma /\ ~(SectorOf(call, idx) < dec[dev.cs].len))
    BY <1>6, <2>1, OutsideIsLost
  <2>4. /\ chips'[c] = Take(chips[c], Given)
        /\ rx' = IF cmd \in {"RDSR", "READ", "RDID"} THEN Answer({c}) ELSE rx
    BY <2>1, <2>3, TransferMoves
  <2>5. call \in BlockCalls /\ idx \in Nat
    BY <1>6, BlockFacts
  <2> DEFINE chip == chips[c]
  <2>6. CASE cmd \notin {"PP", "SE"}
    <3>1. Done' = Done
      BY <1>1, <2>6 DEF Done
    <3>2. chips'[c].mem = chips[c].mem
      <4>1. chip \in ChipType
        BY <1>3
      <4> HIDE DEF chip
      <4>2. Take(chip, Given).mem = chip.mem
        BY ONLY <1>4, <2>6, <4>1, TakeFacts
      <4> QED BY <2>4, <4>2 DEF chip
    <3>3. \A n, p : Held(n, p)' = Held(n, p)
      BY <1>1, <1>3, <3>1 DEF Held, New
    <3>4. Content'
      BY <1>2, <1>3, <2>2, <3>2, <3>3 DEF Content
    <3>5. call.op = "read" => rx' = chips'[c].mem[call.at]
      <4>1. call.op = "read" => cmd = "READ" /\ ~chips[c].busy
        BY <1>1, <1>5, <1>6, CommandsAre
      <4> QED BY <1>1, <1>2, <1>6, <2>4, <4>1, AnswerOne, PageGiven
    <3> QED BY <1>1, <1>3, <1>6, <3>4, <3>5 DEF Answered
  <2>7. CASE cmd \in {"PP", "SE"}
    <3>1. /\ Done' = idx + 1 /\ Done = idx
          /\ cmd = "PP" => call.op = "program"
          /\ cmd = "SE" => call.op = "erase"
      BY <1>1, <1>6, <2>7, CommandsAre DEF Done
    <3>2. chip.wel /\ ~chip.busy /\ chip \in ChipType
      BY <1>1, <1>2, <1>3, <1>5, <1>6, <2>1, <2>7 DEF WelInv
    <3>3. \A p \in Pages : chips'[c].mem[p] = Held(c, p)'
      <4> SUFFICES ASSUME NEW p \in Pages PROVE chips'[c].mem[p] = Held(c, p)'
        OBVIOUS
      <4> DEFINE here == IF call.op = "erase" THEN p \div PagesPerSector = call.at + idx
                         ELSE p = call.at + idx
      <4>1. Held(c, p)' = IF Covers(call, idx + 1, p) THEN New(c, p) ELSE before[c].mem[p]
        BY <1>1, <1>3, <3>1 DEF Held, New
      <4>2. chip.mem[p] = IF Covers(call, idx, p) THEN New(c, p) ELSE before[c].mem[p]
        BY <1>3, <2>2, <3>1 DEF Content, Held
      <4>3. (Covers(call, idx + 1, p) <=> Covers(call, idx, p) \/ here)
            /\ (here => ~Covers(call, idx, p))
        BY <2>5, CoversNext
      <4>4. CASE cmd = "PP"
        <5>1. Given.page = call.at + idx /\ call.at + idx \in Pages
          BY <1>1, <1>6, <4>4, PageGiven
        <5> HIDE DEF chip
        <5>2. Take(chip, Given).mem[p]
                = IF p = Given.page THEN Programmed(chip.mem[p], Given) ELSE chip.mem[p]
          BY ONLY <1>4, <3>2, <4>4, p \in Pages, TakeFacts
        <5>3. chips'[c].mem[p] = IF p = call.at + idx THEN Programmed(chip.mem[p], Given)
                                 ELSE chip.mem[p]
          BY <2>4, <5>1, <5>2 DEF chip
        <5>4. New(c, p) = Programmed(before[c].mem[p], Given)
          BY <1>4, <3>1, <4>4 DEF New, Programmed
        <5>5. call.op # "erase"
          BY <3>1, <4>4
        <5> QED BY <4>1, <4>2, <4>3, <5>3, <5>4, <5>5
      <4>5. CASE cmd = "SE"
        <5>1. Given.page \div PagesPerSector = call.at + idx /\ call.op = "erase"
          BY <1>1, <1>6, <2>1, <3>1, <4>5, PageGiven, BlockFacts DEF Lost, Sz16M
        <5> HIDE DEF chip
        <5>2. Take(chip, Given).mem[p]
                = IF p \div PagesPerSector = Given.page \div PagesPerSector
                  THEN Blank ELSE chip.mem[p]
          BY ONLY <1>4, <3>2, <4>5, p \in Pages, TakeFacts
        <5>3. chips'[c].mem[p] = IF p \div PagesPerSector = call.at + idx THEN Blank
                                 ELSE chip.mem[p]
          BY <2>4, <5>1, <5>2 DEF chip
        <5> QED BY <4>1, <4>2, <4>3, <5>1, <5>3 DEF New
      <4> QED BY <2>7, <4>4, <4>5
    <3>4. \A n \in AllChips, p \in Pages : n # c => chips'[n].mem[p] = Held(n, p)'
      BY <1>1, <1>2, <1>3, <2>2 DEF Content, Held
    <3>5. Content'
      BY <1>3, <3>3, <3>4 DEF Content
    <3> QED BY <1>1, <1>6, <2>7, <3>1, <3>5 DEF Answered
  <2> QED BY <2>6, <2>7
<1> QED
  BY <1>7, <1>8

(* The other steps of a call move no chip: a program or an erase is        *)
(* counted when the chip has taken it, and the call ends at its last one.  *)
LEMMA ContentStep ==
  ASSUME FlashInv, CallInv, BusyInv, WelInv, ContentInv, Next
  PROVE  ContentInv'
<1> USE DEF FlashInv, controller, request, Leave, Return
<1>1. CASE BlockCall
  <2>1. PICK v \in Devices, c \in BlockCalls :
          /\ Begin(v, c)
          /\ \/ Start \/ (pc' = "done" /\ ret' \in Refusals)
    BY <1>1, BlockCallIs
  <2>2. /\ call' = c /\ conf' = conf /\ chips' = chips /\ before' = chips
        /\ cmd' \in {"WREN", "READ"} /\ idx' = 0
        /\ pc' = "config" \/ (pc' = "done" /\ ret' \in Refusals)
    BY <2>1 DEF Begin, Start, FirstCommand, BlockCalls
  <2>3. Done' = 0
    BY <2>2 DEF Done, Refusals
  <2>4. \A p \in Pages : ~Covers(c, 0, p)
    BY CoversNext
  <2>5. \A n, p : p \in Pages => Held(n, p)' = chips[n].mem[p]
    BY <2>2, <2>3, <2>4 DEF Held
  <2>6. AllChips' = AllChips
    BY <2>2, ChipNames
  <2>7. Content'
    BY <2>2, <2>5, <2>6 DEF Content
  <2>8. Answered'
    BY <2>2 DEF Answered, Refusals
  <2> QED BY <2>7, <2>8 DEF ContentInv
<1>2. CASE OtherCall
  <2>1. call'.op \notin BlockOps
    BY <1>2 DEF OtherCall, Begin, OtherCalls, RawCommands, BlockOps
  <2> QED BY <2>1 DEF ContentInv, Working
<1>3. CASE FmcInit \/ SpiInit \/ Finish
  BY <1>3 DEF FmcInit, SpiInit, ControllerInit, Finish, ContentInv, Working
<1>4. CASE Select
  <2>1. /\ UNCHANGED <<conf, dev, call, before, ncalls, dec, chips, cmd, idx, rx>>
        /\ pc = "config"
        /\ \/ pc' = "bus" /\ fault' = fault /\ ret' = ret
           \/ cmd \in Transactions /\ pc' = "done" /\ fault' = fault
           \/ pc' = "next" /\ fault'
    BY <1>4 DEF Select
  <2>2. Working => cmd \notin Transactions
    BY <2>1, CommandsAre DEF Transactions
  <2>3. Working => Done' = Done \/ (fault' /\ ~OutOfReach')
    BY <2>1, <2>2 DEF Done, OutOfReach
  <2>4. Working => (OutOfReach' => OutOfReach) /\ Answered
    BY <2>1, <2>2 DEF OutOfReach, Answered
  <2> QED BY <2>1, <2>2, <2>3, <2>4, SameContent
<1>5. CASE Deconfig
  <2>1. /\ UNCHANGED <<conf, dev, call, before, ncalls, dec, chips, cmd, idx, rx, fault>>
        /\ pc = "deconfig" /\ pc' \in {"next", "done"}
        /\ pc' = "done" => cmd \in Transactions \cup {"read_init"}
    BY <1>5 DEF Deconfig
  <2>2. Working => pc' = "next"
    BY <2>1, CommandsAre DEF Transactions
  <2>3. Working => Done' = Done /\ Answered
    BY <2>1, <2>2 DEF Done, ContentInv
  <2> QED BY <2>1, <2>2, <2>3, SameContent DEF OutOfReach
<1>6. CASE Transceive
  BY <1>6, TransferContent
<1>7. CASE TransferInPlace \/ FromJedecId
  BY <1>7, CommandsAre DEF TransferInPlace, FromJedecId, ContentInv, Working
<1>8. CASE Continue
  <2>1. /\ UNCHANGED <<conf, dev, call, before, ncalls, dec, chips, fault>>
        /\ pc = "next"
    BY <1>8 DEF Continue, AfterWriteEnable, AfterWrite, AfterStatus, GoOn
  <2>2. ASSUME Working
        PROVE  /\ Done' = Done /\ ~OutOfReach'
               /\ call.op = "read" => rx' = rx
    <3>1. /\ call.n \in {1, 2} /\ idx \in Nat /\ idx < call.n
          /\ call.op = "erase" /\ ~call.aligned => idx = 0
      BY <2>2, BlockFacts DEF CallInv, AtWork
    <3>2. CASE AfterWriteEnable
      BY <2>1, <3>1, <3>2, CommandsAre, <2>2 DEF AfterWriteEnable, GoOn, Done, OutOfReach, Refusals, Working, BlockOps
    <3>3. CASE AfterWrite
      BY <2>1, <2>2, <3>3, CommandsAre DEF AfterWrite, GoOn, Done, OutOfReach, Refusals
    <3>4. CASE AfterStatus
      BY <2>1, <2>2, <3>1, <3>4, CommandsAre DEF AfterStatus, GoOn, Done, OutOfReach, Refusals
    <3>5. CASE cmd \in {"WRDI", "RST", "READ"} /\ Return("Ok")
      BY <2>1, <2>2, <3>5, CommandsAre DEF Done, OutOfReach, Refusals
    <3> QED BY <1>8, <3>2, <3>3, <3>4, <3>5 DEF Continue
  <2>3. Working => Answered /\ pc' \in {"config", "done"}
    BY <1>8 DEF ContentInv, Continue, AfterWriteEnable, AfterWrite, AfterStatus, GoOn
  <2>4. CASE Working /\ call.op # "read"
    BY <2>1, <2>2, <2>4, SameContent
  <2>5. CASE Working /\ call.op = "read"
    BY <2>1, <2>2, <2>3, <2>5, SameContent
  <2>6. CASE ~Working
    BY <2>1, <2>6 DEF ContentInv, Working
  <2> QED BY <2>4, <2>5, <2>6
<1>9. CASE FmcReadInit \/ SpiReadInit
  <2>1. UNCHANGED <<call, cmd>> /\ pc = "config" /\ cmd = "read_init"
    BY <1>9 DEF FmcReadInit, SpiReadInit, ReadInit
  <2> QED BY <2>1, CommandsAre DEF ContentInv, Working
<1>10. CASE LoadCalibrationData \/ FmcSweep \/ SpiSweep
  <2>1. UNCHANGED call /\ pc \in {"load", "sweep"}
    BY <1>10 DEF LoadCalibrationData, FmcSweep, SpiSweep, Sweep, calibrationFrame
  <2> QED BY <2>1 DEF ContentInv, Working, CallInv, AtWork
<1>11. CASE Engine \/ Chip
  <2>1. UNCHANGED <<conf, dec, ncalls, driver, before>>
    BY <1>11 DEF Engine, DmaFinishes, FmcInterrupt, SpiInterrupt, HandleInterrupt,
                 Chip, ChipReady
  <2>2. \A n \in AllChips : chips'[n].mem = chips[n].mem
    <3>1. CASE chips' = chips
      BY <3>1
    <3>2. CASE Chip
      <4>1. PICK n \in AllChips :
              chips' = [chips EXCEPT ![n].busy = FALSE, ![n].wel = FALSE]
        BY <3>2 DEF Chip, ChipReady
      <4> QED BY <4>1 DEF CallInv, ChipType
    <3> QED BY <1>11, <3>1, <3>2 DEF Engine, DmaFinishes, FmcInterrupt, SpiInterrupt,
                                     HandleInterrupt
  <2>3. UNCHANGED <<dev, call, pc, cmd, idx, rx, ret, fault>>
    BY <2>1 DEF driver
  <2>4. CASE pc \in {"new", "idle"}
    BY <2>3, <2>4 DEF ContentInv, Working
  <2>5. CASE pc \notin {"new", "idle"}
    <3>1. Done' = Done /\ (OutOfReach' => OutOfReach)
      BY <2>3 DEF Done, OutOfReach
    <3>2. Working => Answered
      BY DEF ContentInv
    <3> QED BY <2>1, <2>2, <2>3, <2>5, <3>1, <3>2, SameContent
  <2> QED BY <2>4, <2>5
<1> QED
  BY <1>1, <1>2, <1>3, <1>4, <1>5, <1>6, <1>7, <1>8, <1>9, <1>10, <1>11
     DEF Next, Driver

FlashCallInv == FlashInv /\ CallInv /\ BusyInv /\ WelInv /\ ContentInv

(* All of it together, for every behaviour.                                *)
LEMMA FlashCallInvariant == Spec => []FlashCallInv
<1>1. Init => FlashCallInv
  <2> SUFFICES ASSUME Init PROVE FlashCallInv
    OBVIOUS
  <2>1. pc = "new" /\ ncalls = 0 /\ fault = FALSE
    BY DEF Init
  <2>2. chips \in [AllChips -> ChipType] /\ \A n \in AllChips : ~chips[n].busy
    <3>1. FreshChip \in ChipType /\ FreshChip.busy = FALSE
      BY DEF FreshChip, ChipType, Blank, Old
    <3> QED BY <3>1 DEF Init
  <2>3. CallInv
    BY <2>1, <2>2 DEF CallInv, Working
  <2>4. BusyInv /\ WelInv /\ ContentInv
    BY <2>1, <2>2 DEF BusyInv, WelInv, ContentInv, Working
  <2> QED BY <2>3, <2>4, FlashInit DEF FlashCallInv
<1>2. ASSUME FlashCallInv, UNCHANGED vars PROVE FlashCallInv'
  <2>1. FlashInv'
    BY <1>2, FlashStep DEF FlashCallInv
  <2>2. /\ UNCHANGED <<conf, cur, dec, ncalls, driver, before, chips>>
        /\ UNCHANGED <<dev, call, pc, cmd, idx, rx, ret, fault>>
    BY <1>2 DEF vars, controller, driver, request
  <2>3. CallInv'
    BY <1>2, <2>2, IdleDriver DEF FlashCallInv, CallInv
  <2>4. ChipOf(dev)' = ChipOf(dev) /\ AllChips' = AllChips
    BY <2>2, ChipNames
  <2>5. BusyInv' /\ WelInv'
    BY <1>2, <2>2, <2>4 DEF FlashCallInv, BusyInv, WelInv, Working
  <2>6. ContentInv'
    <3>1. Done' = Done /\ (OutOfReach' => OutOfReach)
      BY <2>2 DEF Done, OutOfReach
    <3>2. CASE Working
      BY <1>2, <2>2, <3>1, <3>2, SameContent DEF FlashCallInv, FlashInv, ContentInv, Working
    <3>3. CASE ~Working
      BY <2>2, <3>3 DEF ContentInv, Working
    <3> QED BY <3>2, <3>3
  <2> QED BY <2>1, <2>3, <2>5, <2>6 DEF FlashCallInv
<1>3. ASSUME FlashCallInv, Next PROVE FlashCallInv'
  <2>1. FlashInv'
    BY <1>3, FlashStep DEF FlashCallInv
  <2> QED BY <1>3, <2>1, CallStep, BusyStep, WelStep, ContentStep DEF FlashCallInv
<1> QED
  BY <1>1, <1>2, <1>3, PTL DEF Spec

-----------------------------------------------------------------------------
(* The windows the driver believes in are those the hardware decodes, lie  *)
(* in the region and do not overlap, whatever decode_range_pre_init and    *)
(* decode_range_reinit were asked for and in whatever order.               *)
THEOREM WindowsCorrect == Spec => []WindowsSound
  BY FlashInvariant, PTL DEF FlashInv, WindowsInv

(* A command reaches the chip of the device it was called on and no other, *)
(* through select_cs, the window, a DMA address in it and the monitors'    *)
(* switch; so does what the calibration reads.                             *)
THEOREM ChipCorrect == Spec => []RightChip
<1>1. FlashInv => RightChip
  BY ChipIsRight DEF FlashInv
<1> QED
  BY <1>1, FlashInvariant, PTL

(* The delay calibration picks passed with the delays beside it, in the    *)
(* same row, and no clock is set faster than configured, for every size of *)
(* the grid and every outcome of the sweep.                                *)
THEOREM CalibrationCorrect == Spec => []CalibrationSound
  BY FlashInvariant, PTL DEF FlashInv, ClockInv

(* A call of the block device that returned Ok did to the flash what it    *)
(* says and nothing else, and one that failed did nothing, for every       *)
(* configuration, flash size and page and however long the chips take,     *)
(* with the exceptions OkMeansDone names (norflashblockdevice.rs).         *)
THEOREM DoneCorrect == Spec => []OkMeansDone
<1>1. ASSUME FlashCallInv PROVE OkMeansDone
  <2> USE DEF FlashCallInv
  <2> SUFFICES ASSUME pc = "done", call.op \in {"program", "erase", "read"}, ~Excused
               PROVE  /\ \A n \in AllChips :
                           /\ ~chips[n].busy
                           /\ \A p \in Pages :
                                chips[n].mem[p] = IF n = ChipOf(dev) THEN Wanted(p)
                                                  ELSE before[n].mem[p]
                      /\ call.op = "read" /\ ret = "Ok"
                           => conf.irq \/ rx = chips[ChipOf(dev)].mem[call.at]
    BY <1>1 DEF OkMeansDone
  <2>1. Working
    BY DEF Working, BlockOps
  <2>2. \A n \in AllChips : ~chips[n].busy
    BY <1>1 DEF BusyInv
  <2>3. ret = "Ok" => cur = dev.cs
    BY <1>1, <2>1 DEF CallInv, AtWork, Excused
  <2>4. ~Lost \/ OutOfReach
    <3>1. ret \in Refusals \cup {"Ok"} \/ call.op = "erase"
      BY <1>1, <2>1 DEF CallInv, AtWork
    <3> QED BY <2>3, <3>1 DEF Lost, Excused, OutOfReach
  <2>5. call.op = "read" /\ ret = "Ok"
          => conf.irq \/ rx = chips[ChipOf(dev)].mem[call.at]
    BY <1>1, <2>1, <2>4 DEF ContentInv, Answered, OutOfReach, Refusals
  <2>6. Content
    BY <1>1, <2>1, <2>4 DEF ContentInv
  <2>7. \A p : InRange(p) <=> Covers(call, call.n, p)
    BY DEF InRange, Covers
  <2>8. ASSUME NEW n \in AllChips, NEW p \in Pages
        PROVE  chips[n].mem[p] = IF n = ChipOf(dev) THEN Wanted(p) ELSE before[n].mem[p]
    <3>1. chips[n].mem[p] = Held(n, p)
      BY <2>6, <2>8 DEF Content
    <3>2. CASE ret = "Ok" /\ call.op # "read"
      <4>1. Done = call.n
        BY <3>2 DEF Done
      <4> QED BY <2>7, <3>1, <3>2, <4>1 DEF Held, New, Wanted
    <3>3. CASE ret # "Ok" \/ call.op = "read"
      <4>1. Done = 0
        BY <3>3 DEF Done
      <4>2. ~Covers(call, 0, p)
        BY <1>1, <2>1, <2>8, BlockFacts, CoversNext DEF FlashInv
      <4> QED BY <3>1, <3>3, <4>1, <4>2 DEF Held, Wanted
    <3> QED BY <3>2, <3>3
  <2> QED BY <2>2, <2>5, <2>8
<1> QED
  BY <1>1, FlashCallInvariant, PTL

=============================================================================
