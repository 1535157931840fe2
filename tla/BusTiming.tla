----------------------------- MODULE BusTiming ------------------------------
(***************************************************************************)
(* How the clock registers of the buses are filled: the I2C global set-up  *)
(* and timing of both I2C drivers (src/src/i2c_core/global.rs, timing.rs,  *)
(* types.rs, controller.rs; src/src/i2c/ast1060_i2c.rs), and the I3C clock *)
(* (src/src/i3c/hardware.rs, config.rs).                                   *)
(*                                                                         *)
(* The two I2C drivers share the global registers: each sets the base      *)
(* clocks up and resets every controller in doing so, and a clock          *)
(* configuration may be read before or after. What is computed is          *)
(* modelled exactly, in hertz and nanoseconds; a checked build is assumed, *)
(* where an arithmetic underflow panics.                                   *)
(***************************************************************************)
EXTENDS Integers, Sequences

CONSTANTS
  Buses,       \* I2C controllers
  ApbSels,     \* values of the APB divider select, at least 1: 0 overflows 32 bits
  Dividers,    \* values an earlier boot stage may have left in I2CG10
  Speeds,      \* 100 kHz, 400 kHz, 1 MHz
  OwnClocks,   \* clock configurations a caller builds itself
  Manuals,     \* manual SCL low, high and SDA hold of the legacy driver
  I3cConfs,    \* clock part of I3cConfig
  MaxOps       \* bound on operations

(* The registers have 4 bits for the APB divider, 8 for each base clock.    *)
ASSUME TimingAssumption ==
  /\ ApbSels \subseteq 1 .. 15
  /\ Speeds \subseteq {100000, 400000, 1000000}
  /\ Dividers \subseteq [1 .. 4 -> 0 .. 255]
  /\ OwnClocks \subseteq [0 .. 4 -> Nat]
  /\ Manuals \subseteq [low : Nat, high : Nat, hold : Nat]
  /\ LET times == [high : Nat, low : Nat]
     IN  I3cConfs \subseteq [core : Nat, i2c : Nat, i3c : Nat, od : times,
                             pp : times, hold : Nat]

VARIABLES
  apb,      \* SCU310: the APB divider select
  base,     \* I2CG10: the four base clock dividers
  clocks,   \* the ClockConfig the callers of the core driver pass
  inited,   \* I2CGLOBAL_INIT
  bus,      \* per controller, I2CC04 and who wrote it, for what
  i3c,      \* the clock registers of the I3C controller and their configuration
  ops       \* operations so far

timingVars == <<apb, base, clocks, inited, bus, i3c, ops>>

Least(S) == CHOOSE x \in S : \A y \in S : x <= y
AtMost(x, y) == IF x <= y THEN x ELSE y
AtLeast(x, y) == IF x >= y THEN x ELSE y
Sat(n) == AtLeast(n, 0)
CeilDiv(n, d) == (n + d - 1) \div d

(* The register of SCU050 that resets I2C resets every controller.         *)
Reset == [div |-> 0, low |-> 0, high |-> 0, hmin |-> 0, tout |-> FALSE, hold |-> 0]
Unused == [by |-> "none", ret |-> "none", speed |-> 0, used |-> <<>>, reg |-> Reset,
           meant |-> Reset, manual |-> [low |-> 0, high |-> 0, hold |-> 0]]
GlobalDividers == <<3, 8, 34, 98>>     \* 0x6222_0803

-----------------------------------------------------------------------------
(* The base clocks, in hertz: clock 0 is the APB clock. The driver's       *)
(* apb * 10 / ((d + 2) * 10 / 2) is cancelled to stay within TLC's range.  *)

Apb(sel) == 1000000000 \div ((sel + 1) * 2)
FromHardware(sel, d) ==
  [k \in 0 .. 4 |-> IF k = 0 THEN Apb(sel) ELSE (Apb(sel) * 2) \div (d[k] + 2)]
Ast1060Default ==
  [k \in 0 .. 4 |-> IF k = 0 THEN 50000000 ELSE <<20000000, 10000000, 2770000, 1000000>>[k]]

(* What the controller divides by: clock 4 halved for each divider above.  *)
Power == <<1, 2, 4, 8, 16, 32, 64, 128, 256, 512, 1024, 2048>>
ClockAt(c, div) == IF div <= 4 THEN c[div] ELSE c[4] \div Power[div - 3]

-----------------------------------------------------------------------------
(* Core driver: divider search and SCL times.                              *)

MaxRatio == 32
MutFloor(clk, target) == AtLeast(clk \div target, 1)
RoundUp(clk, target) ==
  LET r == clk \div target
  IN  IF r = 0 THEN 1 ELSE IF clk \div r > target THEN r + 1 ELSE r

(* The loop halves the ratio and remembers a lost bit: it ends at the      *)
(* least number of halvings whose rounded-up quotient fits. A ratio of     *)
(* hardware clocks fits before the divider runs out of bits.               *)
Halvings(r) == Least({n \in DOMAIN Power : CeilDiv(r, Power[n]) <= MaxRatio})
SlowDivider(clk, target) ==
  LET n == Halvings(clk \div target)
      r == CeilDiv(clk \div target, Power[n])
      up == IF r > 0 /\ clk \div r > target THEN r + 1 ELSE r
  IN  [div |-> (3 + n) % 16, ratio |-> AtLeast(AtMost(up, MaxRatio), 1)]

Fits(c, target) == {k \in 0 .. 3 : c[k] # 0 /\ c[k] \div target <= MaxRatio}
CalculateDivider(c, target) ==
  IF Fits(c, target) # {}
  THEN LET k == Least(Fits(c, target)) IN [div |-> k, ratio |-> RoundUp(c[k], target)]
  ELSE SlowDivider(c[4], target)
Unachievable(c, target) == Fits(c, target) = {} /\ c[4] = 0

SclLow(ratio) == AtMost(Sat((ratio * 9) \div 16 - 1), 15)
SclHigh(ratio, low) == AtMost(Sat(ratio - low - 2), 15)
CoreFields(c, speed, timeout) ==
  LET d == CalculateDivider(c, speed)
      low == SclLow(d.ratio)
      high == SclHigh(d.ratio, low)
  IN  [div |-> d.div, low |-> low, high |-> high, hmin |-> Sat(high - 1),
       tout |-> timeout, hold |-> 0]

-----------------------------------------------------------------------------
(* Legacy driver: the same search written out, and one write per field.    *)

(* After n - 1 rounds of the loop: inc, and what it compares with 32.      *)
MutLost(r, n) == FALSE
Lost(r, n) == \E m \in 1 .. n - 1 : (r \div Power[m]) % 2 = 1
Halved(r, n) == (r \div Power[n]) + (IF Lost(r, n) THEN 1 ELSE 0)
Rounds(r) == Least({n \in DOMAIN Power : Halved(r, n) <= MaxRatio})

LegacyDivider(c, target) ==
  LET fits == {k \in 0 .. 3 : c[k] \div target <= MaxRatio}
      first == Least(fits)
      n == Rounds(c[4] \div target)
      slow == Halved(c[4] \div target, n)
      up(clk, r) == IF clk \div r > target THEN r + 1 ELSE r
  IN  IF fits # {}
      THEN IF c[first] \div target = 0 THEN [div |-> first, ratio |-> 0]
           ELSE [div |-> first, ratio |-> up(c[first], c[first] \div target)]
      ELSE [div |-> (3 + n) % 16,
            ratio |-> IF slow = 0 THEN 0 ELSE AtMost(up(c[4], slow), MaxRatio)]

(* A manual time counts when the two share a bit, or when one is given     *)
(* alone; a ratio of 0 divides by it, and a difference may underflow: of   *)
(* the times before the first write, of the minimum high time after three. *)
ManualLow(m, ratio) ==
  IF m.low # 0 THEN m.low
  ELSE IF m.high # 0 THEN ratio - m.high - 2 ELSE (ratio * 9) \div 16 - 1
Shared(x, y) ==
  \E n \in 1 .. 8 : (x \div Power[n]) % 2 = 1 /\ (y \div Power[n]) % 2 = 1
ManualHigh(m, ratio, low) ==
  IF Shared(m.low, m.high) \/ (m.low = 0 /\ m.high # 0) THEN m.high ELSE ratio - low - 2
LegacyTimes(m, ratio) ==
  LET low == ManualLow(m, ratio)
      high == ManualHigh(m, ratio, low)
  IN  [low |-> low, high |-> high, unwritten |-> ratio = 0 \/ low < 0 \/ high < 0]

MeantBy(c, speed, m, timeout) ==
  LET d == LegacyDivider(c, speed)
      t == LegacyTimes(m, d.ratio)
  IN  [div |-> d.div, low |-> AtMost(t.low, 15), high |-> AtMost(t.high, 15),
       hmin |-> AtMost(t.high, 15) - 1, tout |-> timeout,
       hold |-> IF m.hold < 4 THEN m.hold ELSE 0]

(* Each write starts from the reset value: only the last one is left.      *)
LastWrite(f, m, timeout) ==
  CASE m.hold < 4 -> [Reset EXCEPT !.hold = m.hold]
    [] m.hold >= 4 /\ timeout -> [Reset EXCEPT !.tout = f.tout]
    [] OTHER -> [Reset EXCEPT !.hmin = f.hmin]

-----------------------------------------------------------------------------
(* I3C: SCL times in nanoseconds, counted in periods of the core clock.    *)

Nsec == 1000000000
None == 0
FmTimes == [low |-> 1300, high |-> 600, fall |-> 300, rise |-> 300]
TimesFor(hz) ==
  CASE hz <= 100000 -> [low |-> 4700, high |-> 4000, fall |-> 300, rise |-> 1000]
    [] hz > 100000 /\ hz <= 400000 -> FmTimes
    [] hz > 400000 -> [low |-> 500, high |-> 260, fall |-> 120, rise |-> 120]

(* The minima are divided by the period, not by the time of a cycle: they  *)
(* come to one or two, and the period is in effect halved.                 *)
MutCalcI2cClk(hz) ==
  LET period == CeilDiv(Nsec, hz) IN [low |-> period \div 4, high |-> period - period \div 4]
CalcI2cClk(hz) ==
  LET period == CeilDiv(Nsec, hz)
      lowMin == CeilDiv(TimesFor(hz).low + TimesFor(hz).fall, period)
      highMin == CeilDiv(TimesFor(hz).high + TimesFor(hz).rise, period)
      low == lowMin + Sat(period - (lowMin + highMin)) \div 2
  IN  [low |-> low, high |-> AtLeast(Sat(period - low), highMin)]

Counts(times, cycle, lowMax, highMax) ==
  [low |-> AtMost(CeilDiv(times.low, cycle), lowMax),
   high |-> AtMost(CeilDiv(times.high, cycle), highMax)]
Given(times) == times.low # 0 /\ times.high # 0
PushPull(hz) ==
  LET total == CeilDiv(Nsec, AtLeast(hz, 1))
      high == AtMost(41, Sat(total - 1))
  IN  [high |-> high, low |-> AtLeast(Sat(total - high), 1)]
HoldSteps(ns, cycle) == AtLeast(AtMost(CeilDiv(ns, cycle), 7), 1)

NoCounts == [low |-> 0, high |-> 0]
I3cUnused == [conf |-> "none", ret |-> "none", fm |-> NoCounts, fmp |-> NoCounts,
              od |-> NoCounts, pp |-> NoCounts, hold |-> 0]
I3cClock(c) ==
  LET cycle == CeilDiv(Nsec, c.core)
      fmp == CalcI2cClk(1000000)
      od == IF Given(c.od) THEN c.od ELSE fmp
      pp == IF Given(c.pp) THEN c.pp ELSE PushPull(c.i3c)
  IN  [conf |-> c, ret |-> "ok", fm |-> Counts(CalcI2cClk(c.i2c), cycle, 65535, 65535),
       fmp |-> Counts(fmp, cycle, 65535, 255), od |-> Counts(od, cycle, 255, 255),
       pp |-> Counts(pp, cycle, 255, 255), hold |-> HoldSteps(c.hold, cycle)]

(* What validate_clock accepts; nothing in the crate calls it.             *)
ValidClock(c) ==
  c.core # None =>
    /\ c.core >= 12500000 /\ c.core <= 400000000
    /\ c.i3c > 0 => c.core >= c.i3c * 4
    /\ c.i2c > 0 => c.core >= c.i2c * 4

-----------------------------------------------------------------------------
TimingInit ==
  /\ apb \in ApbSels /\ base \in Dividers
  /\ clocks \in {FromHardware(apb, base), Ast1060Default} \cup OwnClocks
  /\ inited = FALSE
  /\ bus = [b \in Buses |-> Unused]
  /\ i3c = I3cUnused
  /\ ops = 0

Count == ops < MaxOps /\ ops' = ops + 1
SetUpGlobal == bus' = [b \in Buses |-> Unused] /\ base' = GlobalDividers

(* init_i2c_global of the core driver has no guard: calling it again       *)
(* resets controllers that are in use.                                     *)
InitI2cGlobal ==
  /\ Count /\ SetUpGlobal
  /\ UNCHANGED <<apb, clocks, inited, i3c>>

(* I2cConfig::default reads the clocks now; with_static_clocks does not.   *)
MakeConfig ==
  /\ Count
  /\ clocks' \in {FromHardware(apb, base), Ast1060Default} \cup OwnClocks
  /\ UNCHANGED <<apb, base, inited, bus, i3c>>

(* init_hardware: the controller is enabled before its timing is known to  *)
(* be possible, and an error leaves it so.                                 *)
InitHardware(b, speed, timeout) ==
  /\ Count
  /\ bus' = [bus EXCEPT ![b] =
       IF Unachievable(clocks, speed)
       THEN [Unused EXCEPT !.by = "core", !.ret = "Invalid", !.reg = bus[b].reg]
       ELSE [Unused EXCEPT !.by = "core", !.ret = "ok", !.speed = speed, !.used = clocks,
                           !.reg = CoreFields(clocks, speed, timeout)]]
  /\ UNCHANGED <<apb, base, clocks, inited, i3c>>

(* init of the legacy driver: the first one in the program sets the global *)
(* registers up, whoever is using the other controllers.                   *)
InitLegacy(b, speed, m, timeout) ==
  LET now == IF inited THEN base ELSE GlobalDividers
      c == FromHardware(apb, now)
      f == MeantBy(c, speed, m, timeout)
      t == LegacyTimes(m, LegacyDivider(c, speed).ratio)
      panics == t.unwritten \/ t.high = 0
      others == IF inited THEN bus ELSE [x \in Buses |-> Unused]
  IN  /\ Count
      /\ base' = now /\ inited' = TRUE
      /\ bus' = [others EXCEPT ![b] =
           [by |-> "legacy", ret |-> IF panics THEN "panic" ELSE "ok", speed |-> speed,
            used |-> c, meant |-> IF panics THEN Reset ELSE f, manual |-> m,
            reg |-> IF t.unwritten THEN others[b].reg
                    ELSE IF panics THEN Reset ELSE LastWrite(f, m, timeout)]]
      /\ UNCHANGED <<apb, clocks, i3c>>

(* init_clock, for any configuration: without a core clock or an I2C rate  *)
(* it panics before it writes.                                             *)
InitClock(c) ==
  /\ Count
  /\ i3c' = IF c.core = None \/ c.i2c = 0
            THEN [i3c EXCEPT !.conf = c, !.ret = "panic"] ELSE I3cClock(c)
  /\ UNCHANGED <<apb, base, clocks, inited, bus>>

TimingNext ==
  \/ InitI2cGlobal
  \/ MakeConfig
  \/ \E b \in Buses, speed \in Speeds, timeout \in BOOLEAN :
       \/ InitHardware(b, speed, timeout)
       \/ \E m \in Manuals : InitLegacy(b, speed, m, timeout)
  \/ \E c \in I3cConfs : InitClock(c)

TimingSpec == TimingInit /\ [][TimingNext]_timingVars

-----------------------------------------------------------------------------
Period(r) == r.low + r.high + 2
Here == [sel |-> apb, clocks |-> FromHardware(apb, base)]

(* The clocks the driver was given are those of the hardware as it is now: *)
(* read from it, or the default ones where the default is what it has.     *)
TrueClocks(b) ==
  \/ bus[b].used = Here.clocks
  \/ bus[b].used = Ast1060Default /\ apb = 9 /\ base = GlobalDividers

(* The registers count 32 cycles at most, and the search accepts a clock   *)
(* 32 times as fast as the bus, halved or not, with something over.        *)
SomethingOver(c, speed) ==
  LET clk == c[IF Fits(c, speed) # {} THEN Least(Fits(c, speed)) ELSE 4]
  IN  /\ clk % speed # 0
      /\ \E n \in DOMAIN Power : clk \div speed = MaxRatio * Power[n]

(* What a period has more than the least number of cycles, at most: a      *)
(* clock that is halved gets a cycle it does not need, because timing.rs   *)
(* compares the clock before it is halved with the speed (line 186).       *)
Spare(div) == IF div < 5 THEN 0 ELSE 1

(* A bus the core driver set up (timing.rs, configure_timing) runs at the  *)
(* speed asked for: no faster, and one cycle less would be too fast, two   *)
(* with a halved clock, whatever was set up or reset before. Excused are   *)
(* a clock configuration that does not tell the truth and a clock a little *)
(* more than 32 times as fast as the bus, halved or not (SomethingOver). A *)
(* controller that a later set-up reset is no longer set up by the core    *)
(* driver, though its handle is not told: nothing is said of it.           *)
CoreRate ==
  \A b \in Buses :
    LET r == bus[b].reg
        clk == ClockAt(Here.clocks, r.div)
        speed == bus[b].speed
    IN  bus[b].by = "core" /\ bus[b].ret = "ok" /\ TrueClocks(b)
          /\ ~SomethingOver(bus[b].used, speed)
        => /\ clk \div Period(r) <= speed
           /\ Period(r) > 2 => clk \div (Period(r) - 1 - Spare(r.div)) >= speed

(* The legacy driver computes what the core driver computes from the same  *)
(* registers (configure_timing of both), unless its ratio is one of those  *)
(* it does not guard (below 3 it panics, from 31 its low time is clamped   *)
(* after the high time was taken from it) or its times are set by hand.    *)
DriversAgree ==
  \A b \in Buses :
    LET x == bus[b]
        ratio == CalculateDivider(x.used, x.speed).ratio
        core == CoreFields(x.used, x.speed, x.meant.tout)
    IN  x.by = "legacy" /\ x.manual.low = 0 /\ x.manual.high = 0 =>
          /\ (x.ret = "panic") <=> ratio < 3
          /\ ratio \in 3 .. 30 => [x.meant EXCEPT !.hold = 0] = core

(* After init_clock each I2C clock of the I3C controller is high and low   *)
(* for as long as constants.rs demands, and each period is as long as was  *)
(* asked for: for a core clock that divides a second into whole            *)
(* nanoseconds, and a rate that an I2C bus has and whose half fits the     *)
(* 16-bit counters; the low time of Fast mode is short above 384.6 kHz.    *)
BusRate(hz) == hz >= 2000 /\ hz <= 1000000
LongEnough(n, cycle, times) == n.low * cycle >= times.low /\ n.high * cycle >= times.high
I3cMinimaMet ==
  LET c == i3c.conf
      cycle == CeilDiv(Nsec, c.core)
      slow(n, hz) == (n.low + n.high) * cycle >= CeilDiv(Nsec, hz)
      min == TimesFor(c.i2c)
  IN  i3c.ret = "ok" /\ ValidClock(c) /\ BusRate(c.i2c) /\ Nsec % c.core = 0 =>
        /\ LongEnough(i3c.fm, cycle,
                      IF c.i2c > 384615 /\ c.i2c <= 400000
                      THEN [min EXCEPT !.low = 1250] ELSE min)
        /\ slow(i3c.fm, c.i2c)
        /\ LongEnough(i3c.fmp, cycle, TimesFor(1000000)) /\ slow(i3c.fmp, 1000000)
        /\ ~Given(c.od) => i3c.od = i3c.fmp
        /\ ~Given(c.pp) /\ c.i3c >= 1000000 => slow(i3c.pp, c.i3c)
=============================================================================
