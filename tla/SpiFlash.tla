------------------------------ MODULE SpiFlash ------------------------------
(***************************************************************************)
(* The SPI flash controllers (src/src/spi/fmccontroller.rs and its sibling *)
(* spicontroller.rs), the NOR commands (norflash.rs), the chip-select      *)
(* device (device.rs), the SPI monitor's switch (spim.rs), the timing      *)
(* calibration (util.rs) and the block device (norflashblockdevice.rs).    *)
(*                                                                         *)
(* A controller shows its chips in windows of one 256 MB region: a segment *)
(* register per chip select tells the hardware where they are, and         *)
(* decode_addr tells the driver. In user mode the driver talks to a chip   *)
(* by accessing the window of current_cs; which chip hears it depends on   *)
(* the segment registers, on the control register of the chip select hit   *)
(* and, for a controller behind the monitors, on the switch in SCU0F0. A   *)
(* chip that was given a program or an erase is busy until it likes, and   *)
(* ignores nearly every command meanwhile. Addresses count units of 256 KB.*)
(***************************************************************************)
EXTENDS Integers, FiniteSets

CONSTANTS
  Configs,     \* SpiConfig records with the build's features
  Devices,     \* ChipSelectDevice records: [cs, spim], spim = -1 for None
  FlashSizes,  \* data_len of a nor_read_init: the size of the flash
  Pages,       \* the pages of a chip that are looked at
  PagesPerSector,
  MaxCalls,    \* bound on the calls that are not in Free
  Hcycles,     \* input delays tried, in HCLK cycles: 0 .. 5
  Delays       \* delays tried for each: 0 .. 15

Base == 1024       \* mmap_base
Sz2M == 8          \* ASPEED_SPI_SZ_2M
Sz256M == 1024     \* ASPEED_SPI_SZ_256M
Sz16M == 64        \* what a three-byte address reaches
Hclk == 200        \* HCLK in MHz

CS == {0, 1}       \* the chip selects that have registers
SpiConfig ==
  [ctrl : {"Fmc", "Spi"}, max_cs : {1, 2}, master_idx : {0, 2},
   pure_spi_mode_only : BOOLEAN, timing_calibration_disabled : BOOLEAN,
   calibrated : BOOLEAN, frequency : 1 .. Hclk, dma : BOOLEAN,
   dma_write : BOOLEAN, irq : BOOLEAN, capacity : {64, 256}]

(* A flash is a whole number of MB; only what is behind the monitors is    *)
(* switched, and there, as spitest.rs notes, CS is fixed to 0; the         *)
(* interrupt is used without a switch and for reads.                        *)
ASSUME FlashAssumption ==
  /\ Configs \subseteq SpiConfig
  /\ \A c \in Configs :
       c.irq => c.dma /\ ~c.dma_write /\ c.master_idx = 0
  /\ Devices \subseteq [cs : CS, spim : -1 .. 3]
  /\ FlashSizes \subseteq {4 * n : n \in 1 .. 256}
  /\ Pages \subseteq Nat
  /\ \A p \in Pages : p % (PagesPerSector * Sz16M) \in Pages
  /\ PagesPerSector \in Nat \ {0}
  /\ MaxCalls \in Nat /\ Hcycles \in 1 .. 6 /\ Delays \in Nat

Sectors == {p \div PagesPerSector : p \in Pages}

(* What a page holds: its number for the data of a write; and what a read  *)
(* puts in the buffer beside that.                                         *)
Blank == 0
Old == -1
Mixed == -2
None == -3
Junk == -4
Ready == -5
Busy == -6
Id == -7

VARIABLES
  conf,    \* spi_config
  cur,     \* current_cs
  seg,     \* the segment registers spi030, spi034: address bits 20 to 27
  dec,     \* spi_data.decode_addr
  ctl,     \* the mode in the control registers spi010, spi014
  clk,     \* the divisor in the control registers; 0: reset value
  mux,     \* SCU0F0: 0, or 1 + the monitor switched through
  pin,     \* clock pins of the monitors: SCU690/694 function bit
  gpio,    \* and the GPIO output bit
  dma,     \* the DMA engine
  chips,   \* the flash chips
  blk,     \* devices made a NorFlashBlockDevice
  ncalls,  \* calls begun that are not in Free
  pc, dev, call, cmd, idx,  \* the driver: where it is in which call
  rx,      \* what the last read of the call put in its buffer
  ret,     \* result of the call
  fault,   \* a transfer of the call failed, which start_transfer! hides
  grid,    \* calib_res of the last sweep and the point picked in it
  before   \* history: what the chips held when the call began

controller == <<conf, cur, seg, dec, ctl, clk, dma>>
switch == <<mux, pin, gpio>>
request == <<dev, call>>
driver == <<pc, request, cmd, idx, rx, ret, fault, grid>>
vars == <<controller, switch, chips, blk, ncalls, driver, before>>

-----------------------------------------------------------------------------
(* Decode windows *)

FmcGranule == 2
SpiGranule == 4
Granule == IF conf.ctrl = "Fmc" THEN FmcGranule ELSE SpiGranule
NoSeg == [start |-> 0, end |-> 0]
Floor(a) == a - (a % Granule)

(* segment_compose, and segment_start and segment_end of what it gives.    *)
Segment(w) ==
  [start |-> Floor(w.start) % Sz256M,
   end |-> (Floor(w.start + w.len - 1) % Sz256M) + Granule - 1]

SegSize(k) == IF seg[k] = NoSeg THEN 0 ELSE seg[k].end - seg[k].start + 1

(* decode_range_pre_init: windows of one size one behind the other.        *)
NoWindow == [start |-> 0, len |-> 0]
PureUnit == ((Sz256M \div conf.max_cs) \div Sz2M) * Sz2M
PreWindows(n, unit) ==
  [k \in CS |-> IF k < n /\ (k + 1) * unit <= Sz256M
                THEN [start |-> Base + k * unit, len |-> unit] ELSE NoWindow]
FmcWindows ==
  PreWindows(conf.max_cs, IF conf.pure_spi_mode_only THEN PureUnit ELSE Sz2M)
SpiWindows ==
  PreWindows(IF conf.master_idx # 0 THEN 1 ELSE conf.max_cs,
             IF conf.pure_spi_mode_only THEN PureUnit
             ELSE IF conf.master_idx # 0 THEN Sz256M ELSE Sz2M)
SegmentsOf(w) ==
  [k \in CS |-> IF w[k] = NoWindow THEN NoSeg ELSE Segment(w[k])]

(* init of a controller made with current_cs 0.                            *)
ControllerInit(windows) ==
  /\ pc = "new" /\ pc' = "idle"
  /\ dec' = windows /\ seg' = SegmentsOf(windows)
  /\ UNCHANGED <<conf, cur, ctl, clk, dma, switch, chips, blk, ncalls, request,
                 cmd, idx, rx, ret, fault, grid, before>>
FmcInit == conf.ctrl = "Fmc" /\ ControllerInit(FmcWindows)
SpiInit == conf.ctrl = "Spi" /\ ControllerInit(SpiWindows)

(* decode_range_reinit: the window of the chip select last selected gets   *)
(* the new size if all still fit, and the windows are laid out again. The  *)
(* sizes are read back from the registers.                                 *)
Fits(sz) ==
  LET total == IF conf.max_cs = 1 THEN SegSize(0) ELSE SegSize(0) + SegSize(1)
  IN total - SegSize(cur) + sz <= Sz256M
NewSize(k, sz) == IF k = cur THEN sz ELSE SegSize(k)
(* Mutant: the second window stays where it was.                           *)
MutNewStart(k, sz) == IF k = 0 THEN Base ELSE dec[k].start
NewStart(k, sz) == IF k = 0 THEN Base ELSE Base + NewSize(0, sz)
Laid(k, sz) == k < conf.max_cs /\ NewSize(k, sz) # 0
Reinit(sz) ==
  IF Fits(sz)
  THEN /\ dec' = [k \in CS |->
            IF Laid(k, sz)
            THEN [start |-> NewStart(k, sz),
                  len |-> IF k = cur THEN sz ELSE dec[k].len]
            ELSE dec[k]]
       /\ seg' = [k \in CS |->
            IF Laid(k, sz)
            THEN Segment([start |-> NewStart(k, sz), len |-> NewSize(k, sz)])
            ELSE seg[k]]
  ELSE UNCHANGED <<dec, seg>>

-----------------------------------------------------------------------------
(* Which chip hears an access *)

(* The chip of a device, and those an access to address a reaches: the     *)
(* segment registers compare bits 20 to 27 of an address of the region,    *)
(* and behind the monitors the chip is the one switched through.           *)
ChipOf(d) == <<d.cs, IF conf.master_idx = 0 THEN 0 ELSE d.spim + 1>>
Usable(v) ==
  IF conf.master_idx = 0 THEN v.spim = -1 ELSE v.cs = 0 /\ v.spim # -1
AllChips == {ChipOf(v) : v \in {u \in Devices : Usable(u)}}
Hits(a) ==
  {k \in CS : /\ a \in Base .. Base + Sz256M - 1
              /\ seg[k] # NoSeg
              /\ a % Sz256M \in seg[k].start .. seg[k].end}
Heard(a) ==
  {<<k, IF conf.master_idx = 0 THEN 0 ELSE mux>> : k \in Hits(a)}

(* A chip takes a command, c = [op, page, data]; a busy one takes none.     *)
FreshChip ==
  [wel |-> FALSE, busy |-> FALSE,
   mem |-> [p \in Pages |-> IF p % 2 = 0 THEN Blank ELSE Old]]
Programmed(old, c) ==
  IF old = Blank THEN c.data ELSE Mixed
Take(chip, c) ==
  IF chip.busy THEN chip
  ELSE CASE c.op = "WREN" -> [chip EXCEPT !.wel = TRUE]
         [] c.op = "WRDI" -> [chip EXCEPT !.wel = FALSE]
         [] c.op = "RST" -> [chip EXCEPT !.wel = FALSE]
         [] c.op = "PP" /\ chip.wel ->
              [chip EXCEPT !.busy = TRUE,
                           !.mem[c.page] = Programmed(@, c)]
         [] c.op = "SE" /\ chip.wel ->
              [chip EXCEPT !.busy = TRUE,
                 !.mem = [p \in Pages |->
                            IF p \div PagesPerSector
                                 = c.page \div PagesPerSector
                            THEN Blank ELSE @[p]]]
         [] OTHER -> chip

(* A program or an erase ends, and write enable with it.                   *)
ChipReady(n) ==
  /\ chips[n].busy
  /\ chips' = [chips EXCEPT ![n].busy = FALSE, ![n].wel = FALSE]
  /\ UNCHANGED <<controller, switch, blk, ncalls, driver, before>>

-----------------------------------------------------------------------------
(* The switch before and after a transfer *)

Monitors == 0 .. 3
(* spim_scu_ctrl_set, then spim_proprietary_pre_config: the clock pins of  *)
(* the other monitors are taken from them. What the GPIO held is saved in  *)
(* a copy of GPIO_ORI_VAL.                                                 *)
MutSwitched(d) == mux
Switched(d) == IF d.spim # -1 /\ conf.master_idx # 0 THEN d.spim + 1 ELSE mux
PreConfig(d) ==
  /\ mux' = Switched(d)
  /\ IF d.spim # -1 /\ mux' # 0
     THEN /\ pin' = [i \in Monitors |-> i = mux' - 1 /\ pin[i]]
          /\ gpio' = [i \in Monitors |-> i = mux' - 1 /\ gpio[i]]
     ELSE UNCHANGED <<pin, gpio>>

(* spim_proprietary_post_config, then spim_scu_ctrl_clear: the copy that   *)
(* is read now holds zeros, and of monitor 1 it is the GPIO output that is *)
(* set, not the pin's function.                                            *)
PostConfig(d) ==
  /\ IF d.spim # -1 /\ mux # 0
     THEN /\ pin' = [i \in Monitors |->
               IF i = mux - 1 \/ i = 1 THEN pin[i] ELSE TRUE]
          /\ gpio' = [i \in Monitors |->
               IF i = mux - 1 THEN gpio[i] ELSE i = 1]
     ELSE UNCHANGED <<pin, gpio>>
  /\ mux' = IF d.spim # -1 /\ conf.master_idx # 0 THEN 0 ELSE mux

-----------------------------------------------------------------------------
(* Calls *)

(* A call of the block device, a raw NOR command, an initialization or a   *)
(* transaction of embedded-hal: at is the page or the sector it starts at, *)
(* n how many, aligned whether what the code looks at is a multiple of     *)
(* their size: the length of a program, the address of an erase. The       *)
(* address of a program is, though nothing looks at it.                    *)
BlockCalls ==
  [op : {"program"}, at : Pages, n : {1, 2}, aligned : BOOLEAN]
    \cup [op : {"erase"}, at : Sectors, n : {1, 2}, aligned : BOOLEAN]
    \cup [op : {"read"}, at : Pages, n : {1}, aligned : {TRUE}]
RawCommands == {"WREN", "WRDI", "RST", "RDID"}
OtherCalls ==
  [op : RawCommands \cup {"transfer", "in_place"}]
    \cup [op : {"read_init"}, size : FlashSizes]
NoGrid == [pass |-> <<>>]
NoDevice == [cs |-> 0, spim |-> -1]
NoCall == [op |-> "none"]
Transactions == {"transfer", "in_place"}
Free == {"read", "RDID", "read_init"}

Wide == conf.capacity > Sz16M   \* supports_4byte_addr
Unit(op) == IF op = "erase" THEN 1 ELSE PagesPerSector
InBounds(c) == c.at + c.n <= conf.capacity * Unit(c.op)
SectorOf(c, i) ==
  IF c.op = "erase" THEN c.at + i ELSE (c.at + i) \div PagesPerSector
PageOf(c, i) ==
  IF c.op = "erase" THEN (c.at + i) * PagesPerSector ELSE c.at + i

FirstCommand(op) ==
  CASE op \in {"program", "erase"} -> "WREN"
    [] op = "read" -> "READ"
    [] OTHER -> op

Leave(r) == pc' = "done" /\ ret' = r /\ UNCHANGED <<request, cmd, idx>>
Return(r) == Leave(r) /\ rx' = rx

(* A call through device v. Behind the monitors a device has CS 0 and a    *)
(* monitor; a started DMA is waited for.                                   *)
Begin(v, c) ==
  /\ pc = "idle" /\ dma = "off" /\ Usable(v)
  /\ IF c.op \in Free THEN ncalls' = ncalls
     ELSE ncalls < MaxCalls /\ ncalls' = ncalls + 1
  /\ call' = c /\ dev' = v
  /\ before' = chips /\ fault' = FALSE
  /\ cmd' = FirstCommand(c.op) /\ idx' = 0 /\ rx' = None
  /\ UNCHANGED <<controller, switch, chips, blk, grid>>

Start == pc' = "config" /\ ret' = "none"
BlockCall ==
  \E v \in blk, c \in BlockCalls :
    /\ Begin(v, c)
    /\ CASE ~InBounds(c) -> pc' = "done" /\ ret' = "OutOfBounds"
         [] InBounds(c) /\ c.op = "program" /\ ~c.aligned ->
              pc' = "done" /\ ret' = "ProgramError"
         [] OTHER ->
              Start /\ \A i \in 0 .. c.n - 1 :
                         IF c.op = "erase" THEN c.at + i \in Sectors
                         ELSE c.at + i \in Pages
OtherCall ==
  \E v \in Devices, c \in OtherCalls :
    Begin(v, c) /\ Start

(* start_transfer! and transaction up to the transfer: select_cs, the      *)
(* switch. Of an error of select_cs start_transfer! says nothing.          *)
Select ==
  /\ pc = "config" /\ cmd # "read_init"
  /\ IF dev.cs < conf.max_cs
     THEN /\ cur' = dev.cs /\ PreConfig(dev) /\ pc' = "bus"
          /\ UNCHANGED <<request, cmd, idx, rx, ret, fault>>
     ELSE /\ UNCHANGED <<cur, switch>>
          /\ IF cmd \in Transactions
             THEN Return("CsSelectFailed") /\ fault' = fault
             ELSE /\ pc' = "next" /\ fault' = TRUE
                  /\ UNCHANGED <<request, cmd, idx, rx, ret>>
  /\ UNCHANGED <<conf, seg, dec, ctl, clk, dma, chips, blk, ncalls, grid,
                 before>>

(* After the transfer: the switch again.                                   *)
Deconfig ==
  /\ pc = "deconfig" /\ PostConfig(dev)
  /\ IF cmd \in Transactions \cup {"read_init"} THEN Return("Ok")
     ELSE pc' = "next" /\ UNCHANGED <<request, cmd, idx, rx, ret>>
  /\ grid' = NoGrid
  /\ UNCHANGED <<controller, chips, blk, ncalls, fault, before>>

-----------------------------------------------------------------------------
(* Transfers: spi_nor_transceive and what it calls *)

(* The commands that carry an address use four bytes of it if the block    *)
(* device supports_4byte_addr, but a sector erase has three always.        *)
FourByte == cmd \in {"PP", "READ"} /\ Wide
ChipPage ==
  IF FourByte THEN PageOf(call, idx)
  ELSE PageOf(call, idx) % (Sz16M * PagesPerSector)
Given ==
  [op |-> cmd,
   page |-> IF cmd \in {"PP", "SE", "READ"} THEN ChipPage ELSE 0,
   data |-> ncalls]

(* What a read command finds in the chips that hear it.                    *)
Answer(heard) ==
  IF heard = {} THEN Junk
  ELSE LET chip == chips[CHOOSE n \in heard : TRUE]
       IN CASE cmd = "RDSR" -> IF chip.busy THEN Busy ELSE Ready
            [] cmd # "RDSR" /\ chip.busy -> Junk
            [] cmd = "READ" /\ ~chip.busy -> chip.mem[ChipPage]
            [] cmd = "RDID" /\ ~chip.busy -> Id
            [] OTHER -> rx
Exchange(heard) ==
  /\ chips' = [n \in DOMAIN chips |->
                 IF n \in heard THEN Take(chips[n], Given) ELSE chips[n]]
  /\ rx' = IF cmd \in {"RDSR", "READ", "RDID"} THEN Answer(heard) ELSE rx

(* spi_nor_transceive_user, and read, write and transfer of SpiBus: the    *)
(* control register goes to user mode and to normal_read again. Only the   *)
(* chip select in user mode takes the accesses as commands.                *)
UserTransfer ==
  /\ Exchange({n \in Heard(dec[cur].start) : n[1] = cur})
  /\ ctl' = [ctl EXCEPT ![cur] = "normal_read"]
  /\ UNCHANGED <<dma, fault>>

(* read_dma and write_dma: the access goes to the address in the window.   *)
(* The control register keeps the command. A time-out stops the engine and *)
(* is an error, which nor_transfer drops; with the interrupt nothing is    *)
(* waited for. A chip select not in write mode takes no data.              *)
DmaAddress == dec[cur].start + SectorOf(call, idx)
CanDma ==
  /\ ~conf.pure_spi_mode_only
  /\ \/ cmd = "READ" /\ conf.dma
     \/ cmd = "PP" /\ conf.dma /\ conf.dma_write
DmaTransfer ==
  /\ CanDma
  /\ ctl' = [ctl EXCEPT ![cur] = IF cmd = "READ" THEN "normal_read"
                                 ELSE "normal_write"]
  /\ \/ /\ Exchange({n \in Heard(DmaAddress) : cmd = "PP" => n[1] = cur})
        /\ fault' = fault
        /\ dma' = IF conf.irq THEN "running" ELSE "off"
     \/ ~conf.irq /\ fault' = TRUE /\ UNCHANGED <<chips, rx, dma>>

FmcUser == conf.ctrl = "Fmc" /\ UserTransfer
FmcDma == conf.ctrl = "Fmc" /\ DmaTransfer
SpiUser == conf.ctrl = "Spi" /\ UserTransfer
SpiDma == conf.ctrl = "Spi" /\ DmaTransfer

Transceive ==
  /\ pc = "bus" /\ cmd # "in_place"
  /\ FmcUser \/ FmcDma \/ SpiUser \/ SpiDma
  /\ pc' = "deconfig"
  /\ UNCHANGED <<conf, cur, seg, dec, clk, switch, blk, ncalls, request, cmd,
                 idx, ret, grid, before>>

(* transfer_in_place is not supported, and its error leaves transaction    *)
(* before the switch is put back.                                          *)
TransferInPlace ==
  /\ pc = "bus" /\ cmd = "in_place" /\ Return("Other")
  /\ UNCHANGED <<controller, switch, chips, blk, ncalls, fault, grid, before>>

(* The DMA of a build with spi_dma_irq ends, and handle_interrupt.         *)
DmaFinishes ==
  /\ dma = "running" /\ dma' = "finished"
  /\ UNCHANGED <<conf, cur, seg, dec, ctl, clk, switch, chips, blk, ncalls,
                 driver, before>>
HandleInterrupt ==
  /\ dma = "finished" /\ dma' = "off"
  /\ ctl' = [ctl EXCEPT ![cur] = "normal_read"]
  /\ UNCHANGED <<conf, cur, seg, dec, clk, switch, chips, blk, ncalls, driver,
                 before>>
FmcInterrupt == conf.ctrl = "Fmc" /\ HandleInterrupt
SpiInterrupt == conf.ctrl = "Spi" /\ HandleInterrupt

-----------------------------------------------------------------------------
(* What a call does next *)

GoOn(c) == pc' = "config" /\ cmd' = c /\ UNCHANGED <<request, idx, ret>>

(* nor_sector_erase has enabled writes before it looks at the address.     *)
AfterWriteEnable ==
  /\ cmd = "WREN" /\ rx' = rx
  /\ CASE call.op = "program" -> GoOn("PP")
       [] call.op = "erase" /\ call.aligned -> GoOn("SE")
       [] call.op = "erase" /\ ~call.aligned ->
            Leave("EraseError")
       [] OTHER -> Leave("Ok")

(* nor_wait_until_ready: the buffer for the status starts as zero.         *)
MutAfterWrite == cmd \in {"PP", "SE"} /\ rx' = Ready /\ pc' = "next"
                 /\ cmd' = "RDSR" /\ UNCHANGED <<request, idx, ret>>
AfterWrite == cmd \in {"PP", "SE"} /\ GoOn("RDSR") /\ rx' = Ready
AfterStatus ==
  /\ cmd = "RDSR" /\ rx' = rx
  /\ IF rx = Busy THEN GoOn("RDSR")
     ELSE IF idx + 1 < call.n
     THEN pc' = "config" /\ cmd' = "WREN" /\ idx' = idx + 1
          /\ UNCHANGED <<request, ret>>
     ELSE Leave("Ok")

Continue ==
  /\ pc = "next" /\ cmd # "RDID" /\ blk' = blk
  /\ \/ AfterWriteEnable \/ AfterWrite \/ AfterStatus
     \/ cmd \in {"WRDI", "RST", "READ"} /\ Return("Ok")
  /\ UNCHANGED <<controller, switch, chips, ncalls, fault, grid, before>>

(* from_jedec_id: without an answer the id is zero, which no flash has.    *)
FromJedecId ==
  /\ pc = "next" /\ cmd = "RDID"
  /\ IF rx = Id THEN blk' = blk \cup {dev} /\ Return("Ok")
     ELSE blk' = blk /\ Return("CapacityOutOfRange")
  /\ UNCHANGED <<controller, switch, chips, ncalls, fault, grid, before>>

Finish ==
  /\ pc = "done" /\ pc' = "idle"
  /\ call' = NoCall /\ dev' = NoDevice
  /\ cmd' = "none" /\ idx' = 0 /\ rx' = None
  /\ ret' = "none" /\ fault' = FALSE /\ before' = <<>>
  /\ UNCHANGED <<controller, switch, chips, blk, ncalls, grid>>

-----------------------------------------------------------------------------
(* nor_read_init and the timing calibration *)

(* aspeed_get_spi_freq_div: the smallest divisor from 2 on that does.      *)
FreqDiv(max) ==
  CHOOSE n \in 2 .. 240 :
    Hclk \div n <= max /\ \A k \in 2 .. n - 1 : Hclk \div k > max

(* skip_calibration: TRUE if there is nothing to calibrate.                *)
FmcSkips == conf.timing_calibration_disabled \/ conf.calibrated
SpiSkips == FmcSkips \/ (conf.master_idx # 0 /\ dev.cs # 0)

(* nor_read_init of the device selects nothing: the window that changes    *)
(* its size is that of the chip select used last.                          *)
ReadInit(reinit, skips) ==
  /\ pc = "config" /\ cmd = "read_init"
  /\ PreConfig(dev)
  /\ IF reinit THEN Reinit(call.size) ELSE UNCHANGED <<dec, seg>>
  /\ ctl' = [ctl EXCEPT ![dev.cs] = "normal_read"]
  /\ IF skips
     THEN /\ clk' = [clk EXCEPT ![dev.cs] = FreqDiv(conf.frequency)]
          /\ pc' = "deconfig"
     ELSE clk' = [clk EXCEPT ![dev.cs] = 0] /\ pc' = "load"
  /\ UNCHANGED <<conf, cur, dma, chips, blk, ncalls, request, cmd, idx, rx, ret,
                 fault, grid, before>>
FmcReadInit ==
  conf.ctrl = "Fmc" /\ ReadInit(~conf.pure_spi_mode_only, FmcSkips)
SpiReadInit ==
  /\ conf.ctrl = "Spi"
  /\ ReadInit(conf.master_idx = 0 /\ ~conf.pure_spi_mode_only, SpiSkips)

calibrationFrame ==
  <<conf, cur, seg, dec, ctl, dma, switch, chips, blk, ncalls, request, cmd, rx,
    ret, fault, before>>
ApplyClock(max) == clk' = [clk EXCEPT ![dev.cs] = FreqDiv(max)]

(* load_flash_calibration_data, spi_calibration_enable: a flash that holds *)
(* nearly the same everywhere shows nothing.                               *)
LoadCalibrationData ==
  /\ pc = "load" /\ grid' = grid
  /\ \/ ApplyClock(conf.frequency) /\ pc' = "deconfig" /\ idx' = idx
     \/ pc' = "sweep" /\ idx' = 0 /\ clk' = clk
  /\ UNCHANGED calibrationFrame

(* get_mid_point_of_longest_one of the cells of calib_res: in the first of *)
(* the longest runs, from the cell before the run on; -1 below four.       *)
MaxOf(S) == CHOOSE x \in S : \A y \in S : y <= x
LastZero(cells, i) == MaxOf({-1} \cup {j \in 0 .. i : ~cells[j]})
Run(cells, i) == i - LastZero(cells, i)
MutMidPoint(cells) ==
  LET n == CHOOSE i \in DOMAIN cells :
             /\ \A j \in DOMAIN cells : Run(cells, j) <= Run(cells, i)
             /\ \A j \in 0 .. i - 1 : Run(cells, j) < Run(cells, i)
  IN (IF LastZero(cells, n) = -1 THEN 0 ELSE LastZero(cells, n))
     + Run(cells, n) \div 2
MidPoint(cells) ==
  LET n == CHOOSE i \in DOMAIN cells :
             /\ \A j \in DOMAIN cells : Run(cells, j) <= Run(cells, i)
             /\ \A j \in 0 .. i - 1 : Run(cells, j) < Run(cells, i)
  IN IF Run(cells, n) < 4 THEN -1
     ELSE (IF LastZero(cells, n) = -1 THEN 0 ELSE LastZero(cells, n))
          + Run(cells, n) \div 2

(* A row of cells for each input delay, and one cell never set after it.   *)
MutRowSize == Delays
RowSize == Delays + 1
Points == (0 .. Hcycles - 1) \X (0 .. Delays - 1)

(* What the cell of an input delay tests at divisor i + 2: the mask of the *)
(* divisor is set in the value that goes to the register, among the bits   *)
(* of the HCLK cycles.                                                     *)
Mask(i) == CASE i = 0 -> 7 [] i \in {1, 2} -> 6 [] i = 3 -> 5
OrBits(a, b) ==
  LET Bit(w) == IF (a \div w) % 2 = 1 \/ (b \div w) % 2 = 1 THEN w ELSE 0
  IN Bit(1) + Bit(2) + Bit(4)
TestedCycle(i, hcycle) == OrBits(Mask(i), hcycle)
Tested(i) ==
  {TestedCycle(i, h) : h \in 0 .. Hcycles - 1} \X (0 .. Delays - 1)
Cells(i, pass) ==
  [j \in 0 .. Hcycles * RowSize - 1 |->
     LET h == j \div RowSize
         d == j % RowSize
     IN <<h, d>> \in Points /\ pass[<<TestedCycle(i, h), d>>]]

(* pick_best_delay: what is found, for every way a sweep may come out.     *)
Outcomes(i) == [Tested(i) -> BOOLEAN]
Picked(i, pass) == MidPoint(Cells(i, pass))
Found ==
  [i \in 0 .. 3 |->
     {[pass |-> pass, div |-> i, hcycle |-> Picked(i, pass) \div RowSize,
       delay |-> Picked(i, pass) % RowSize] :
        pass \in {p \in Outcomes(i) : Picked(i, p) >= 0}}]

(* aspeed_spi_dma_checksum reads the window of the chip select used last.  *)
ChecksumAddress == dec[cur].start

(* run_timing_sweep, one divisor a step: those too fast are left out, and  *)
(* a sweep may find none; the delay found is written to spi084, which the  *)
(* next DMA overwrites.                                                    *)
Sweep ==
  /\ pc = "sweep"
  /\ IF idx = 4
     THEN /\ ApplyClock(conf.frequency) /\ pc' = "deconfig"
          /\ UNCHANGED <<idx, grid>>
     ELSE IF conf.frequency < Hclk \div (idx + 2)
     THEN idx' = idx + 1 /\ UNCHANGED <<pc, clk, grid>>
     ELSE \/ idx' = idx + 1 /\ UNCHANGED <<pc, clk, grid>>
          \/ /\ grid' \in Found[idx] /\ ApplyClock(Hclk \div (idx + 2))
             /\ pc' = "deconfig" /\ idx' = idx
  /\ UNCHANGED calibrationFrame
FmcSweep == conf.ctrl = "Fmc" /\ Sweep
SpiSweep == conf.ctrl = "Spi" /\ Sweep

-----------------------------------------------------------------------------
Init ==
  /\ conf \in Configs
  /\ cur = 0 /\ dec = [k \in CS |-> NoWindow] /\ seg = [k \in CS |-> NoSeg]
  /\ ctl = [k \in CS |-> "normal_read"] /\ clk = [k \in CS |-> 0]
  /\ mux = 0 /\ pin = [i \in Monitors |-> TRUE]
  /\ gpio = [i \in Monitors |-> FALSE] /\ dma = "off"
  /\ chips = [n \in AllChips |-> FreshChip] /\ blk = {} /\ ncalls = 0
  /\ pc = "new" /\ call = NoCall /\ dev = NoDevice
  /\ cmd = "none" /\ idx = 0 /\ rx = None
  /\ ret = "none" /\ fault = FALSE /\ grid = NoGrid /\ before = <<>>

Driver ==
  \/ FmcInit \/ SpiInit \/ Select \/ Deconfig
  \/ Transceive \/ TransferInPlace
  \/ Continue \/ FromJedecId \/ Finish
  \/ FmcReadInit \/ SpiReadInit \/ LoadCalibrationData \/ FmcSweep \/ SpiSweep
Engine == DmaFinishes \/ FmcInterrupt \/ SpiInterrupt
Chip == \E n \in AllChips : ChipReady(n)
Next == BlockCall \/ OtherCall \/ Driver \/ Engine \/ Chip

Spec == Init /\ [][Next]_vars

-----------------------------------------------------------------------------
(* The windows the hardware decodes are those the driver believes in, lie  *)
(* in the region and do not overlap, whatever sizes were asked for and in  *)
(* whatever order (decode_range_pre_init, decode_range_reinit).            *)
Used == {k \in CS : dec[k] # NoWindow}
WindowsSound ==
  /\ \A k \in Used :
       /\ seg[k] = Segment(dec[k])
       /\ dec[k].start >= Base
       /\ dec[k].start + dec[k].len <= Base + Sz256M
  /\ \A k \in CS \ Used : seg[k] = NoSeg
  /\ Used = CS => dec[0].start + dec[0].len <= dec[1].start

(* A command goes to the chip of the device it was called on and to no     *)
(* other, by the window, by a DMA address the window holds, by the switch  *)
(* and by the clock pins of the monitors; so does what the calibration     *)
(* loads, and what it sums if the chip select used last is the device's    *)
(* own (select_cs, spi_nor_transceive_user, read_dma, spim.rs,             *)
(* load_flash_calibration_data, aspeed_spi_dma_checksum).                  *)
RightChip ==
  /\ pc = "bus" =>
       /\ Heard(dec[cur].start) = {ChipOf(dev)}
       /\ CanDma /\ SectorOf(call, idx) < dec[cur].len
            => Heard(DmaAddress) = {ChipOf(dev)}
  /\ pc = "load" /\ dev.cs < conf.max_cs
       => Heard(dec[dev.cs].start) = {ChipOf(dev)}
  /\ pc = "sweep" /\ cur = dev.cs => Heard(ChecksumAddress) = {ChipOf(dev)}
  /\ pc \in {"bus", "load", "sweep"} /\ mux # 0 =>
       \A i \in Monitors \ {mux - 1} : ~pin[i] /\ ~gpio[i]

(* A call of the block device that returned Ok did to the flash what it    *)
(* says and nothing else, and one that failed did nothing, however long    *)
(* the chip takes; except that an address beyond 16 MB cannot be erased, a *)
(* transfer's error is not reported, DMA leaves the window when only its   *)
(* length was checked, and a read that ends by interrupt returns before    *)
(* the data is there (program, erase, read, nor_wait_until_ready).         *)
InRange(p) == \E i \in 0 .. call.n - 1 :
  IF call.op = "erase" THEN p \div PagesPerSector = call.at + i
  ELSE p = call.at + i
Wanted(p) ==
  LET old == before[ChipOf(dev)].mem[p]
  IN IF ret # "Ok" \/ ~InRange(p) \/ call.op = "read" THEN old
     ELSE IF call.op = "erase" THEN Blank
     ELSE Programmed(old, [data |-> ncalls])
Excused ==
  \/ fault
  \/ call.op = "erase" /\ call.at + call.n > Sz16M
  \/ /\ conf.dma /\ ~conf.pure_spi_mode_only
     /\ call.op = "read" \/ (call.op = "program" /\ conf.dma_write)
     /\ SectorOf(call, call.n - 1) >= dec[cur].len
OkMeansDone ==
  pc = "done" /\ call.op \in {"program", "erase", "read"} =>
    \/ Excused
    \/ /\ \A n \in AllChips :
            /\ ~chips[n].busy
            /\ \A p \in Pages :
                 chips[n].mem[p] = IF n = ChipOf(dev) THEN Wanted(p)
                                   ELSE before[n].mem[p]
       /\ call.op = "read" /\ ret = "Ok"
            => conf.irq \/ rx = chips[ChipOf(dev)].mem[call.at]

(* What the cell picked has tested passed, and so did the delays next to   *)
(* it in the same cycle, though that is not the cycle the cell is named    *)
(* for; and no clock is set faster than configured                         *)
(* (get_mid_point_of_longest_one, aspeed_get_spi_freq_div).                *)
CalibrationSound ==
  /\ grid # NoGrid =>
       \A t \in {grid.delay - 1, grid.delay, grid.delay + 1} :
         /\ <<grid.hcycle, t>> \in Points
         /\ grid.pass[<<TestedCycle(grid.div, grid.hcycle), t>>]
  /\ \A k \in CS : clk[k] # 0 => Hclk \div clk[k] <= conf.frequency

(* "Final hcycle: {}, delay_ns: {}" (run_timing_sweep): the delay that is  *)
(* set is one that was tested and passed.                                  *)
DelaySetPasses ==
  grid # NoGrid =>
    /\ <<grid.hcycle, grid.delay>> \in DOMAIN grid.pass
    /\ grid.pass[<<grid.hcycle, grid.delay>>]

(* The calibration of a device sums what its own flash holds               *)
(* (timing_calibration is called with the chip select of the device).      *)
SweepsOwnChip ==
  pc = "sweep" => Heard(ChecksumAddress) = {ChipOf(dev)}
=============================================================================
