# A TLA+ model of aspeed-rust

aspeed-rust is a bare-metal hardware abstraction layer for the ASPEED AST1060
(one Cortex-M4 core, no operating system). Its drivers share state with
interrupt handlers through raw pointers, atomics and statics, and with hardware
that answers late, twice or not at all. This directory models the parts where
the order of those steps decides whether the driver is right; TLC checks the
models on small instances, and TLAPS proves the most important invariants for
every value of the constants. File names and line numbers below are relative
to `src/src/` unless they say otherwise.

Run a check with `tlc -config X.cfg M`, a proof with `tlapm M.tla`.

## 1. Inventory

| Component | Code | State it keeps | Operations | What makes it correct |
|---|---|---|---|---|
| I3C controller transfers | `i3c/hardware.rs`, `i3c/types.rs` | `curr_xfer` (pointer into the caller's frame), the descriptor with its `Completion`, command/response/RX queues, halt state | `do_ccc`, `do_entdaa`, `priv_xfer` → `start_xfer`; `end_xfer` in the handler; `enter_halt`, `reset_ctrl`, `exit_halt` | the handler only touches a descriptor whose frame is alive; each transfer is answered once; results and data are its own; every call returns |
| I3C devices and address table | `i3c/config.rs`, `i3c/controller.rs` | device list, `by_pos`, address book, hardware DAT | attach, detach (two ways), `pick_initial_da`, `reassign_da`, `ibi_enable` | indices follow the list; transfers go to the right address; detached devices are silent; no address is handed out twice |
| I3C target role | `i3c/hardware.rs`, `i3c/hal_impl.rs` | `target_config` (address, permission), two completions, TX/command queues | `target_pending_read_notify`, `on_dynamic_address_assigned`, the secondary branch of the handler | Ok means the controller took this request; nothing is left behind; the address is current |
| I3C in-band interrupts | `i3c/hardware.rs`, `i3c/ibi.rs` | IBI FIFO, one work queue per bus | `handle_ibis`, `handle_ibi_sir`, the enqueue functions, the consumer | every request reported is real, in order, and none is lost silently |
| I3C CCC helpers | `i3c/ccc.rs`, `i3c/hal_impl.rs` | none of their own; the addresses of the targets | one `do_ccc` each; `assign_dynamic_address` runs four in turn | the right target holds the address returned; what is sent to a device reaches its target only |
| I3C clocks | `i3c/config.rs`, `i3c/hardware.rs` | timing registers | `init_clock` | minimum times of the bus, periods no shorter than asked for |
| I2C core, master | `i2c_core/{master,controller,transfer,recovery,hal_impl}.rs` | `completion`, mode, buffers | byte, buffer and DMA reads and writes, `write_read`, `wait_completion`, `recover_bus` | a command is completed by its own status; errors surface; a time-out leaves the bus usable |
| I2C core, target | `i2c_core/{slave,target_adapter}.rs` | receive length, armed state | configure, enable, disable, read, write, interrupt decode | armed after every event for what the bus wants next; every byte delivered once |
| I2C timing and global set-up | `i2c_core/{timing,global,types}.rs` | base clock dividers, `I2CGLOBAL_INIT`, one clock register per controller | `init_i2c_global`, `configure_timing` | the bus runs at the speed asked for |
| I2C legacy | `i2c/*.rs` | same registers, message, completion, the attached target | the same as master and target, interrupt driven but polled | Ok means moved; a target survives the master's errors; every received byte is delivered |
| HACE hash, HMAC | `hace_controller.rs`, `hash.rs`, `hash_owned.rs`, `hmac.rs` | one static context: block buffer, `bufcnt`, `digcnt`, scatter list, digest | init, update, finalize, cancel | the engine is fed exactly the message and its padding, whatever the chunks |
| ECDSA, RSA | `ecdsa.rs`, `rsa.rs` | engine SRAM | verify; encrypt, decrypt, sign | bounded poll, right operands |
| SPI and NOR | `spi/*.rs` | decode windows, segment and control registers, the monitors' switch and pins, the DMA engine | transfers in user mode and by DMA, read set-up, calibration, erase, program | windows disjoint; the chip meant hears the command; Ok means the flash was changed as asked |
| SPI monitor | `spimonitor/*.rs` | table of commands and two tables of blocks, with locks | init, add, remove, lock, enable, passthrough, routing | exactly the regions asked for are blocked; only what was allowed gets through; nothing changes after the lock |
| UART | `uart.rs`, `uart_core/*.rs` | none beyond FIFO and line status | polled read and write, interrupt decode | errors are not lost |
| Watchdog, timer | `watchdog.rs`, `timer.rs` | reload values | start, feed, wait | no overflow, no zero reload |
| GPIO, SCU, pin control | `gpio.rs`, `syscon.rs`, `pinctrl.rs` | registers | read-modify-write | independent bits untouched |

How they interact. An I3C call runs on the thread, publishes its descriptor and
spins; the handler for the same bus runs on the same core and completes it, fills
the interrupt work queue, or (in the target role) completes the two completions
of a notification. The application (`src/tests-hw/src/i3c_test.rs`) drains the
work queue and calls back into the controller. The hash operations of all
controllers go through one static context. Everything else is polled by its
caller.

What is hard: the handler between any two register writes of the thread; late
answers after a time-out; halts that never come; queue resets on an error path
that also hit unrelated queues; status words acknowledged after they were
handled; lists whose indices are stored elsewhere. `PROJECT.json` lists these
under `hazards`, each at its line.

## 2. Modules

| Module | Models | Composition |
|---|---|---|
| `I3cCall` | the promise of a blocking call, without interrupts or queues | abstract specification |
| `I3cXfer` | transfers in the controller role: thread, handler, hardware | implements `I3cCall` (`ImplementsCall`) |
| `I3cXferProofs` | proofs about `I3cXfer` | extends it |
| `I3cAttach` | device list, index map, address book, hardware table | |
| `I3cBus` | `assign_dynamic_address` and the CCCs that move addresses, with targets that lose power | composes `I3cAttach` with the targets; every step of it is a step of `I3cAttach` or leaves that alone |
| `I3cBusProofs` | proofs about `I3cAttach`; `I3cBus` implements it; who hears and owns an address; proofs about `I3cIbi` | extends the three |
| `I3cTarget` | notifications and dynamic address in the target role | |
| `I3cTargetProofs` | proofs about `I3cTarget` | extends it |
| `I3cIbi` | IBI FIFO, decoding, work queue | error resets of `I3cXfer` appear as `IsrEnterOnError` |
| `HaceDigest` | digests and MACs of the three interfaces on the one context | `Padded` is the reference digest input |
| `HaceDigestProofs` | proofs about `HaceDigest` | extends it |
| `I2cMaster` | reads, writes and transactions of the I2C master in three modes, the wait, recovery | driver, engine and other masters in one module |
| `I2cMasterProofs` | proofs about `I2cMaster` | extends it |
| `I2cTarget` | both I2C drivers in the target role | driver, engine, external master and application in one module |
| `I2cLegacy` | the older I2C driver as a master, with a target on the same controller | what its target does with packets is in `I2cTarget` |
| `I2cDriverProofs` | proofs about `I2cLegacy`, `I2cTarget` and `BusTiming` | extends the three |
| `BusTiming` | base clocks, I2C timing of both drivers, I3C clock | the two I2C drivers share the global registers |
| `SpiFlash` | both SPI controllers, the switch, NOR commands, calibration, block device, chips | the monitors' tables are in `SpiMonitor`, their switch is here |
| `SpiFlashProofs` | proofs about `SpiFlash` | extends it |
| `SpiMonitor` | one SPI monitor: commands, blocks, locks | |
| `SpiMonitorProofs` | proofs about `SpiMonitor` | extends it |
| `MC*` | values of the constants for TLC that a configuration file cannot write | extend their module |

### I3cXfer

The thread's `pc` walks through `start_xfer` (`publish`: the swap into
`curr_xfer`; `arm`: `ret`, `done`, TX data and response threshold; `push`: one
command at a time, because the hardware may answer the first before the second
is written), `wait`, and on a time-out `abort`, `halt`, `flush`, `resume`,
`unpublish`. The handler's `isr` walks through `end_xfer`: swap the pointer out,
read `nresp`, collect one response per step, scan `cmds[0..nresp]` for the first
error, on an error halt/flush/resume, complete, and write the status back. The
hardware fetches, answers with success or any error, and reacts to an abort.

Interrupts are serviced at once (`ThreadRuns`): the core has one priority level
and the handler runs as soon as its line is asserted, so the thread moves only
when nothing is pending. RESP_READY is a level derived from the response count;
TRANSFER_ERR is latched. A halt poll that expires is `HaltMayFail`.

A read word is named after the read that fetched it, which is what `OwnData`
needs to tell data apart. `tainted` records that a halt poll expired or that a
command was queued after its transfer had been answered; after that the code
itself cannot tell answers apart, and `OwnData`, `NoIndexPanic` and `I3cCall`
promise less. The second cause is a defect (section 6).

### I3cAttach

`devices` is `attached.devices` (a `heapless::Vec`, capacity `MaxDevs`),
`by_pos` the map from table slots to indices, `in_use` the address book, `dat`
the hardware table reduced to the address and the SIR-reject bit. Actions are the
public operations, complete with their early returns and their order of writes.
`shared` records that a caller attached one address twice; `attach_i3c_dev` does
not check for it.

### I3cBus

Targets are numbers, their provisional IDs; `at` is the address each answers to, `up`
those that have power. `assign_dynamic_address` is four steps, because targets may lose
power between them: ENTDAA, GETPID with the comparison, GETBCR, the interrupt enable.
Every one of them may fail, and a target that won the arbitration keeps the address. The
other operations of the controller happen between two such calls (they take
`&mut self`). A command reaches whoever answers at the address in the table entry of the
device (`Heard`). When two answer at once, a read gives either or a mixture (`Junk`);
when nobody has power, `do_ccc` forgives the NACK of the broadcast address and the buffer
stays zero. `strays` are the targets the driver has lost sight of: left with an address
by a failed or misdirected assignment, by a detach, or by SETNEWDA.

### I3cTarget

The thread walks through `target_pending_read_notify`: queue the payload and its
command, reset `target_ibi_done`, queue data and its command, reset
`target_data_done`, raise the SIR, wait for each completion with a time-out, and
on a time-out halt/reset/resume or disable/reset/enable. The handler reads the
status once, handles the dynamic address, the responses and the CCC update in
this order, and acknowledges what it read. The bus master serves the SIR and the
commands, fails any of them, assigns and resets addresses, and switches the
permission to raise interrupts. `MaxBus` bounds the master's unsolicited actions.
Assignments are counted (`given`, `taken`, `noticed`): `DaNoticed` is about each of
them, and `swallowed` counts those that come after the handler has read the address of
another and before it acknowledges that, which nobody hears of. The length of what the
master writes is left out, and with it the panic of a slice past 256 bytes
(`i3c/hardware.rs:1965`).

### I3cIbi

The FIFO holds words named after their IBI and their place in it (0 is the
status). The handler counts the status words, then reads and decodes one word
after another, as `handle_ibis` does, without any way to know whether a word is a
status. A word that is not is decoded to anything a payload may look like. Payloads
have up to `MaxWords` words and may come from addresses that are not attached, which
`reassign_da` leaves on the bus. In two cases the handler loses its place: behind a payload of more
than one word, and behind one from an unattached address, which it drains and then reads
again. `astray` says that it is there, until an error response resets the queues, and
`garbled` which items were put on the work queue meanwhile.
`QueueCap` is the capacity of the `heapless::spsc::Queue`, one less than its
depth.

### HaceDigest

The engine's result is kept as what it was computed from: `digest` is the initial
value and every cell fed since, so a digest is right if and only if that sequence
is the initial value and the padded message (`Padded`, the definition of the
standard). A byte of the message carries its operation and place, so a byte hashed
twice, lost, or left from an operation before is visible. The context
(`ctxVars`) outlives operations: `InitOp` may drop a scoped or MAC operation
half-way, and only what the code resets is reset. A length word is one cell
instead of eight bytes; `Modulus` is 2^64 in the code. `MacUpdate` is the whole of
`hmac.rs` `update`: it starts from the pads each time, hashes without the scatter
list, and panics when the message does not fit the buffer. Two differences of the
scoped and the owned interface are kept: what becomes of `bufcnt` (`CountAfter`),
and that only the scoped one can be dropped.

### I2cMaster

One set of actions stands for the six transfer functions of `i2c_core/master.rs`,
which share their shape: `StartOp` (entry; byte mode clears the status here),
`Stage` (chunk, copy or check of the DMA buffer, clearing of the status), `Issue`
(the command), `Poll` (one round of `wait_completion` with the whole of
`handle_interrupt`), `Check` (the status read again, the copy to the caller, the
next chunk). They differ in `ChunkMax`, in when the status is cleared
(`ClearedForCommand`), in what is looked at after the wait (`CheckError`) and in
whether the data are taken before or after that (`Copies`). `RecoverBus` and
`RecoverPoll` are `recover_bus`. `Begin` takes a driver of any mode, as
`from_initialized` makes a new one for each operation: what outlives a call is in
the registers. Staging and clearing are one step, and so are reading the status
and clearing it in `handle_interrupt`; an answer of the engine in between is an
answer before it.

The engine is external and modelled from what the driver relies on: it answers a
command at any time or never, also after the driver has given up; a command
written while one runs is lost or takes its place (`Accept`); clearing `PKT_DONE`
clears the outcome of the packet with it (`PacketStatus`; the interrupt handler of
the older driver, `i2c/ast1060_i2c.rs`, compares the whole status with exact values,
and so relies on it); switching the master off and on aborts its command. Other
masters take a free bus. A byte carries its call, operation and place, so that a byte
lost, repeated or taken from another call is visible in `log` (the bus) or `got` (the
caller).

`fresh` says that the engine was idle when the call began. Nothing is claimed of a
call that began while a command given up earlier was still running: the driver
does not abort it on a time-out (hazard at `i2c_core/controller.rs:263`), so its
late completion can complete the new call. What is claimed covers all that can be
left over in the status register itself. For the same reason the histories are
kept for fresh calls only, which is a matter of the number of states.

### I2cTarget

One module for both drivers (`conf.drv`), because the engine and the external master
are the same. The engine receives into `mem` while it is armed, raises `sts`, and
holds the clock or refuses a write while it is not. The core driver (`Core`) hands one
event per poll to the application, which then calls `slave_read` or `slave_write`
(`pc` is the call it owes); `Poll` is the whole of `slave_handle_interrupt`, with
the re-arming it does before the application has read anything. The older driver
(`Legacy`) calls an `I2CTarget` from its handler: `IrqPacket`, `IrqByte` and
`IrqTimeout` are the three branches of `aspeed_i2c_slave_irq`. The patterns of status
bits they know are the sets `Sw`, `SwData`, `Data`, ..., and everything else falls
through. Three marks excuse what the code does not answer: `broken` (a pattern without a
branch, an error after which nothing is armed), `lossy` (the buffer was armed before
it was read and the next bytes came first, or an event was cleared unseen) and `Echo`
(the first byte sent after a write comes from the receive buffer). Both drivers read the
status of a packet (`ReadStatus`) and clear it afterwards (`ClearPacket`): what comes up in
between is cleared with it, and `missed` records that, until the target is set up again.
It can happen after the bare report of an address only, over which the engine stays
armed (`MissedOverAddress`). The polling application is the event loop of
`tests-hw/src/i2c_master_slave_test.rs`. The saved address byte of the core driver is
left out; in byte mode, and there alone, reading, arming and clearing are one step. Left out
too: the fallback to the pool when the core driver has no DMA buffer, a `slave_read` into
less room than there is data, and the `unwrap`s, whose values always fit.

### I2cLegacy

A call is a program of transfers: `Prepare` (`prepare_write`, `prepare_read`), `Start`
(the reset of the master, the recovery of a bus that is not free, the first command),
`MasterIrq` (the handler, called from the poll), and the ways the poll ends: `TimeOut`
and `Completed`. After a time-out the driver reads the status (`FailedStatus`), then, if it
shows nothing, the direction (`FailedDirection`), and resets the controller and arms its
target (`FailedReset`) if either shows something. A command that ends between the two
reads shows in neither: the call returns Ok, nothing is reset, and what it leaves meets the
next call. `slipped` records that, until what it left is gone. While it holds, a new
transfer starts only on an engine that is quiet (`LeftQuietly`): a bound on what is
explored, not a guard of the code. `OkMeansMoved` and `LeftQuiet` excuse `slipped` anyway, and
`TargetStaysArmed` does not look at the engine. `transaction` runs an operation when it
meets the next one, so the last one is never run (`Executed`). `Register` and
`Unregister` attach a target to the same controller, at an address other than the one it
had last; `lost` records that `recover_bus` or `init` switched it off for good. The direction field of the status register is taken to show
a command under way (`Direction`), which is what the driver uses it for.

### BusTiming

Operations in any order on hardware that an earlier boot stage left in any of
`Dividers` and `ApbSels`: the global set-up of either driver, building a clock
configuration (from the hardware or not), `init_hardware` and the older `init` of
a controller, and `init_clock` of the I3C controller. All numbers are those of the
code, in hertz and nanoseconds. The loops that halve a ratio are written as what they
have after n rounds: the core driver's as a division rounded up (`Halvings`), the older
one's as a shift and a bit it remembers (`Lost`, `Halved`, `Rounds`). The two are compared
with each other (`DriversAgree`) and with the speed asked for (`CoreRate`). The registers of a
reset controller are `Reset`. `DriversAgree` compares what the older driver means to write
(`meant`), since the register itself keeps the last field only (`LastWrite`).

`CoreRate` says that the bus is no faster than asked for, and that a period has no cycle too many:
one less would be too fast, or two with a halved clock, for `i2c_core/timing.rs:186` compares the
clock before it was halved with the speed, so that every halved ratio is a cycle longer than
needed (`Spare`; with the dividers 1, 3, 8, 31 and 100 kHz, 27 cycles for 26, 93.5 kHz for 97.1).
It leaves out a configuration that states the clocks wrongly, a controller that a later set-up
reset (it counts as set up by nobody, though its handle is not told), and a clock that is 32 times as fast as the bus, halved or not, with
something over (`SomethingOver`): the search accepts it, and the bus is a cycle too fast.
`I3cMinimaMet` is about rates from 2 kHz to 1 MHz (`BusRate`): below, half a period
overflows the 16-bit counters at the fastest core clocks, and I2C has no mode above
that this controller counts for.

External: a checked build, where an arithmetic underflow panics; the divider select
0 is left out, because the clock times ten does not fit 32 bits; `apb * 10 /
((d + 2) * 10 / 2)` is cancelled to `apb * 2 / (d + 2)`; the controller halves base
clock 4 once for each divider above 4.

### SpiFlash

The driver's windows (`dec`) beside the hardware's (`seg`), the chip select last used
(`cur`), control modes and divisors, the switch, the pins of the monitors, the DMA
engine, and chips that are busy after a write for as long as they like. A call runs
`Select` (`select_cs` and the monitor's pre-configuration), `Transceive` (user mode or
DMA, as `transfer` decides), `Deconfig`, and `Continue`, the loops of
`norflashblockdevice.rs` and `norflash.rs` command by command: write enable, the command,
status reads until the chip is ready, the next page. A chip listens when the address
written to is in its segment and its control register is in user mode (`Heard`), so a
command can reach a wrong chip, two, or none. `fault` is a transfer that
`start_transfer!` does not report. Calibration is `Sweep`, a divisor a step. Each of its tests
sums what lies at `ChecksumAddress`, in the window of the chip select used last, with the
divisor's mask or-ed into the delay (`TestedCycle`), so that several cells make the same
test; any set of tests may pass. The point picked is `MidPoint` of the cells, found once for
every set (`Found`). `RightChip` says of the sweep that it sums the device's own chip if that
was selected last, and `CalibrationSound` that the cells around the point picked passed their
tests; that the chip is the device's (`SweepsOwnChip`) and that the delay set was tested
(`DelaySetPasses`) the code does not see to. Programs and erases may be unaligned
(`BlockCalls`): one is refused for its length, the other not looked at. `OkMeansDone` excuses
`fault`, an erase above 16 MB, the DMA that leaves its window, and the data of a read that ends
by interrupt. Addresses count units of 256 KB; a page is named after its number and holds the call
that programmed it.

### SpiMonitor

`aspeed_spi_monitor_init` goes register by register, because the host's bus is live
meanwhile: `StartInit` writes the control registers, every round of
`spim_allow_cmd_table_init` is an `AllowNext`, `spim_rw_perm_init` is a list of calls
(`Jobs`: both tables opened, then the blocked regions closed) of which each is refused
(`SkipJob`) or begins (`StartSweep`) and then takes one `SweepRound` for each round of the
loop over registers and bits, and `EnableFilter` ends it. The loops' local variables are `at`.
Adding, removing and locking a command, the filter, passthrough, block mode, routing and
`lock_common` are single steps. `Put` is the hardware's part: a locked slot ignores writes; a
locked control register keeps its bits, the selector of the block table included. `asked` and
`applied` are what callers allowed and blocked. `GrantedGetThrough`, one half of
`CommandsAsAsked`, excuses more than the command's own lock: any locked slot from 2 on, the
command's fixed slot locked, or no free slot. `sw_reset` (`spimonitor/hardware.rs:1137`,
`mod.rs:134`) is left out: it pulses one bit, and what that does to the tables and their locks
is the hardware's and said nowhere in the source. The end of a region is taken to fit the 32 bits
that `addr + len` is computed in.

## 3. Runs

| Run | Instance | Shows |
|---|---|---|
| `i3c_xfer` | 3 calls, 2 commands, 2 transaction ids, halts may fail | pointer safety, single completion, own responses and data, every call returns, implements `I3cCall` |
| `i3c_bus` | 2 devices, 2 slots, addresses 8 and 9, 2 targets, devices attached with the ID of the second or with none | index map, routing, silence, address book, Ok of `assign_dynamic_address` means the right target, nobody else hears what is sent to a device |
| `i3c_target` | 2 requests, 3 bus events, 2 addresses | Ok delivers own data, requests return, every address assigned is noticed, one swallowed before an acknowledgement apart |
| `i3c_ibi` | 3 IBIs, payloads of up to two words, attached and unattached addresses, 1 error reset, queue of 2 | requests reported are real and in order, those queued while the handler had lost its place apart, and arrive unless the queue was full or reset |
| `hace_digest` | 2 operations of up to 3 inputs of 0, 1, 7, 8, 9 or 33 bytes, blocks of 8 and 16, buffer of 32, words modulo 64 | the stream is the message, the owned digest and the MAC are right, only long MACs panic |
| `hace_scoped` (violation) | 1 scoped operation of up to 2 inputs | held bytes are hashed twice |
| `i2c_master` | 2 calls of 1 or 2 operations of 0 or 3 bytes, chunks of 1 or 2, DMA buffers of 1 and 2, 2 polls | Ok means delivered, errors surface, the bus is held within an operation |
| `i2c_legacy` | 2 calls of 1 or 2 transfers of 1 or 3 bytes, words of 1, pool of 2, 2 target addresses | Ok means moved, a call leaves the engine quiet (a command that slips between two reads apart), the target stays armed |
| `i2c_target` | 3 transfers, writes of 0, 2, 3 and reads of 1, 3 bytes, buffer of 2, 2 drivers, 3 modes | the target never goes deaf but by an event cleared unseen, that happens over a bare address report only, every byte is delivered, a reader gets the answer |
| `bus_timing` | 2 operations, 2 controllers, 15 states of the hardware, 4 clock configurations, 5 manual times, 21 I3C configurations | I2C speed, agreement of the two drivers, minimum times of the I3C controller |
| `spi_flash` | 6 configurations, 4 devices, 2 calls, pages 0, 1, 64, 6 by 4 calibration points, one configuration with two chip selects to calibrate | windows, the chip addressed, what Ok means, the point the calibration picks |
| `spi_monitor` | 5 operations, 4 handles, 5 slots, 8 blocks in 4 registers | blocked regions, allowed commands, the seal |

Why the bounds are enough. A transfer interferes only with the one before it
(through queues) and with itself (through the handler): three calls allow a
call to inherit from one that itself inherited. Two commands are the least that
lets a first fail while a second is unwritten; two transaction ids tell them
apart. On the bus two devices let the removal of one move the other, two slots let a
slot be mapped twice, and two targets let the wrong one win: the second target, the one
devices are attached for, loses the arbitration to the first. `I3cAttach.cfg`, beside the runs, checks the
tables alone with three devices, the least for which a removal moves two, and with an address
next to a reserved one; the proofs cover the rest. Power may go and come back without bound. In the
target role two requests let a late answer of the first meet the second. For the
work queue, three IBIs overflow a queue of two, a payload of two words is the least the handler
does not read whole, and one error reset brings it back to its place. The digest
only depends on lengths modulo a block and modulo a word: the inputs reach one
less than, exactly, and one more than a block of each size, two blocks and an odd
byte, and 99 bytes in all, which wraps the word of 64; two operations let the second
inherit any state of the context.

For the I2C master three bytes make a full chunk and a shorter last one in buffer and
DMA mode and a first, a middle and a last byte in byte mode; an empty operation is
skipped; a DMA buffer of 1 is too small for the first chunk and not for the last; two
polls let a wait go round once and end; two calls let the second meet what the first
left. The same lengths serve the older driver. In the target role a buffer of two
is filled exactly by a write of two and once over by one of three; a transfer depends
on the one before through the armed state and on the one after when the buffer is armed
early, which makes three. In `BusTiming` two operations are enough because `Init`
ranges over what earlier set-ups leave, and an operation overwrites all that it sets;
the dividers include one where no base clock reaches 1 MHz and two where clock 4 has
to be halved, one of them with something over; the proofs cover every other. In `SpiFlash` what a call leaves to the next is the selected window, the
switch and the write enable: two calls with any number of reads and read set-ups
between them; page 64 is the first that three address bytes cannot name; a run of four
points is the least the calibration accepts. In `SpiMonitor` two free slots between the
reserved ones hold a list that fits and refuse one that does not, the regions
start and end inside a block, on a register's edge, and at the end of the flash; five
operations are a lock of one command, an init over it, an add, a remove and the seal.

## 4. Fairness

Weak fairness on the thread's steps: every wait of the code is a counted loop, and
a core that is not interrupted executes its next instruction. Weak fairness on
the handler: it runs to its end and its polls are counted loops as well. No
fairness on the bus: devices and masters owe nothing. The exception is
`HaltMayFail = FALSE`, where the controller is assumed to honour an abort.
In `I3cTarget` and `I3cIbi` the application is assumed to serve its work queue
(`NoticeAddress`, `Consume`), as the loops of `i3c_test.rs` do; strong fairness
for `Consume`, because a stream of interrupts disables it again and again and a
core that is not interrupted for ever gets to it. The other modules
state no liveness: the status poll of `spi/norflash.rs` has no counter and ends only if the
chip does; the remaining waits are counted loops, which end by their counters whatever the
engine does; in the target role
everything depends on the external master, and what the driver owes it is the safety property
`Attentive`.

## 5. Proofs

Every theorem is about the specification of its module, for every value of the constants
that satisfies the assumption named; the hypotheses beyond it are stated in the theorem.

`I3cXferProofs`, from `XferAssumption` (the constants are positive):

- `TypeCorrect`: `Spec => []TypeOK`, one step per action.
- `PointerSafety`: `Spec => []PointerIsLive`; `AnsweredOnce`: `Spec => []CompletedOnce`.
  Neither is inductive alone. The invariant is `TypeInv /\ SafeInv`: `TypeInv` adds
  to the types that `pushed` stays below the number of commands while pushing;
  `SafeInv` joins both properties with `HandOver`, which says who may hold the
  descriptor at each place of the thread and of the handler: in particular that a
  published pointer is taken either by the handler's swap or by the thread's, and
  that the thread does not take a step while the handler holds it.
- `ScanInBounds` (`NoIndexPanic`), `HonestUnlessMixed` (`ReturnCodeIsOwn`, as long as answers
  are not mixed up) and `TransfersKeepPromise`: `Spec => ImplementsCall`, the refinement of
  `I3cCall` step by step. They need `XferInv`, which adds two parts. `FlowInv` follows the
  queues with no trust in the controller: a command waits at most once in them, and is not
  answered yet. `Trusted` holds while `tainted` does not: the commands of the call are
  numbered through, first the responses collected, then those in the response queue, the one
  on the bus and those in the command queue, up to the last one pushed (`Numbered`), so that
  every step of the hardware and of the handler's loop moves one number on. A halt on request
  may leave a gap in the numbers; nothing is answered before the queues are reset then
  (`Parked`).
- `DataIsOwn` (`OwnData`), for every number of commands and ids. `DataInv` lays the words of the RX FIFO
  beside the responses that report a payload. `OwnData` speaks of transfers of no more
  commands than there are ids, however long those before were: a response finds its command by
  the 4-bit TID, there are 16 of them, and `MAX_CMDS` (`i3c/constants.rs:248`) is 32. Within a
  longer transfer a read may land in the buffer of another of its commands.

`I3cBusProofs`, its first half, from `AttachAssumption`:

- `TypeCorrect`, `PositionsCorrect` (`PosIndexOK`), `RoutingCorrect`
  (`RoutedToDevice`), `DetachedAreSilent` (`SirOnlyFromAttached`),
  `AddressesProtected` (`AddressProtected`). The lemmas are about
  `Shifted` and `DetachDev`: what removing one element does to the sequence and
  to the indices that point into it.

`I3cBusProofs`, its second half, from `AttachAssumption` and `BusAssumption`:

- `BusImplementsAttach`: `BusSpec => Spec`. The invariant it needs is `CallWanted`: the call
  under way was made with an address a caller may ask for. `BusRouting` and `BusTables`
  carry the theorems of the first half over to the bus.
- `OnlyOwnHears` (`HeardByOwn`) and `AssignedIsOwn` (`OkIsOwn`). `BusInv` says whose every
  address is: a target that has one is a stray, or the target the call has just given it to,
  or a device attached at that address is its own (`TargetsOwned`); the winner is alone at
  the address of the device, unless it is a stray or has lost power (`WinnerOwned`); and what
  was read is the ID of a target still there, unless one lost power, nobody answered or two
  did (`IdRead`).

`I3cTargetProofs`, from `TargetAssumption`:

- `OkIsDelivery` (`OkDeliversOwn`). `Delivery` lists the shapes the TX and the command queue
  can have at each place of the thread, the interrupt's payload always before the data, and
  ties every completion flag and response to what the master has taken. It holds unless the
  queues were once reset with a command still on the bus (`stray`), which is the excuse of the
  property too: its answer comes later and says nothing about whose it is.

`I3cBusProofs`, its last part, from `IbiAssumption`:

- `RequestsReal` (`RequestsAreReal`), for payloads of any length from any address; what the
  property excuses (`garbled`) is its own and not a hypothesis. The handler knows its place in
  the FIFO by counting only. `RealInv` says that behind every word of the FIFO stands the rest of its
  IBI and then what came later (`FifoOK`), that what the handler holds is later than
  everything reported and earlier than the rest (`CurOK`, `ReportOK`), and that, unless it
  is astray, it stands at a status word or before the payload of the IBI it decoded last (`PlaceOK`).

`HaceDigestProofs`, from `HaceAssumption` (a block is longer than the digest and the
length field, the buffer is a whole number of blocks and at least two, a word is
longer than the buffer and a multiple of 8):

- `TypeCorrect`, `StreamCorrect` (`StreamIntact`), `OwnedDigestCorrect`
  (`OwnedDigest`), `PanicCorrect` (`OnlyLongMacsPanic`). The inductive invariant
  `Inv` joins them with `CountOK` (a digest uses the scatter list and holds less
  than a block) and `LengthOK` (what is held is the message length modulo a block,
  `digcnt` is the length in words), which is what `finalize` needs to know that
  its padding is that of the definition (`PaddingIsPadded`). The lemmas below it are
  arithmetic (`PadLenIsLeast`: the code adds the fewest zeros; `LengthInBits`:
  shifting the two words by three is the length in bits) and about what the
  buffer and the scatter list hold (`HeldStored`, `FetchedUpdate`).
- `MacCorrect` (`MacOfMessage`), with `MacInv`: after the first update the inner and the outer
  hash are there, and `digcnt` never leaves its low word, because a MAC that does not panic
  fits the buffer and the buffer is shorter than a word.

`I2cMasterProofs`, from `MasterAssumption` (sizes and patience are positive, lengths are
natural numbers):

- `TypeCorrect`, `OkCorrect` (`OkMeansDelivered`), `ErrorsCorrect` (`ErrorsSurface`),
  `HeldCorrect` (`HeldWithinOp`). None is inductive alone. `Inv` joins the types with
  `Control` (which operation and chunk each place of the driver is at) and, for a call
  that found the engine idle, `Fresh`: what the bus has moved and the caller been
  given at each place of the driver, and, while it waits, that the engine runs
  exactly the command for the chunk in hand, or has acknowledged it, or has
  failed it, and that the status register shows that outcome and no other. The
  last part is what a status left over from an earlier call would break.

`SpiFlashProofs`, from `FlashAssumption` (sizes found are whole megabytes, the calibration
tries at least one HCLK cycle, as the code's six), with `FlashInv`, which has a part for each of the
first three theorems and the types:

- `WindowsCorrect` (`WindowsSound`). `WindowsInv`: every window that is used is whole
  megabytes, so that the register, which keeps no finer offsets, holds its exact start and
  end (`SegmentIs`), and every device a call may use has one. `LaidSound` says once that
  windows laid out in order inside the region are sound; the two forms of
  `decode_range_pre_init` and `decode_range_reinit` each come down to it.
- `ChipCorrect` (`RightChip`). `SwitchInv`: from the configuration of the switch to its
  release it shows the monitor of the call's device, and no other monitor has pins. With the
  windows apart, an address is decoded by one chip select (`HitsOne`).
- `CalibrationCorrect` (`CalibrationSound`), for every grid and every outcome of the sweep.
  The point picked lies strictly inside a run of cells that passed (`MidPointInside`), the run
  stays in its row because the last cell of a row never passes (`NextInRow`), and the divisor
  found for a frequency is never too small (`DivisorFits`).
- `DoneCorrect` (`OkMeansDone`). `ContentInv` says at each place of a block call what every
  chip holds: the pages or sectors up to the one in hand are done, and nothing else has
  changed since the call began, unless the call is already excused. It rests on `BusyInv`
  (only the chip of the call is busy, from its program or erase until a status said it is
  ready, so no command is ever ignored), on `WelInv` (a program or an erase finds writes
  enabled) and on `CallInv` (the bounds were checked before anything was touched).
  `OutsideIsLost` shows that a DMA that leaves the window is one the excuse speaks of, and
  `PageGiven` that the address a command carries is the page the call is at.

`SpiMonitorProofs`, from `MonitorAssumption` (the flash is a whole number of registers, the
three commands with a slot of their own are known, there is a slot between the reserved ones)
and `HandlesAssumption` (what callers pass has the types of the handle):

- `SealHolds`: `Spec => SealedStays`. It rests on `ControlInv`: the locks are set together and
  by `lock_common` only (`LockInv`), and while init sweeps a region the table it works on is
  the one the register selects, and what is left of the sweep ends where the region's blocks
  end (`SweepInv`).
- `CommandsCorrect` (`CommandsAsAsked`). `TableInv` says of every command that init has gone through
  that it has its slot, met a lock, or came after the last free slot, and that the slots up
  to the index are filled; the index is what makes a long list drop commands and not
  overwrite them.
- `RegionsCorrect` (`RegionsBlocked`). `RegionInv` says of every block how far init has come:
  swept by the call under way, or as the calls before leave it. The lemmas are the geometry:
  the blocks from the aligned start for the adjusted length are the blocks that hold a byte
  of the region (`RegionBlocks`), a sweep begins at the first of them (`StartPosition`), and
  a round moves past exactly the blocks it writes (`RoundFacts`).

`I2cDriverProofs`, its first part, from `LegacyAssumption` (the pool is a whole number of words):

- `LegacyTargetStaysArmed` (`TargetStaysArmed`) is inductive as it stands: every step that
  switches the target off says so in `lost`.
- `LegacyLeftQuiet` (`LeftQuiet`) needs to know at each place of the thread what the engine may be
  doing (`LegacyEngine`): a command runs only while the thread waits or has just given up, a status
  stands only until the handler takes it or the reset clears it. The direction field is what makes
  it inductive: a wait given up with a command under way finds no status, and is reset for its
  direction alone, unless the command ends between the two reads (`slipped`).
- `LegacyOkMeansMoved` (`OkMeansMoved`). `LegacyFresh` says, while no transfer has failed on the bus,
  what the device has taken and the caller been given: what the transfers before this one asked for,
  and of this one the first `cnt` bytes, or `cnt` and the chunk under way; and that the command and
  the status are those of that chunk. `LegacyRecovery` keeps it through a recovery given up: the one
  command that outlives its call moves nothing.

`I2cDriverProofs`, its second part, from `TargetAssumption` (one byte of room at least):

- `TargetAttentive` (`Attentive`). `Situation` lists the pairs of what the master is doing and what
  the status register shows, with what the target is armed for in each (`Situated`), and that a
  match not yet shown is due (`MatchDue`). It is the long part of the proof: which patterns of status
  bits can come up between two polls, and that each has a branch or sets `broken`.
- `TargetMissedOverAddress` (`MissedOverAddress`). `Handling` says that a handler which has read a
  packet's status finds the register as it was, or has read the bare address and another event
  has come up since (`Overtaken`), and that after an event cleared unseen the engine is at
  rest until the target is set up again (`Stuck`).
- `TargetDelivered` (`Delivered`). `Account` balances the books: what the engine acknowledged is
  what the application has been given and what the receive buffer still holds. `Fetched` says when
  that buffer is empty: between transfers, after a stop or an address, and before a write to the
  master. A stop not yet told of has the transfer still going on, or is in the status register.
- `TargetAnswered` (`Answered`). `Sending` says of a read that what was handed out is what was sent
  and, while the engine is armed to send, what waits in the transmit buffer (`AllHanded`); nothing
  is handed out while the master writes (`NoneHanded`), and a write turns into a read only behind
  data (`Turned`), the case of `Echo`.

`I2cDriverProofs`, its third part, from `TimingAssumption` (the widths of the registers, the three
speeds of I2C, an APB divider other than 0). `TimingInv` says of every controller who filled its
registers, from which clocks and for which speed, through set-ups by the other driver and resets;
the rest is arithmetic, over every divider the registers can hold:

- `TimingCoreRate` (`CoreRate`). A clock of the hardware is never so fast that the divider field is
  too small (`HardwareClocks`, `HalvedFits`). The ratio found divides the clock to the speed or
  less, and one cycle less would exceed it: for a base clock by `RoundUpRate`, for a halved one by
  `SlowRate`, where rounding up after n halvings is rounding up once (`DivideTwice`) and line 186 may
  add the one cycle of `Spare`. Low time, high time
  and the two edges add up to the ratio (`CyclesAreRatio`). The default clocks differ from the
  hardware's in clock 3 only, which no speed but 100 kHz picks, with the same ratio
  (`DefaultAtThree`).
- `TimingDriversAgree` (`DriversAgree`), for ratios from 3 to 30 and no manual times. After n halvings a lost bit is a remainder (`LostBits`: the
  least n for which it is not would follow one for which it is, `TwiceTheDivisor`), so both loops
  end in the same round with the same ratio (`HalvedIs`, `SameDivider`); `LegacyTimesAre` finds the
  ratios for which a difference of the older driver underflows or its high time is 0.
- `TimingI3cMinima` (`I3cMinimaMet`). Both minima come to one, so the period is cut in half
  (`HalfPeriods`); `CycleIs` shows that an accepted core clock has a cycle of four nanoseconds or
  more, and with it that no count is clamped by its register (`CountsLast`), the fast-mode-plus
  counts copied to the open-drain register included. Between 384.6 and 400 kHz the low time proved is
  1250 ns.

Only model-checked: liveness (`CallsReturn`, `NotifyReturns`, `DaNoticed`,
`IbisArrive`), which is out of the prover's reach under fairness.

## 6. Findings

A property the code does not have is either excused where it is stated, with the reason, or
refuted. One is a run: `update` of the scoped hash interface keeps the count of held bytes
when an input completes a block exactly (`hash.rs:223`, run `hace_scoped`); the owned copy of
the same code clears it (`hash_owned.rs:156`).

These have a configuration of their own with which TLC prints the counterexample; the configurations
lie beside the runs of section 3 and are not among them:

| Configuration | Property | What it shows |
|---|---|---|
| `I3cLatePush.cfg` | `ReturnCodeIsOwn` | `start_xfer` keeps pushing commands after the handler has completed the transfer with an error (`i3c/hardware.rs:1379`): Ok for a command that was never answered |
| `I3cTargetAddr.cfg` | `TargetAddrCurrent` | the target's handler acknowledges an address assignment it has not read (`i3c/hardware.rs:984`) |
| `I3cIbiLong.cfg` | `NoneInvented` | `handle_ibi_sir` reads one word of a longer payload; the rest is decoded as interrupts (`i3c/hardware.rs:1850`) |
| `I2cHold.cfg` | `HeldBetweenOps` | `transaction` and `write_read` end every operation with STOP, although their documentation says that the bus is held (`i2c_core/master.rs:244` against `i2c_core/hal_impl.rs:228`) |
| `I2cBuffRead.cfg` | `BufferReadMoves` | `copy_from_buff` never advances its index: a read in buffer mode leaves the last word in the first place (`i2c/ast1060_i2c.rs:716`) |
| `I2cSlipped.cfg` | `LeftQuietAlways` | the older driver reads status and direction after a time-out in two accesses: a command that ends in between is returned as Ok, not reset, and completes the next call (`i2c/ast1060_i2c.rs:1126`) |
| `I2cMissed.cfg` | `AttentiveAlways` | both drivers clear a packet's status after they have read it: an event that comes up over a bare address report is cleared unseen and the target left unarmed (`i2c/ast1060_i2c.rs:1476`, `i2c_core/slave.rs:478`) |
| `SpiSweep.cfg` | `SweepsOwnChip` | the calibration sums the window of the chip select used last, which may be another device's (`spi/spicontroller.rs:484`) |
| `SpiDelay.cfg` | `DelaySetPasses` | the divisor's mask is or-ed into the delay under test: the delay finally set may never have been tested (`spi/spicontroller.rs:415`, `433`) |
| `SpiMonitorLocked.cfg` | `LockedNotEnabled` | an add of a command that is locked answers Ok, and takes a new slot for it where it can, against the comment at `spimonitor/hardware.rs:662` |

Others came up while translating, and the models follow the code in them:

- I2C, older driver. Each write to the clock register starts from its reset value, so only
  the last field survives (`i2c/ast1060_i2c.rs:504-533`); a comment in `i2c_core/timing.rs`
  says so too. The first `init` of a program resets every controller, also those of the core
  driver. `transaction` never runs its last operation. A transfer that fails on the bus
  returns Ok. In the target role, buffer mode delivers what the buffer held before.
- I2C, core driver. A packet error and a switch-off and on leave the target unarmed; the
  receive buffer is armed before it is read. A base clock slightly more than 32 times as fast
  as the bus, halved or not, gives a bus one cycle too fast; any other halved clock one that is a cycle slower
  than it need be. `target_adapter.rs` is part of no module.
- I3C addresses. A target that took the address of a device in a call of
  `assign_dynamic_address` that failed keeps it: a retry is answered by it again, or by nobody, and
  only RSTDAA helps. `assign_dynamic_address` does not look whether the address is taken: a
  second target may be assigned to it. `ccc_setnewda` asks the address book and does not tell it,
  nor the table, nor the device. `reassign_da` frees an address its target still answers to.
  `ibi_enable` does not look at the result of its ENEC.
- I3C clock. The minimum times are divided by the SCL period, which makes the low time of
  Fast mode 1250 ns above 384.6 kHz (1300 in `i3c/constants.rs`). A default `I3cConfig`
  panics in `init_clock`. `validate_clock` is never called.
- SPI. An erase of a sector above 16 MB sends three address bytes and hits another;
  `nor_read_init` resizes the window of the chip last selected, not of the device it is called
  for; the calibrated delay goes to one register whatever the chip select, and the next DMA
  overwrites it; an error inside a transaction leaves the switch set.
- SPI monitor. Commands past the last free slot are dropped without a word; so is
  everything a second `init` asks for after the lock.

## 7. Plan

Done: the I3C controller, its bus, the target and interrupts; the hash engine; both I2C drivers as
master and target; bus clocks; the SPI flash path and the SPI monitor.

Proved: every safety property of `I3cXfer`, `I3cAttach`, `I3cBus`, `I3cTarget`, `I3cIbi`,
`HaceDigest`, `I2cMaster`, `I2cLegacy`, `I2cTarget`, `BusTiming`, `SpiFlash` and `SpiMonitor`.

Next: the composition of `I2cLegacy` and the older driver's half of `I2cTarget`: bytes received
while the master of the same controller is being reset.

## 8. Not modelled

UART, watchdog, timer, GPIO, SCU and pin control are tables of registers with
read-modify-write accessors; nothing in them depends on an order. ECDSA and RSA are a
fixed sequence of writes around a bounded poll. ENEC, DISEC, RSTACT and GETSTATUS pack one
CCC each and call `do_ccc`, which `I3cXfer` models. `spi/spitest.rs` is a test program: its configurations are
the constants of `MCSpiFlash`.

Of the I2C master: the part of `init_hardware` that is no timing, the interrupt mask, the
queries `is_bus_busy` and `needs_recovery`, and `start_transfer` of `i2c_core/transfer.rs` with
its helpers, which nothing calls. `copy_to_buffer` and `copy_from_buffer` appear as the copy
of a chunk; their packing into words does not. Of the older driver: the SMBus alert and the
interrupt mask.

Of SPI: clock and pin set-up, command words and I/O widths, the JEDEC identification beyond
the size it gives. Of the SPI monitor: the log registers, the reset pulse and the pins.

Of I3C: `target_ibi_raise_hj`, one register write.

`hash_key` of `hace_controller.rs` runs for keys longer than 128 bytes only, which no
key type of `hmac.rs` is. The wait for the hash engine is an unbounded poll of one
register; the model lets the engine answer at once.

Register packing, parity, logging, the content of CCC payloads, pin multiplexing and
reset sequences are left out: they are tables, and the hardware they talk to has
no model to check them against. The second `&mut` the handler makes of the controller is
undefined behaviour in the language; the models take the outcome the build has, where
every access to shared state goes to memory.
