# A verification of the AIGSG-PS3 firmware

This directory holds TLA+ models of the firmware in this repository, TLC
configurations that check them on small instances, and proofs checked by TLAPS.
The firmware is a LoRa relay node (and, in older files, a parking sensor) for
the Intel Quark D2000, with the bootloader and the peripheral drivers of
Intel's QMSI board support package under `bsp/`.

To check everything: `tlc -config X.cfg M` for each run below, and `tlapm M.tla`
for each proof module.

## 1. The system

### 1.1 Components

| component | source | state it keeps | operations | what makes it correct |
|---|---|---|---|---|
| BL-Data | `bsp/bootloader/fw-manager/bl_data.c` | two copies of the metadata in flash, one in RAM | sanitize at boot, write back | one copy is always good; copies agree when nothing is in progress |
| ROM boot flow | `bootstrap/rom_startup.c`, `fw-manager/fm_hook.c` | FM sticky bit, FM pin | sanitize, then FM mode or the application | every boot ends somewhere; only whole applications are started |
| DFU core | `fw-manager/dfu/core/dfu_core.c` | state, status, alternate setting, two block counters | the DFU requests | blocks are taken in order, once, or the transfer fails |
| QFU handler | `fw-manager/qfu/` | header of the image, error status, block buffer | header, block, finalize, abort | updates are atomic; versions never fall |
| QFM handler | `fw-manager/qfm/qfm.c` | pending response, status | system information, application erase, key update | keys and erasures survive power losses |
| QDA, XMODEM | `fw-manager/dfu/qda/` | packet buffers, sequence numbers, timers | send and receive over a UART | packets are delivered once, in order, or not at all |
| USB DFU | `fw-manager/dfu/usb-dfu/`, `drivers/usb` | control-transfer state | setup, data and status stages | every control transfer is answered |
| I2C, SPI, UART, DMA drivers | `bsp/drivers/i2c`, `spi`, `uart`, `dma` | the transfer in progress, one per controller or channel | start, interrupt handler, terminate | every byte moves once and in order; no FIFO overruns; the callback runs once, when the data has moved |
| ADC drivers | `bsp/drivers/adc` | the conversion in progress, the sequence table, the mode | convert, calibrate, change the mode, interrupt handler | a conversion is complete and without gaps, of the channels asked for |
| mailbox | `bsp/drivers/mailbox` | status, control and data words shared by two cores | write, read, interrupt handler | every message is read once and whole |
| RTC, timers, watchdog, comparator, GPIO | `bsp/drivers/` | registers, callbacks | configure, start, stop, interrupt handler | no alarm is lost; each is told to its own callback |
| clock, power states | `bsp/soc/*/drivers/clk.c`, `power_states.c` | oscillators, dividers, flash wait states, saved registers | change the frequency, sleep, deep sleep, restore | the wake-up that was asked for happens; the flash is never read too fast; everything lowered is given back |
| relay application | `main.c`, `relay_app.c` | relay state, identity | receive, switch, acknowledge, sleep | relay and report agree; the node never sleeps through its wake-up |
| LoRa driver | `sx1272/sx1272.c` | cached mode of the radio | mode changes, send, receive | what is sent is sent; the cache is the radio's mode |
| EEPROM identity | `main.c`, `24lcxx/24lcxx.c` | identity in EEPROM | read and write at boot | the node keeps its identity |
| parking sensor (old) | `old_ps_app/ps_app.c` | filter and detection state | sample, detect, report | every arrival is reported |
| magnetometer | `magnetometer/` | trim values | register access, compensation | no overflow in the compensation |
| command line | `cli/` | line buffer, history ring | insert, delete, history, completion | the ring keeps whole lines, in order |
| CRC, RTC waits, debug | `crc16.c`, `rtc/rtc.c`, `debug.c` | - | - | waits end over the counter's wrap |

### 1.2 Interactions and what is hard

The bootloader is single threaded and polls its transport; its difficulty is
power loss. Every flash page is erased and then filled word by word, so each
update of BL-Data or of the application flash is a sequence of steps any of
which may be the last one before the next boot; and the host may send any DFU
request at any time, so that transfers fail in the middle in many ways.

The application is single threaded with interrupt handlers; its difficulty is
interrupts that come between a check and the sleep that relies on it, the
radio changing its mode by itself, and messages lost on the air.

The drivers are interrupt-driven state machines, shared between the caller
that starts a transfer or terminates it and the handler that moves the bytes,
over a controller that goes on while the handler runs: what a handler read of
the FIFO levels, the status or the mask may have changed when it acts on it.
The mailbox adds a second core that reads and writes the same registers.

The command line is sequential; its difficulty is a ring of bytes that holds
lines, lengths and whatever earlier lines left in it.

## 2. Modules

| module | what it models |
|---|---|
| `BlData` | BL-Data: the two copies in flash, the application flash, sanitizing at boot, writing back, erasing; power losses |
| `FwUpdate` | FM mode on top of it: DFU core with the QFU and QFM handlers |
| `FirmwareSlot` | abstract specification: a slot per partition that updates atomically |
| `FwUpdateProofs` | the proofs about `FwUpdate` |
| `RelayNode` | the application: relay, radio, comparators, deep sleep |
| `RelayNodeProofs` | the proofs about `RelayNode` |
| `Xmodem` | one package over XMODEM between two ends, and QDA's check of its length |
| `XmodemProofs`, `XmodemRunProofs` | the proofs about `Xmodem`, and about the two instances of it that one run checks |
| `Qda` | QDA's dialogue of requests and answers, both ends of it, over a faulty line |
| `Transfer` | abstract specification: a transfer moves its data and calls back once |
| `I2cMaster`, `SsI2c` | interrupt-driven transfers of the two I2C masters |
| `I2cSlave` | the slave of `qm_i2c.c`, between a master's transfers of any length |
| `SpiMaster`, `SsSpi` | interrupt-driven transfers of the two SPI masters |
| `I2cDma`, `SpiDma` | transfers of the masters of `qm_i2c.c` and `qm_spi.c` by DMA |
| `I2cPolled`, `SpiPolled`, `UartPolled` | the functions of these drivers that hold the processor until their transfer is over |
| `I2cTiming` | the SCL counts both I2C drivers compute from speed and clock |
| `SpiSlave` | the slave of `qm_spi.c` |
| `Uart` | writes and reads of the UART, by interrupts and by DMA |
| `Dma` | the channels of the DMA controller, in the four transfer types |
| `Adc` | the ADC of the D2000: conversions, calibrations and mode changes with one handler |
| `MessageSlot` | abstract specification: a channel holds one message |
| `Mailbox` | the mailbox of the Quark SE, between two cores |
| `CommandHistory` | abstract specification: the newest lines that fit, and moving among them |
| `Console` | the line editor with its history ring |
| `Clock` | the clock tree of the D2000 and the low power states, register write by register write |
| `Timers` | the drivers of the always-on counters, RTC, PWM, watchdog, PIC and sensor-subsystem timers |
| `I2cProofs` | the proofs about `I2cMaster`, `SsI2c`, `I2cPolled`, `I2cDma` and `I2cTiming` |
| `SpiProofs` | the proofs about `SpiMaster`, `SsSpi`, `SpiPolled` and `SpiDma` |
| `UartProofs` | the proofs about `Uart` and `UartPolled` |
| `DeviceProofs` | the proofs about `Mailbox`, `Dma`, `Adc`, `Timers`, `I2cSlave` and `Clock` |
| `MCFwUpdate`, `MCRelayNode` | values of the constants for TLC |
| `MCXmodem` | two instances of `Xmodem` with different constants |
| `MCLink` | `MCXmodem` and `MCRelayNode` in one run, one of which runs in each behaviour |
| `MCDrivers`, `MCDevices` | instances of several independent components, one of which runs in each behaviour |

### 2.1 BlData and FwUpdate

*State.* `main` and `bck` are the two flash pages, `shadow` is
`bl_data_shadow`, `code[p][k]` the flash that block `k` of partition `p` fills
(a page, or two on the Quark SE). `pc` is the flash write execution is at;
`next` says what `bl_data_shadow_writeback` returns to. A page being written is
unchanged, `Blank` (erased) or `Torn` (partly filled) after a power loss.
`dfuState`, `dfuStatus`, `alt`, `blockCnt` and `nextBlockNum` are the variables
of `dfu_core.c`; `hdr`, `rhStatus`, `blk` those of `qfu.c`; `infoPending` that
of `qfm.c`.

*Actions.* One per DFU request and outcome (`DnloadHeader` is a first block for
QFU, `DnloadData` the following ones, `DnloadRequest`, `DnloadKey` and
`DnloadExtra` those for QFM, `DnloadEnds` the empty block), one per flash write
(`FixMain`, `FixBck`, `ErasePage`, `WritebackMain`, `WritebackBck`,
`WriteBlock`), the ends of the boot (`StartApp`, `EnterFm`) and `PowerLoss`.
As nothing else runs while a handler writes flash, and RAM does not survive a
power loss, a handler's changes of RAM are made when it starts.

*Abstractions.* A block is known by the image it is a block of; with
authentication the host may send blocks of another image or of none, which the
hash of the block shows up; without, it sends those of the image it announced.
A header is well formed, without magic, or with unexpected sizes. HMAC and CRC
are perfect. The first word of a torn page may or may not be written, so
`rom_startup` may or may not take it for an application. The QFU header names a
partition and DFU an alternate setting: partition `p` is the one of alternate
setting `p`. `app_version` is represented by the image it came with.

*Not modelled.* Flash write failures other than the verified page write; USB
detach; trim codes and the ROM version, which are written once with BL-Data.

### 2.2 RelayNode

*State.* `pc` walks the one thread through `task_RelayControl` and `sendData`
(`ret` is where the latter returns); `cached` is `currentMode`, `radio` the mode
the chip really is in; `map`, `rxDone`, `crcErr`, `cad` and `fifo` are the
registers of the SX1272 the code reads; `enabled` is `cmp_en`, `masked` the two
bits of the interrupt router's comparator mask; `stat`, `out` and `led` are
`relay_stat` and the two pins. `acked` is the state the last acknowledgement
carried. `fresh` is a history variable: the message buffer was filled in this
round, from a packet that passed its check.

*Actions.* The statements of the task between two points where something else
can interfere; `Isr` is `qm_comparator_0_isr` with the application's callback.
The radio receives (`PacketArrives`) and leaves TX and CAD by itself, the user
touches the pad (`Finger`). `Arm` chooses any further comparators, as the
configuration is built in an uninitialised structure. The buffer a failed
packet leaves unwritten holds the last message or nothing of interest.

*Abstractions.* A packet is "on", "off" or nothing to this node. Delays may
take any time. Mode changes are immediate (`setMode` waits for DIO5 in a loop
that ends at once). The touch pin may read low after its input buffer was
switched off, touched or not. The comparators are level sensitive. The node
starts after `Radio_Init`, which has listened for a while and may have
received something.

*Not modelled.* Failures of the SPI transfers, whose results the driver
ignores; payload lengths; signal strength arithmetic; `relay_app.c`'s UART
output; the identity a message is compared with, which is taken to be right.

### 2.3 Xmodem

*State.* `s`, `pktNo`, `left` are where `xmodem_transmit_package` is, its
`pkt_no` and `retransmit`; `r`, `got`, `errCnt` where `xmodem_receive_package`
is, its `data_cnt` in packets (`exp_seq_no` is one more) and `err_cnt`. `toR`
and `toS` are the two directions of the line, with what the UARTs have buffered.
`request` is what `qda_receive_loop` did with the result.

*Actions.* Each answer of `xmodem_io_getc`, with all that follows up to the next
call of it: `StartTransmit`, `GetAck`, `GetOther`, `SenderTimeout` at one end,
one action per result of `xmodem_read_pkt` at the other. A fault is spent where
something is put on the line: it is lost, or corrupted.

*Abstractions.* Packets travel whole. One whose body is corrupted fails its CRC;
one with a damaged or missing start, or with bytes missing, is noise, after
which the receiver discards until it times out. Noise never becomes a control
byte: XMODEM does not protect those. Both ends run the firmware's functions: the
device is sender and receiver in turn, and the host's tool is not in this
repository. A timeout is "in time" when the line is empty both ways; others are
counted by `early`. The receiver's timeout is the shorter one, as
`xmodem.c:256-262` asks for, which `waited` records. Packet numbers do not
wrap: the largest buffer, `QDA_BUF_SIZE`, holds far fewer than 256.

*Not modelled.* The bytes within a packet, UART errors other than as faults.

`Qda` puts many packages in a row. *State.* `role[e]` is where end `e` is in
`xmodem_transmit_package` or `xmodem_receive_package`, or how its last transfer
ended; `tries[e]` its attempts left or its `err_cnt`, `buf[e]` what it sends or
has received, `line[e]` what is on its way to it. `pinLow` is the FM pin, by which
`fm_entry_uart` starts the loop again or resets.

*Actions.* The two functions as in `Xmodem`, at either end (`GetC` .. `Fail`),
and around them the loop of `qda_receive_loop` (`Answer`, `NextRequest`,
`LeaveLoop`) and the host (`Ask`, `Await`, `Answered`, `Finish`), which is external:
it repeats a request until it is answered, except for the reset.

*Abstractions.* A package is one packet. A damaged byte is never taken for
another control byte. Timeouts are in time, the host's the longer ones except
where it discards, for which the comment at `xmodem.c:256-262` proposes a "special
small timeout". A packet is longer than all attempts of one transmission that
reads it as answers, and its tail lasts for that of the next one only.

### 2.4 Transfer and the modules of the I2C, SPI and UART drivers

*Contract.* `Transfer` is what every asynchronous driver promises its client:
after the start data moves, in steps of any size, and the client is called back
once; it is told "done" only when everything has moved. Each driver instantiates
it with what it counts as moved: bytes taken by the bus or out of the RX FIFO,
frames clocked and stored, bytes that have left the UART's FIFO.

Where a driver falls short of that, in a case that its code can meet, the model has
the case and records it, and the contract says what is left of it. `missed` is an
error the hardware has raised and the driver has not looked at: a transfer reported
done may then be short, and the error is reported after it, in a callback too many,
or not at all (`Again`). `disturbed` is a transfer that has met what the driver is
not made for: nothing is said of it any more until a transfer starts anew on hardware
that is left clean. 2.11 says what each leads to.

| driver | `missed` | `disturbed` |
|---|---|---|
| `I2cMaster`, `SsI2c`, `I2cPolled` | a refusal or abort while the handler runs, or after the report of a transfer without STOP (`AbortMissed`) | - |
| `I2cDma` (`i2cUpset`) | - | a handler later than the next byte, or within a termination; a write, or a read without STOP, is terminated; a refusal or a bus error of the DMA while no byte of a write moves |
| `SpiMaster`, `SsSpi`, `SpiPolled` | - | - |
| `SpiDma` (`spiMet = "broken"`) | - | a bus error in a mode of two channels; a handler within a termination |
| `Uart`, writes (`uartMet`) | a read has set the last threshold of the write back, which may so be reported with bytes in the FIFO | a write that starts on such bytes |

Besides, `spiMet = "apart"` records for `NeverOverrun` that a frame has ended between
the two reads of the FIFO levels in `handle_spi_tx_interrupt` of `qm_ss_spi.c`; the
contract holds all the same.

*State.* The driver's counters keep their names with a prefix (`i2cWritePos`,
`i2cReadCmdSend`, `spiTx`, `uartWritePos`), registers are variables of their own
(`icMask`, `icTxTl`, `spiImr`, `uartEtbei`), and a FIFO is a count or, where order
matters, the sequence of commands in it (`icTxFifo`). `i2cPc` and `spiPc` are
where the handler is.

*Actions.* One per part of the handler between two accesses to the controller
that something can change in between; the bytes of a fill are pushed in one
step, as the controller can only make more room meanwhile. The controller is
modelled from how the drivers use it (`BusTake`, `SpiClock`, `ShiftOut` and so
on): it takes a command or a frame into its shift register, finishes it, is
refused, aborts. `SsI2c` and `SsSpi` have the sensor subsystem's split handlers
over the same controller, one interrupt served at a time. The bus refuses and aborts
at any time, reads and writes of the UART overlap, and frames end between any two
accesses.

*Assumption about the environment.* A client starts its next transfer outside of the
handler.

`I2cSlave`. *State.* `slvRx`, of which `i2c_read_pos` is the length,
`slvWritePos`, `slvOngoing`, `slvFirst` and `slvAddressed` are the driver's
variables; `slvRaised` is what the controller has raised, `slvSnap` the handler's
copy of it, `slvPc` where the handler is. `slvSeg`, `slvOut`, `slvMsg` and
`slvGiven` are history: what the master wrote and read, and what the client was
told and gave. A byte written is its number in its transfer.

*Actions.* The master's (`BusStart` .. `BusStop`), external, which stretch over
several transfers, repeated starts and other slaves' traffic; the handler in the
parts between which the bus can go on, the loops over the FIFOs byte by byte, as
the client is asked for buffers within them. `SlvAskClient` is the client's
choice: to go on, in the structure it gave or in another one, or not. `slvStale` says
that the handler works with the old structure: what it stores or sends meanwhile
is named `Astray` and `Old`.

*Assumption*: `SlvPrompt` (the handler is done with a START, STOP or last byte
before the next data on the bus: a byte takes longer). Left out: general calls, and
bus errors that raise TX_ABRT alone.

`I2cDma`, `SpiDma`. *State.* `idOngoing` and `sdPending` hold the directions whose
flag `ongoing_dma_*_operation` or `cb_pending` is set; `idChan` and `sdChan` say of
each DMA channel whether it is busy or has an interrupt to show, `idLeft` and
`sdLeft` what it has still to move. `idPc` is the wait `i2c_dma_transmit_callback` is
in, `idTerm` and `sdTerm` where a client's termination is. The controller and the
contract are those of `I2cMaster` and `SpiMaster`, the channels are external: `Dma`
has their driver.

*Actions.* Start and termination, the latter in its two looks at the flags and
the calls between them; the callbacks of the two channels, up to each wait; the
handler of TX_ABRT; a unit moved by a channel; a refusal, a failure of the
channel's bus, each at any time. A client that starts anew after an error has stopped
the channels itself, as the drivers leave the other one running. The two channels
keep up with the bus.

`I2cPolled`, `SpiPolled`, `UartPolled` add the blocking functions over the same
registers and FIFOs with the interrupts masked, as the two are used in turn:
`i2cPoll`, `spiPoll` and `uartPoll` are where the function is. An action is one
look at the status with what follows from it, since the controller goes on in
between; the sensor subsystem's variants look in another order
(`SsPollStatus`, `SsI2cPollPop`). They keep the contract of `Transfer` too,
which counts a byte as moved when the bus takes it; a refusal of the last one may
come too late for the polled write (2.11).

`I2cTiming`: `sclLow` and `sclHigh` are the counts `set_config` writes for a
speed and a frequency of the clock, with the unsigned arithmetic that refuses
what is too slow.

`SpiSlave`. *State.* `spsTx` and `spsRx` are `tx_counter` and `rx_counter`,
`spsTxFtl` and `spsRxFtl` the thresholds, `spsPc` where the handler is.
*Actions.* Start, termination and the handler frame by frame, as the callback may
go on with another buffer (`SpsUpdate`); the master's frames are external. *Not
modelled.* An update of one direction only, which masks the interrupts of the
other (`qm_spi.c:648-655`), and clients that give another descriptor.

*Not modelled.* Configuration of the line and slave selection, saving of the
context.

### 2.5 Dma and Adc

*State.* `dmaPrv` is `dma_channel_config`, `dmaReg` the registers of a channel
that decide how it goes on (chaining, RELOAD, LLP, enable), `dmaRaw` and
`dmaMask` its interrupts. `dmaAsked`, `dmaPos` and `dmaOwed` are history: how many
blocks were asked for, how many have moved, how many buffers wait to be reported;
`dmaUpset` the channels that met one of the two things the driver is not made for: a
contiguous transfer of a single block, and the end of another channel's transfer
before a block interrupt is served, which the handler, as all channels share a status
register, takes for the end of this one. Such a channel runs on; the properties say no
more of it until it is terminated, or started anew after it has stopped.

*Actions.* The configuration functions, start, terminate, one action per branch
of the two handlers, and the controller moving a block or failing. A block takes
longer than the handler's latency. Any channels run at the same time.

`Adc`. *State.* `adcStatus` and `adcEnable` are the interrupt registers, `adcSeq`
the sequence table, `adcFifo` the samples; `adcXfer`, `adcSamples` (of which `count`
is the length) and `adcDummy` are `irq_xfer`, the client's array and
`dummy_conversion`; `adcSnap` is the handler's `int_status`. A channel is the set
of the bits of its number. A sample says whether all samples before it are there.

*Actions.* The functions of the driver, one per part of `qm_adc_isr_handler`
(overflow, samples, end of a command), between which the ADC goes on converting,
and the handler of a mode change with its dummy conversion. The client has one
operation under way and starts none from a callback. A command without
`QM_ADC_CMD_IE` is taken to leave no status: with a CC left by `qm_adc_set_mode`, the
next mode change would not be reported. The table has four entries, all
of `seq0`, where the chip has 32.

*Not modelled.* Sample window, resolution, the value of a calibration; the ADC of
the sensor subsystem (`qm_ss_adc.c`), which the D2000 does not have.

### 2.6 Mailbox

*State.* `mboxSts`, `mboxCtrl`, `mboxData` are the registers of a channel, two
words of which are a message; `mboxPut` and `mboxGet` are where
`qm_mbox_ch_write` and `qm_mbox_ch_read` are at each core, with the words read so
far; `mboxIsr` is the handler's walk over the channels.

*Actions.* One per access to a register, so that the two cores interleave word
by word. The reading core reads in the callback, from a task the callback wakes,
or by polling.

### 2.7 Console

*State.* The fields of `microrl_t` and `ring_history_t`: `ringBuf` holds each
line after a byte with its length, and a zero length ends the walk.

*Actions.* One per key or byte of an escape sequence, with all the code does for
it. The history is `CommandHistory`, an ordinary sequence of lines, through the
walk from `histBegin` (`Header`, `LineAt`).

### 2.8 Clock and Timers

`Clock`. *State.* `ccu`, `osc0`, `tmg`, `divs` are the registers that decide the
frequency, the flash's wait states and the other dividers; `lowered` the further
registers that hold what a low power state wants; `context` is `power_context`;
`writes` what the function under way has still to write.

*Actions.* A function is the sequence of its register writes, computed where it
starts (`SetModeWrites`, `DeepSleepWrites`, ...); `Write` does one. The processor
fetches from the flash between any two, which `FlashTimingHeld` is about. `Wake`
is the hardware's switch to the hybrid oscillator.

*Abstractions.* Frequencies are in 1/32 MHz. An oscillator is locked by the time
the code goes on. The voltage regulators, the wake mask and the gates of the
peripherals are names in `lowered`: whether each that is changed is given back.
`rtcWoke` remembers that the RTC has ended a deep sleep. The properties name three
exceptions, where the code leaves something behind (2.11): the flash after such a
wake-up, until the return has written `osc0_cfg1` (`Exposed`); the wake mask, which
`qm_power_soc_sleep` clears for good; and a second setting of the divider of the
peripherals.

`Timers`. *State.* `on`, `masked`, `pending` are the channels that count, whose
interrupt is masked, and is pending; `task` and `isr` the steps the client's call
and the handler have still to do; `unseen` is history: expiries not told yet.

*Actions.* The `set_config` of each driver as the sequence of its writes, between
which the timer may expire and its handler run; start, stop, reload, alarm; one
handler per driver, and the timers that go on counting during it.

*Assumptions.* `LiveReconfig` names the timers that are configured anew while they
run: the RTC, which its driver stops first.

### 2.9 Runs

| run | question | bounds |
|---|---|---|
| `fw_auth` | updates under authentication, with key changes, refused versions, power losses everywhere | one partition of two blocks; two images, of one block (version 0) and of two (version 1); two keys; versions 0 and 1; block numbers modulo 4 |
| `fw_open` | two partitions of two targets without authentication: nothing left over; atomic slots; boots settle | two partitions of two blocks; one image that fills a partition and one too large for it |
| `fw_numbering` | finding: see below | first block numbered 0 or 1 |
| `relay_crc`, `relay_wake` | findings | the radio of `links` |
| `links` | the node sleeps with the radio listening and both pins enabled, skips no mode change, its outputs agree; every round ends; commands are obeyed. Both ends of XMODEM stay in step; delivery; whole requests only; both ends return | the radio: one accidental comparator; everything else is finite in the code. XMODEM in time: packages of 1 to 3 packets, room for 2, the firmware's 8 and 5 attempts, 4 faults; late: packages of 2 and 3 packets, 3 attempts at each end instead of 8 and 5, 2 faults, 1 early timeout, a late sender |
| `drivers` | every transfer keeps the contract and is reported, those by DMA up to the first mishap; the bus sees an I2C transfer in order; no FIFO overruns; the DMA stops where it was told and calls back once per buffer; a conversion has no gaps; the SCL counts suit the bus | FIFOs of 3 (I2C, SPI) and 4 (UART); thresholds 1, marks 2 and 1; transfers of up to 4 each way (5 written by the UART); two DMA channels, chains of up to two buffers of two blocks; the ADC's FIFO of 4 with threshold 2, transfers of 1 and 5 samples; the clock's 32 MHz and what its dividers by powers of two leave of it |
| `devices` | the history ring is a list of lines; no message is lost, repeated or torn, and each is read; QDA's dialogue comes to its end; the I2C slave keeps the transfers of its master apart and never holds the bus for ever, nor the SPI slave its client; the flash is never read too fast and all that sleep lowers is given back; no expiry of a timer is lost or told to the wrong callback | lines of up to 2 bytes, a ring of 5, two bytes to type, one completion; two channels, two messages; three requests, 3 attempts and 2 errors instead of 8 and 5, 4 faults; FIFOs of 2, buffers of 1 and 2, up to 3 bytes between two reports; three modes and two divisors of the system clock, one other divider, wake-ups by a GPIO and by the RTC; two counters or PWM channels, two callbacks; for the SPI slave the driver's FIFO of 8 and thresholds of 4 and 3, buffers of 1, 3 and 5 frames, one update |
| `i2c_dma` | finding | FIFOs of 2, transfers of one byte, no termination |
| `spi_slave` | finding | the FIFO and thresholds of the driver, buffers of 2 and 3 frames |
| `adc_channels` | finding | as in `drivers`, with two channels |
| `clock_delay` | finding | one mode of the clock |

The bounds are enough for the cases that differ: an image shorter than the
partition, one filling it, one that does not fit; the first, a middle and the
last block; a change of image between two blocks; block numbers that wrap.
For XMODEM: a package that fits with room to spare, one that just fits, one that
does not; as many faults as the receiver bears in a row (four, as the fifth
ends it); the instance `Late` of `MCXmodem` scales the attempts down, since the sender's running out
before the receiver, and the reverse, occur with any number of them. In `Qda` the
three requests are a first, a middle one and the reset, and the four faults are
enough for two transfers in a row to fail, each at either end.
For the drivers: transfers shorter than a FIFO, just as long, longer by one, so
that a refill, a full FIFO and the lowering of each threshold all happen; marks
that differ; a UART write that needs two refills. The ring of the console holds
one long line or two short ones, so that every store wraps somewhere and every
position of a header over old bytes occurs. The I2C slave's buffers are shorter
than, and as long as, its FIFO, and its transfers longer than both. Components that share nothing are
put into one run (`MCLink`, `MCDrivers`, `MCDevices`), whose initial states choose the
one that runs.

In `drivers` a behaviour of the I2C master's transfers by DMA, or of the DMA driver's
own, is followed up to the first mishap (`CONSTRAINT Followed`, which stops at states
with `i2cUpset` or a channel in `dmaUpset`): the state of a driver that is out of step
is large and means little. That what comes after the client has started anew on clean
hardware is right again is proved, not checked (2.12). The other drivers are followed
through their mishaps.
One partition per target is the D2000's default build (`BL_CONFIG_DUAL_BANK`
off); two targets are the Quark SE's.

*Fairness.* `FairSpec` asks that the ROM keeps executing: its own steps are
weakly fair. The host's requests are not. `BootSettles` also assumes that power
losses stop, as a device whose power never lasts never boots. `RelayNode`'s
`RelayFairness` asks that the processor executes, that an interrupt pending without
interruption is taken, that a detection the radio started ends, and, strongly,
that a channel sensed again and again is found free: `sendData` polls it without
a bound, and nothing else in the code would end that loop. In `Xmodem` each end
is weakly fair: it is a loop around `xmodem_io_getc`, which a timer ends; likewise
in `Qda`, where the faults are bounded and so end.

In `MCDrivers` the ADC converts, the DMA channels move what there is room for, and the handler of an interrupt and the controller are each weakly
fair. Where two interrupts compete (`SsI2c`, `SsSpi`, and the transmit interrupt
of the UART, which is shown after the read side's) each is strongly fair: they
have equal priority, and a byte on the line takes longer than the handler.
`SsSpiBus` is strongly fair because a controller cannot be held up by the handler
that reads its levels. In `MCDevices` both cores go on, and the task returns to
each of its channels however often it is interrupted; QDA and its host go on; the
I2C master takes what it waits for, and the slave's interrupts are served.

### 2.10 Properties

- `WholeOrInconsistent`: what the next boot would call consistent is empty or
  is the whole of one image. `StaysRecoverable`: one good copy of BL-Data at
  every step. `CopiesAgree`: nothing is half written back when a request has
  been answered. `SvnNeverFalls`: the version a target is held to.
- `NoLeftovers`: a failed transfer erases what it wrote.
- `ImplementsSlots`: through the copy of BL-Data a boot would use, the whole
  system is `FirmwareSlot`: begin, then install or discard, and nothing else.
- `BootSettles`: the repair ends, however it was interrupted before.
- `ModeCacheSound`: the driver's cache of the radio's mode never makes it skip
  a change. `SleepsListening`: whatever path the last round took, the node
  sleeps with the radio listening, the right event on DIO0 and both pins
  enabled; they may be masked, which is the finding `PacketWakes`.
- `OutputsAgree`: state, output, acknowledgement and LED, which
  two paths write in different orders around a transmission.
- `RoundEnds`, `CommandObeyed`: each round ends in sleep, and a command that
  wakes the node, whose interrupt is not masked, takes effect unless the FIFO was
  overwritten first.
- `PromptInStep` (`InStep` of `Xmodem`): with timeouts in time, sender and receiver are never more than a
  packet apart, and one that reports success is right. `PromptDelivered`: then four
  faults, wherever they fall, cost nothing.
- `RequestsWhole`: when answers do come late, XMODEM may lose packets without
  notice, and QDA's length check is what keeps a partial request from DFU.
- `PackageEnds` (`TransferEnds` of `Xmodem`): both ends return, whatever is lost or
  comes late within the bounds.
- `BusInOrder`: over any number of refills the bus sees the bytes of an I2C
  transfer once, in order, then its reads, and the STOP last.
- `NoOverrun`, `NeverOverrun`: neither FIFO of a master overruns, though the
  driver works with levels it read earlier; that of the sensor subsystem's SPI, until
  a frame ends between its two reads of them.
- `I2cImplements`, `SpiImplements`, `UartImplements`: the contract of `Transfer`,
  with termination, refusals, errors and overlapping reads at any time. It is not the
  full promise in the cases of the table in 2.4: a transfer with a `missed` error may
  be reported done while short, and reported again; of a `disturbed` one nothing is
  said until the next clean start. In all other interleavings the client is called
  back once, and with "done" only when everything has moved.
- `NeverPastBuffer`, `OneCallbackPerBuffer`: the handler clears RELOAD in time,
  and each buffer of a chain is reported once, when it has moved; not of a channel in
  `dmaUpset` (2.5).
- `AdcNoGaps`: however late the handler comes, what is reported as complete has no
  gap: it looks for the overflow before it looks for samples.
- `QdaDialogueEnds` (`DialogueEnds` of `Qda`): retries at both ends, repeated EOTs and answers read by the wrong
  transfer never keep host and device busy with each other for ever: with the pin
  low each request is answered, with the pin high the device leaves FM mode.
- `SlaveReceives`: from one report to the next the slave's client is told of one
  transfer of the master, whole or up to where it wanted no more, whatever was in
  the FIFO when a STOP or START was noticed; if it gives another structure, bytes of
  it may go to the old one, and none else. `SlaveAnswers`: what the master did
  not read of one transfer never begins the next. `SlavesServe`: a master the
  clock is held from is served, though the FIFO was flushed under the handler, and
  an SPI client is told of the end, whatever thresholds its last frames meet, unless
  its first buffer is of 3 frames (`SpsUnreached`; the finding `spi_slave`).
- `SclInSpec`: rounding and moving cycles between the halves of the period leave the
  bus its least low time, its speed and counts the generator takes.
- `FlashTimingHeld`: at every single register write of a change of frequency, in
  either direction, and of every way into and out of a low power state, the flash is
  read no faster than its wait states allow, but for the stretch after a wake-up by the
  RTC named in 2.8. `ClockSettled`: afterwards every divider asked for, but for that of
  the peripherals, is in force, nothing stays lowered but the wake mask, and the
  oscillator has its trim code.
- `NoExpiryLost`: a handler that works with a status read earlier never
  acknowledges an expiry it does not report. `CallbackGetsItsData`: no callback is
  called with the data of another.
- `TransfersComplete`: no threshold, mask or count leaves a client waiting, whose
  transfer is not `disturbed`.
- `HistoryImplements`: wherever the ring wraps, it is the list of lines.
- `MboxImplements`, `MboxDelivers`: a message is read once and whole, and none is
  left behind by an interrupt cleared too late or too early.

### 2.11 Findings and observations

- `fw_numbering`: `dfu_process_dnload` passes the *host's* block number to
  `fin_dnload_xfer` (`dfu_core.c:213`), which QFU compares with the number of
  blocks announced. DFU core means hosts to be free to choose the first number
  (`dfu_core.c:60-72`). A host that starts with one has an image accepted one
  block short. All other safety properties are therefore checked, and proved,
  for hosts that number from zero (`FirstBlockNums`), as the ones in
  `bsp/bootloader/tools` do.
- `relay_crc`: `receiveMessage` returns success for a packet with a bad CRC
  without writing the buffer. The task searches an uninitialised array, which
  may hold the previous command, and switches the relay.
- `relay_wake`: the comparator interrupt may come between `IntCompSet` and the
  HLT of `qm_power_soc_deep_sleep`. Its handler masks both pins, and the node
  sleeps on. It needs no race when a packet has been received while `sendData`
  sensed the channel: RxDone is then still set when the pins are unmasked.
- `i2c_dma`: an error of a DMA transfer is reported by the callback of the channel
  that TX_ABRT stops. Once all read commands are queued only the RX channel is left,
  whose callback leaves errors to the TX one: a read refused then is never reported,
  and the controller stays enabled. The run may stop, as the client waits for ever.
- `adc_channels`: `setup_seq_table` adds the bits of a channel to those the entry of
  the table still has: after channel 1, channel 2 is converted as channel 3.
- `spi_slave`: an SPI slave that receives a first buffer of 3 frames never reports it:
  the threshold is lowered for lengths below `SPI_SLV_DEFAULT_RX_THRESHOLD`, 3, and an
  interrupt takes one frame more than the threshold says (`qm_spi.c:708-712`).
  `qm_spi.h:180-181` says the callback is "Called after all data is
  transmitted/received or if the driver detects an error". The run may stop, as the
  client waits for ever.

- `clock_delay`: the low power states lower the frequency by `clk_sys_set_mode`,
  which sets `ticks_per_us` to 1; `qm_power_soc_restore` restores the registers and
  not the variable, so that at 32 MHz each `clk_sys_udelay` ends 32 times too early,
  until the next `clk_sys_set_mode`.

Other things the models show, which no run is kept for. The definitions named
here are in the modules and can be checked:

- The I2C handler looks for TX_ABRT first and takes an empty TX FIFO for the end of
  the transfer later (`qm_i2c.c:528-551`, `607-676`). A byte refused in between, or an
  abort asked for by `qm_i2c_irq_transfer_terminate`, empties the FIFO: the client is
  told that everything was sent, and of the error afterwards (`AbortMissed`: the
  contract without `missed` is violated).
- An I2C DMA write that is terminated is called back with error 0 and a short
  length, after the *last* byte of its buffer has been sent with the STOP
  (`qm_i2c.c:1353-1369`; the model counts a short length as failed). A terminated
  read without STOP goes on on the bus after its report (`Meets` of `IdTerminate`).
- A DMA write refused after its channel has ended is reported as sent, for the same
  reason as above (`Meets` of `IdBus`).
- When the RX channel's handler of a DMA read runs before that of the commands'
  channel, the latter takes itself for the end of a write, sends the byte behind its
  block and reports a second time (`qm_i2c.c:1344`; `InTime`).
- A DMA write of one byte is refused with an error, as its block of zero bytes is
  (`qm_i2c.c:1660`); one without STOP is reported with bytes in the FIFO.
- Of the SPI by DMA: a termination that is interrupted by a channel's end calls back
  twice, and an error of one channel in full duplex is followed by the other's own
  report (`qm_spi.c:838-862`; `SdMeets`).
- `qm_i2c.h` declares `qm_i2c_slave_dma_transfer`, which nothing implements.
- A polled I2C write whose last byte is refused after its last look at the source of
  an abort is reported as sent (`qm_i2c.c:997-1002`).
- `qm_uart_read` leaves the byte that came with a line error in the FIFO, and reading
  the status has cleared the error: the next call returns it as good
  (`qm_uart.c:328-341`).
- `qm_i2c_set_speed` compares `lo_cnt` with the lower bound meant for `hi_cnt`
  (`qm_i2c.c:896`).
- The secure programmer's guide says that the endless loop of
  `bl_loop_if_not_blank` means a hardware fault or an attack
  (`doc/secure-programmers-guide.rst:225-227`); a power loss while BL-Data is
  written for the first time is enough (`bl_data.c:184`; `OnlyFaultsHalt`).
- An ACK of EOT is lost; the repeated EOT is read by the next reception as an empty
  package, and `qda_receive_loop` returns although the line is not idle, as its
  comment says it would be (`qda.c:89-90, 119`; `LeavesOnlyWhenIdle`). With the FM
  pin high the device resets in the middle of a dialogue.
- After an overflow was reported the ADC's handler goes on with the status it
  copied, stores samples in the client's array, and may report the transfer again
  (`qm_adc.c:73-87`; `AdcStopped`).
- Calibrations and mode changes of the ADC are reported with the `callback_data` of
  the last conversion (`qm_adc.c:135`; `AdcOwnData`).
- The slave's handler works with the structure it was called with: a client that
  calls `qm_i2c_slave_irq_transfer_update` with another one, whose "buffers
  location and size" it asks for, finds the next bytes of the FIFO in its old
  buffer, and the next byte to send is taken from its old one (`qm_i2c.c:133, 172`;
  `Astray` and `Old`).
- A slave asked to "stop at the end of transaction" does not when the transaction
  fills its buffer below the RX threshold: the update has put `i2c_read_pos` back
  to zero, and nothing else says that it was addressed (`qm_i2c.c:281-282`;
  `StopsAfterTransfer`).
- When the next START and STOP come while the slave's handler still is at the last
  ones, bytes go to the wrong transfer (`SlaveReceives` with `SlvPrompt = FALSE`).
- The hardware leaves a deep sleep on the hybrid oscillator. When it was entered with
  `QM_POWER_WAKE_FROM_RTC`, as `rtc.c` does, the system clock was switched to the
  RTC and the flash set to no wait states: it is then read at 32 MHz until
  `qm_power_soc_restore` has given the oscillator its configuration back, and without
  that call for good (`power_states.c:317-320`; `FlashTimingHeld` without
  `Exposed`).
- `CLK_PERIPH_DIV_DEF_MASK` keeps the enable bit of the divider, which the comment
  at `clk.c:298` wants to go from 0 to 1: a second divisor set is not in force
  (`ClockSettled` without the exception of "periph").
- The returns from the low power states wait for an oscillator's lock before they
  switch it on (`power_states.c:188-193`). `relay_app.c` and `rtc.c` never call
  `qm_power_soc_restore`.
- `qm_power_soc_sleep` clears `wake_mask` (`power_states.c:112`), and
  `qm_power_soc_sleep_restore`, unlike the return from a deep sleep, never gives it
  back (160-203; `ClockSettled` without the exception of "wake_mask").
- A timer that is configured anew while it runs, other than the RTC, may call the
  new callback with the old data (`CallbackGetsItsData` with others in `LiveReconfig`).
- `app_erase` says that each version is set to undefined, and no code does so
  (`qfm.c:162-164`; `AppEraseForgetsVersions`).
- `sendData` loops while `qm_gpio_read_pin` returns non-zero, which is the driver's
  error code (`qm_gpio.c:119`): the loop ends at once and the radio is put to sleep
  in the middle of its transmission (`sx1272.c:271-279`; `SentBeforeSleep`).
- With a host whose timeout is the longer one also while it discards, and the pin
  low, the two ends can keep each other in reception for ever: each takes the 'C'
  of the other for noise. It is the loop that `xmodem.c:256-262` warns of.
- An ACK of XMODEM carries no number. When two invitations wait for a sender that
  starts late, the second is read as the answer to packet 1, and from then on each
  ACK is for the packet before: if the last packet is then corrupted, the sender
  sends EOT and both ends return success (`xmodem.c:228-231`; `EotAfterLast`).
- Starting a UART read during a write rewrites the shared control register, and
  the write may be reported with bytes left in the FIFO (`qm_uart.c:126-128`;
  `EmptyWhenDone`).
- The DMA handler reads a status register all channels share, and may take another
  channel's end of transfer for its own (`qm_dma.c:65`; `OwnTransferEnded`).
- `handle_spi_tx_interrupt` of the sensor subsystem reads the TX level first: with
  a frame ending between the two reads, a FIFO of 8 and marks of 6 and 3, the RX
  FIFO overflows (`qm_ss_spi.c:385-388`; `RxNeverOverflows`, which leaves `spiMet` out). `qm_spi.c` reads them in the safe order.
- Of the mailbox, by reading: the lock masks of the two cores are exchanged for
  the sensor subsystem (`qm_mailbox_se.c:60-61`), and the early returns of
  `qm_mbox_ch_set_config` leave the interrupt masked (142, 161).
- Of the console: DOWN and ^K leave old bytes behind the end of the line, an
  escape sequence may be completed by a later one, and a completion on an empty
  line reads the byte before the buffer.
- Of the DMA: a contiguous transfer of one block never ends, as the count of
  pending blocks wraps; and a second contiguous transfer is refused without a new
  `qm_dma_channel_set_config`, which `qm_dma.h` says is called once.

### 2.12 Proofs

`FwUpdateProofs` proves, for any number of partitions, pages, images, keys and
versions, with and without authentication, and with block numbers of any width
that fits a partition: `TypeOK`, `WholeOrInconsistent`, `CopiesAgree`,
`StaysRecoverable`, `NoLeftovers`, `SvnNeverFalls`, and `ImplementsSlots`, that
the update implements `FirmwareSlot`. The hypothesis is that the first block is
numbered zero (`FirstBlockNums`); `fw_numbering` shows what happens otherwise.

None of them is inductive by itself. `CoreInv` adds to `TypeOK`
- `CopyInv`: which copies are valid, and equal, at each flash write;
- `SafeInv`: the metadata promises nothing the flash does not hold, for the
  effective copy and for the record about to be written;
- `TransferInv`: as long as no block was refused, the blocks received so far
  are in the flash, are the announced image's, and the partition is marked.

The argument: a record is written back only when it is safe and when both
copies agree, so that whichever of them a power loss leaves, it is safe
(`WritebackStarts`, `LosePowerBl`); flash is written only in partitions that
both copies call inconsistent (`CodeStep`); and a partition is marked
consistent only when erased, or when `TransferInv` says its image is complete
(`InstallBl`).

`IndInv` adds three parts to `CoreInv`, for the properties about what one record
is followed by:
- `WritebackInv`: the record about to be written is a legal successor of the one
  in flash: it marks partitions, installs one image, discards what was marked, or
  is the first. That makes every flash write a step of `FirmwareSlot` or none,
  also when the power loss comes between the two copies, and keeps the version
  numbers from falling;
- `HeaderInv`: the version number of the header accepted is no lower than the one
  in force, until its image is installed. No other request changes that number in
  between, as each of them ends the transfer;
- `LeftoverInv`: a marked partition is the selected one, with a transfer open or
  failed, or is being erased.

`fw_auth` checks `IndInv` as well.

`RelayNodeProofs` proves `RelayTypeOK`, `ModeCacheSound`, `SleepsListening`
and `OutputsAgree` for any set of other comparators. The
invariant `RelayInv` says where in a round the cache, the DIO0 mapping and the
outputs may differ from what they are in sleep; `ModeSet` and `PutToSleep` say
what a mode change does under it.

`XmodemProofs` proves `TypeOK` and `RequestsWhole` for packages and buffers of
any length, any retry bounds, and any number of faults and early timeouts.
`XmInv` relates what was received to the package, the invitations sent to the
errors counted, and QDA's verdict to the receiver's end; `SenderOnly` and
`ReceiverOnly` say that neither end touches the other's part of it. The bound it
gives on the invitations is six 'C' to a silent sender, not the five of
`xmodem.h:50-51`: leaving `xmodem_receive_package` sends the pending byte again.
Without early timeouts and with the sender there first (`MaxEarly = 0`,
`~LateSender`) it also proves `InStep`. `StepInv` says why: there is one packet or one answer on the line
and never both, a packet there is the one the sender is at, and an ACK there is
that packet's. A timeout finds the line empty, so that what it sends again is the
only thing in flight. With early timeouts the argument fails, and so does the
property, as an ACK has no number.

`XmodemRunProofs` carries this over to `MCXmodem`, the XMODEM part of the run `links`, in
which a behaviour is about one of two instances of `Xmodem` with different constants. Each
instance has its own invariant, of which the proofs are those of `XmodemProofs`,
once as they are and once instantiated; the instance that rests is not disturbed.
That gives `PromptInStep`, `WithinBuffer` and `RequestsWhole` as the run checks them.

`I2cProofs` proves of both I2C masters, for FIFOs, thresholds and lengths of any
size: `BusInOrder`, `NoOverrun` and `I2cImplements`, with refusals and aborts at any
time. `I2cInv` says that the commands issued are those on the
wire followed by those in the FIFO, that they are the beginning of the transfer's
program (`InOrder`), and that the bytes read are at most the read commands the bus
has seen (`CountSound`). That is what makes the end of the data mean the end of
the program: when the last byte is read, or the FIFO is found empty, everything
issued has been on the wire. `PushedInOrder` is the step of every refill.

The polled functions, `I2cPolledSpec` and `SsI2cPolledSpec`, satisfy all three as
well. `I2cPollInv` is another account: a write is polled as long as something is in
the FIFO, and a read has one byte on its way at a time, asked for, on the wire or in
the RX FIFO. It allows for the last byte of a transfer without STOP, which is still
moving when the next one starts, and whose refusal the next one reports.

By DMA (`I2cDmaSpec`), `BusInOrder` and `I2cImplements` are proved without a
hypothesis. `I2cDmaSafe` is the invariant: a small frame that holds in any case
(`IdFrame`: who is enabled, what the channels are about), and either `i2cUpset` or
`I2cDmaInv`. A mishap leads to `i2cUpset`, in which only `IdFrame` is kept; a start on a
clean controller leads back to `I2cDmaInv`. That counts as commands issued what the TX
channel has moved, plus the byte that its callback writes itself (`IdIssued`), and
says which of the flags and channels go together (`IdWriting`, `IdReading`): of a read
the commands' channel ends before that of the bytes, because the last byte cannot
arrive before its command has been queued, so that the TX callback finds the read
ongoing and does not take itself for the end of a write.

`SclAlwaysInSpec` says of `I2cTiming` that whatever the drivers accept keeps the least
low time and the period of its speed. The hypothesis, `ExactClock`, is about the
clock: 0, 1, 2, 4, 8 or 16 MHz, or a multiple of 4 from 32 to 50000 MHz, of which the
D2000's dividers by powers of two give those up to 32. Of others it is false: at 12
MHz in FAST, and 28 MHz in FAST_PLUS, the high time has no cycle left to give.

`SpiProofs` proves `NeverOverrun` and `SpiImplements` of the master for FIFOs and
lengths of any size, and of the sensor subsystem's, whose `NeverOverrun` ends where a
frame ends between its two reads of the levels (`spiMet = "apart"`); its contract holds
through that, too. The invariant bounds what is queued,
being shifted and received by what was sent and not yet taken, and relates the
level the handler has sampled to the present one.

Polled transfers (`SpiPolledSpec`, `SsSpiPolledSpec`) satisfy `SpiImplements` without a
hypothesis, though they may overrun the RX FIFO: `PollGiven` and `PollFrames` count
the frames, so that a transfer that took as many as it asked for has lost none, and
`StatusSound` says that the status the sensor subsystem read before is still true
where it is used. By DMA (`SpiDmaSpec`) there is no hypothesis either: what `spiMet`
records as "broken" ends the contract until the next start on clean hardware.
`SpiDmaInv` relates the channels to the
flags of their callbacks and to the frames; a transfer that has received all it asked
for has sent all of its frames, so that the later of the two callbacks is the end of
the data.

`UartProofs` proves `UartImplements`, reads and writes overlapping as they may: every
byte of a write is in the FIFO or has left it, and the threshold is zero once the last
one is in, so that the interrupt that reports the write finds the FIFO empty, unless a
read has set the threshold back meanwhile (`uartMet`). `OnlyReadsDisturb` says that
nothing else makes a write start on bytes of another. Of the polled functions
(`UartPolledSpec`) a write waits for the transmitter to be empty before it returns.

`DeviceProofs` is about six drivers that have to keep in step with their device, or
with another core. Each invariant stands at the end of the driver's module.

- `Mailbox`: `MboxImplements`, for any number of channels and any messages. The
  invariant follows each word of a message through the two cores: while a writer is
  between its words the channel is free, and while a reader is between its words
  nobody writes.
- `Dma`: `NeverPastBuffer` and `OneCallbackPerBuffer`, for any number of channels,
  buffers and blocks. `DmaInv` is an account: blocks moved plus blocks still to be
  counted are those asked for, plus one if a block interrupt is pending
  (`Reloads`), or the end of the present buffer (`ChainRuns`, modulo the size of a
  buffer). Of the channels in `dmaUpset` it says less; any number of others may run
  beside them.
- `Adc`: `AdcNoGaps`, for any FIFO, channels and lengths. `AdcOverflowTold`: a
  sample is lost only with the overflow bit set, and one that is lost after the
  handler has read its status leaves a full FIFO of samples from before, more than
  the handler copies. It looks for the overflow first, so that a copy it makes has
  no gap.
- `Timers`: `NoExpiryLost` for all seven drivers (`CalledThenCleared`: a handler
  clears an interrupt right after calling back for it) and `CallbackGetsItsData`
  (`ChangedQuiet`: a callback and its data are written while the channel is off,
  nothing is pending and no handler is about to call). The hypothesis
  `LiveReconfig \subseteq {"rtc"}` says that only the RTC, which turns itself off
  first, is configured while it runs.
- `I2cSlave`: `SlaveAnswers` and `SlaveReceives`, for FIFOs, thresholds and lengths
  of any size. `SlvRaisedOK` and `SlvSnapOK` order what the bus raises and what the
  handler has seen of it: it does not see a START and miss the STOP before, nor the
  end of a read and miss its request. So `SlvAnswer` (what the master reads is the
  client's bytes, then dummies) and `SlvFollow` (what was reported, what is in the
  buffer and what is in the FIFO follow each other) survive the change from one
  transfer to the next. The hypothesis `SlvPrompt` is that of the run: the handler is
  in time for the bus.
- `Clock`: `FlashTimingHeld` and `ClockSettled`, for all modes, dividers and trim
  codes. The functions of `clk.c` and `power_states.c` are lists of register writes,
  and the properties are about the registers between and after them. `ClockInv`
  says that the writes still to do *lead* from the present registers to ones that
  may stay (`Lasting`), by way of registers that suit the flash (`Run`, `Lead`). A
  write keeps that, since the tail of a list that leads somewhere leads there too
  (`LeadStep`), so that all that is left is to show of each function that its list
  leads (`SetModeLeads`, `SetDividerLasts`, `SleepLasts`, `DeepSleepLasts`,
  `SleepRestoreLasts`, `DeepSleepRestoreLasts`), piece by piece (`LeadOn`). The
  wait states are raised before the clock and lowered after it; `Saved` says that
  what a low power state keeps for the way back suits together. There is no
  hypothesis about what wakes; the exceptions are those the properties name.

What stays with TLC:
- liveness (`BootSettles`, `RoundEnds`, `CommandObeyed`, `PromptDelivered`,
  `PackageEnds`, `TransfersComplete`, `MboxDelivers`, `QdaDialogueEnds`,
  `SlavesServe`): out of the prover's reach under fairness;
- `HistoryImplements`, whose refinement is by a walk over the history ring, a
  recursion the prover has no induction for.

Every other property of a run that passes is stated by one of the theorems.

## 3. Not modelled, and why

- Register headers, which are half of the lines of C here, pin muxing tables,
  clock and trim-code set-up, start-up assembly, linker scripts: no behaviour of
  their own. Much of the rest exists twice, once per chip or per controller; where
  the two differ in control, both are modelled (I2C, SPI), and otherwise one is.
- The magnetometer, `crc16.c` and the signal-strength arithmetic: pure functions of
  calibration data and tables.
- The device identity: its size fields are always zero, so that nothing is
  written and the reads fill buffers of the size of a pointer (`main.c:57`).
- The parking-sensor applications: the old one is not built, the present one
  transmits test packets in a loop.
- The application's waits over the RTC: what goes wrong is visible in one line,
  `rtc.c:12` compares a counter with a sum that may have wrapped, and the wait ends at
  once.
- The Python tools of `bsp/bootloader/tools`, which run on the host; their
  numbering of blocks is taken into `FirstBlockNums`.
- USB, as a driver and as DFU transport: the stack between the two
  (`usb_device.c`, `usb_struct.h`), which carries out the control transfers and
  calls the handlers of `usb_dfu.c`, is not in this repository, so that no action
  of a model of it could be read from a source.

## 4. What could follow

1. `PowerStates` of the Quark SE, whose two cores sleep and wake each other.
2. `SsAdc`, the ADC of the sensor subsystem, whose handler differs from `Adc`'s.
3. `I2cDma` and `SpiDma` over `Dma`, in place of the channels they have now.
