# A verification project for genode-zynq

This directory holds TLA+ models of the Zynq-7000 drivers and managers in this
repository, configurations that check them with TLC on small instances, and
theorems that TLAPS checks for every value of the constants. Paths below are
relative to the repository's root. Line numbers refer to the commit the models
were written from.

## 1. The system

The repository extends the Genode OS framework for the Xilinx Zynq-7000. Each
component is a process of its own with one entrypoint thread; it reacts to
signals and RPCs one handler at a time. Components share ROM modules, reports
and packet streams; drivers share device registers and DMA memory with
hardware that never stops for them.

| Part | Source | State | Operations |
|---|---|---|---|
| Ethernet driver, transmit | `src/drivers/nic/cadence_gem/{buffer,tx_buffer}_descriptor.h`, `uplink_client.h` | descriptors (address, Used), head, tail; submit and acknowledgement queue | `_send`, `submit_acks`, `reset`, packet-avail signal |
| Ethernet driver, receive | `src/drivers/nic/cadence_gem/rx_buffer_descriptor.h` | descriptors, head, tail | `next_packet`, `get_packet_descriptor`, `reset_descriptor`, `reset`, ack-avail signal |
| Ethernet driver, device | `.../device.h`, `dma_pool.h` | interrupt and status registers | `handle_irq`, `init`, `deinit` |
| Ethernet driver, PHY | `.../marvell_phy.h`, `phyio.h` | PHY registers | link negotiation |
| FPGA driver | `src/drivers/fpga/{main.cc,pcap.h,bitstream.h}` | managed bitstream, PL, state report | `handle_config`, `handle_rom`, `load_bitstream`, `reset` |
| Platform driver | `src/drivers/platform/zynq/{main.cc,dma_guard.h,slcr.h}` | devices, DMA-guard segments, clocks, resets | config handler, `_add_range`, `_remove_range`, clock search |
| Devices manager | `src/app/devices_manager/main.cc` | devices report | `_handle_update` |
| Driver manager | `src/app/driver_manager/zynq/main.cc` | start flags, init config | `_handle_devices_update` |
| Pin driver | `src/drivers/pin/` | pin declarations, reference counts, GPIO registers | config handler, sessions |
| SD-card driver | `src/drivers/sd_card/zynq/` | table of disks, requests and their bios, the poll task | poll loop, completion, registration of disks, `handle_signal` |
| GPIO demo | `src/app/zybo_gpio_demo/` | LEDs and state derived from pins | interrupt handlers |
| AXI DMA | `src/lib/xilinx_axidma/`, `src/test/dma_loopback/` | channels, interrupt status, ring of buffer pairs, transfer counters | `simple_transfer`, `_handle_irq`, `fill_transfers`, `queue_next_transfer`, timer |
| Header drivers | `include/drivers/` | registers, the I2C FIFO | I2C `write_bytes`, `read_bytes`; SPI, VDMA, GPIO, UART |

How they interact:

    uplink client <== packet stream ==> Ethernet driver <== descriptors, registers ==> GEM

    config ROM --> FPGA driver <-- bitstream ROM
                     | report "state"
                     v
    devices ROM --> devices manager
                     | report "devices" (= platform driver's config)
                     v
                   platform driver ==> DMA guard, SLCR
                     | report "devices"
                     v
                   driver manager --> init config --> dynamic init --> drivers

    GPIO demo <-- interrupts, levels -- pin driver <== GPIO registers ==> pins
    block clients <== packet streams ==> SD-card driver ==> Linux block layer

### What is hard

* The GEM controller and the client run while a handler of the Ethernet driver
  runs. Completions, frames and signals arrive between two register accesses.
  Interrupt bits are cleared after the ring was looked at, signals are raised
  for an empty queue only, rings and queues can be full, and errors reset the
  rings with packets in flight.
* The DMA guard's segments are moved while the device uses them.
* Signals say "look", not "what": several changes merge into one, and the
  FPGA driver is deaf while it loads a bitstream. What is reported must follow
  what is in the PL, through failed loads and changes of the config.
* The pin driver's declarations change while sessions are open.
* The AXI DMA library reads and acknowledges two status registers while the
  engine goes on; an interrupt may be that of an earlier transfer.
* The PL runs while its clock, its level shifters and its resets are changed by
  several register writes, and two kinds of owners share the reset register.
* The I2C master polls a controller that may fail between any two accesses.
* Pins change while the handler of an earlier change acknowledges their
  interrupts one by one and reads them one by one; a status register belongs to
  all pins of a bank, whoever uses them.
* The SD-card driver takes requests in a task that is scheduled inside the signal
  handler, and only the first packet of an empty queue and completions wake it.
  Cards and sessions disappear with requests in flight.

What makes each part correct:

* Transmit: packets leave in order, each is returned once, none is lost
  without an error, the controller never fetches from an acknowledged
  descriptor, and no client waits forever.
* Receive: each stored frame is delivered once and in order, a packet buffer
  is never with the controller and the client at once, every buffer goes back
  to the controller, and reception goes on.
* DMA guard: a granted buffer is accessible at every instant, a removed one is
  not accessible when the removal is done.
* FPGA driver and managers: the report is true, and the system ends up
  as configured.
* Pin driver: an output is driven as long as its session lives and no longer.
* AXI DMA: no completion is lost, no buffer is written while it is being sent.
* Clocks and resets: no overclocking on the way, a device in use runs, and
  nothing runs while the level shifters are off.
* I2C: what arrives is the message, and calls return.
* Interrupts of pins: what programs derive from the pins is right when these
  come to rest, and every edge is reported.
* SD-card driver: a request is answered once, after it was performed, the answer
  is announced, and no request is forgotten in a queue.

## 2. Modules

| Module | Models | Composes |
|---|---|---|
| `BufferDescriptor` | index arithmetic of the rings | |
| `TxChannel` | abstract: what transmission promises a client | |
| `TxRing` | transmit ring, its handlers, transmit half of `handle_irq`, GEM transmit DMA, client | `BufferDescriptor`, `TxChannel` |
| `GemDevice` | the start of the Ethernet driver: deinit, init, management port, enabling | |
| `RxRing` | receive ring, its handlers, receive half of `handle_irq`, GEM receive DMA, client | `BufferDescriptor`, `GemDevice` |
| `DmaGuard` | segments of the DMA guard, one register write per step | |
| `FpgaDriver` | config and ROM handlers, PCAP load, state report | |
| `DeviceManagement` | devices manager, platform driver's config handler, driver manager | |
| `FpgaSystem` | the chain from the FPGA config to the running drivers | `FpgaDriver`, `DeviceManagement` |
| `AxiDma` | AXI DMA library and its engine | |
| `DmaLoopback` | the loop-back test: ring, counters, sizes | `AxiDma` |
| `Slcr` | PL clocks with their PLL, level shifters and resets of the platform driver | |
| `I2cMaster` | `write_bytes` and `read_bytes` of the I2C master, with its controller | |
| `PinDriver` | pin declarations, sessions and their reference counts, GPIO direction and level | |
| `PinIrq` | interrupts of the pins: trigger, status and mask registers, delivery, acknowledgement | |
| `GpioDemo` | the programs of the GPIO demo as clients of these interrupts | `PinIrq` |
| `BlockService` | abstract: what a block driver promises a client | |
| `SdBlock` | poll task, completions and signal handler of the SD-card driver, with Linux, clients and device | `BlockService` |
| `DmaPool` | the addresses of packets in the DMA pool of the Ethernet driver | |
| `Spi` | the prescaler of the SPI driver | |
| `MC*` | small instances for TLC; `MCPlatform`, `MCPinDriver`, `MCTxRing` and `MCI2cMaster` hold two models each | |
| `GemBuffers_proofs` | theorems about ring indices, queues and packet addresses | `BufferDescriptor`, `DmaPool` |
| `TxRing_proofs`, `RxRing_proofs` | theorems about the two rings | `GemBuffers_proofs` |
| `Registers_proofs` | theorems about the units that are worked by single register writes | `DmaGuard`, `Slcr`, `I2cMaster` |
| `FpgaSystem_proofs`, `PinDriver_proofs`, `DmaLoopback_proofs`, `SdBlock_proofs` | theorems about the module of that name | |

Where an MC module holds two models they share no state: one rests while the
other is checked (`unit` in `MCPlatform`, `running` in `MCPinDriver`), or the second one
has no state and is checked by an ASSUME (`DmaPool`, `Spi`).

Operators whose comment begins with "Mutant" are variants of a definition with
a plausible bug. No specification uses them; they document which mistake each
property detects.

### TxRing

The driver is one thread; `pc` names its next step that reads or writes
something the controller or the client also touches. A call to `_send` is
`AckTail`* `AcksDone` `Send` or `SendDone`; an interrupt is `HandleIrq`
(the status registers are read once, `seen` is the copy), `ClearTxStatus`,
`ClearInterrupt`, calls to `_send`, and the error part `StartReset` `AckTail`*
`FinishReset`. A descriptor has an address and a Used bit. `HwTransmit`,
`HwHalt` and `HwFault` are the controller: it follows its queue pointer, sets
Used and the two completion bits, and halts at a Used descriptor or an error.
Clearing Tx_en rewinds its queue pointer (documented for this controller; the
driver's reset relies on it). The client submits and takes back packets; adding
to an empty queue raises the packet-avail signal. `HasRoom` says that some descriptor
holds no packet; the channel has a step `Overflow` for a ring in which all do.

### RxRing

Descriptor `i` is for good bound to the packet buffer it was given, so `i`
stands for both. `next_packet` is two steps (`NextPacket`, `NextPacketRetry`),
because it looks at the ring twice with a move of the head in between. A frame
is its number in the order of arrival, modulo `Numbers`, so that loss,
duplication and reordering show, and `delivered` counts the frames the client was
given in the same way (both are history variables, with `last`). `HwReceiveFragment` stores a part of a frame,
which the driver drops; `HwDrop` is the controller without a descriptor (Rx_used_read).

The driver reaches the ring's handlers through `GemDevice`. `pc` begins with the
steps of the constructors (`Deinit` ... `EnableReceiver`), and the controller
receives when `Control.Rx_en` and `Rx_qbar` are set. With `Stale`, bits of
`Interrupt_status` may be set from before, as `deinit` does not clear them.

### GemDevice

The driver asks the PHY through the management port (MDIO): `MdioWait` is one look
of `_mdio_wait`, which throws after `Timeout` looks; `PhySetup` starts the
operation and `PhyRead` takes its answer. The negotiation is abstracted to one
answer, a speed or no link, and the link does not change later. Without an answer
or a link the constructor throws and the driver is dead. What the boot loader
left (a running receiver, a busy port, enabled interrupts) is chosen in
`DeviceInit`. The comment in `init` (`device.h`) says "Enable MDIO, transmitter and
receiver"; the code enables the management port only, and so does `Configure`.

### DmaGuard

`Start` is the domain's loop over the buffer registry; `AddProbe`, `FindSegment`
and `ShiftSegment` are one iteration of the loops of `_add_range` and
`_remove_range`, each with at most one register write. The sessions' requests
are external; the platform driver serves one at a time. `granted` is a history
variable: the ranges whose addition succeeded and whose removal has not begun.

### FpgaDriver, DeviceManagement, FpgaSystem

`FpgaDriver` is the `Managed_bitstream` life cycle: `HandleConfig` compares names,
`Unload` and `UnloadReset` are its destructor, `Open` its constructor,
`Read` `ResetPl` `TransferEnds` `ReportLoaded` are `handle_rom`. A file is one of a
few contents; what matters is whether `bitstream.h` accepts it (`Invalid`: the
uncaught `Format_error` ends the driver), whether it copies all of it (`Odd`) and
which version it is. `held` is the ownership of devcfg, which holds the PL in
reset (`slcr.h`, Fpga_nreset). `DeviceManagement` has one action per component.
`FpgaSystem` extends the first by an instance of the second over the shared state
report, so what holds of the driver is checked in the whole system.

### AxiDma, DmaLoopback

`AxiDma` is the library in its interrupt mode and the engine, which loops the stream
of the tx channel back to the rx channel, so that rx completes after tx.
`HandleIrq`, `ReadRxStatus` and `Acknowledge` are `_handle_irq`, cut between the
accesses to the status registers; the interrupt line stays up until the bits are
acknowledged. After an error the engine is reset and no handler is called. A channel
refuses a transfer while it is busy (`Refused`); rx is started before tx, and
`simple_transfer` does not start tx if rx was refused, while `queue_next_transfer`
tries both.
`DmaLoopback` is the test program in the same thread: `TestStart`, `TestWait` and
`TestCompare` are `test_simple_transfer`, `FillTransfer` is one round of
`fill_transfers`, `HandleRxComplete` the rest of the handler, `HandleTimeout` the
timer. A size is a level: each step of the timer multiplies it by four, and
cell i of a buffer stands for the bytes a size has more than the next smaller
one. Counters are taken modulo `Numbers`, more than the ring has slots. `exit` is what
the program told its parent first; it goes on until the parent ends it.

### Slcr

`SetRate` computes the divisors as `Fpga_clk::rate` does, `SlowDown0` ... `SetDivisor1`
are its register writes. `FindDivisor` is `_find_divisor` as a recursive
function over the primes (`Powers`, `Round`). `Use` is
the count of users that a clock or reset has in the driver, with the writes for
the first and the last of them: one for a domain of its own (`Reset_switch`),
`Halt` `Disconnect` `DrivePl` and `Connect` `Run` for the owner of devcfg (`Fpga_nreset`). Note
that `Reset::_deassert` of devcfg halts the PL. Frequencies are numbers
of Hz, as the search divides and rounds them; a field keeps the low six bits.
The boot loader leaves a clock with one of the `Sources`, from which `Parent` follows
as in `_parent_rate`; nothing in the driver changes it.

### I2cMaster

Each step has at most one access to a register. `Call` ... `ClearStatus` is what
both functions begin with, `FillSize`, `FillByte` and `FillDone` are
`_transmitFifoFill`, `Look`, `Send`, `Complete` and `ReleaseBus` the loops of `write_bytes`,
`ReceiveFails`, `Receive` and `Received` the rest of `read_bytes`. The controller is
external: it raises COMP whenever its FIFO runs empty, also when the bus is held
(`write_bytes` with `hold` waits for nothing else), a refused byte raises NACK and no
COMP, and clearing the FIFO ends its transfer. A failed write leaves HOLD set, as
the code does. Calls with no bytes are left out.

### PinDriver

A handler is one step, because the driver is one thread and nothing else writes
the registers; the config handler has a further step per session (`Reassign`),
because what a session releases and acquires depends on those before it.
`AcquirePin` and `ReleasePin` map the driver's state to the next one. A
declaration is made anew when its direction changes and kept otherwise
(`Updated`). `ref_count` wraps around at `Counts`. `None` as id stands for a
malformed declaration, which counts as an input and ends the driver when an
input session is assigned to it (`Die`). Left out: pull-ups, which are refused,
and select nodes with an invalid function number; interrupts are in `PinIrq`. A config declares no name and no pin twice.

The comment at `main.cc` 78-82 says that an output without a default depends on
the lifetime of a session. The driver means to disable such a pin
(`main.cc` 189), but the device code refuses the disabled function
(`driver.h` 75), so it stays an output. The model has this as it is.

### PinIrq, GpioDemo

The GPIO controller latches what it detects at a pin in `status`, one register per
bank; `irq` is the one interrupt line of the driver. `HandleIrq` is `_handle_irq`:
the sessions of all pins that are pending and enabled are signalled and masked
(`deliver_pin_irqs` of Genode), then the interrupt controller is told. `AckIrq` is
the RPC of a client. `Configure` is what `configure` writes for a trigger, over what
was in the registers before; that it gives the trigger the driver's README
promises is checked for all old contents (`ConfigureDetects`).

The driver writes `Irqstat` one item at a time. Genode's `Register_array` is written by
reading the register and writing it back with the item replaced, unless it is
declared strict, and the controller clears what is written as one. So `AckIrq`
clears the whole bank (but what is still detected is latched again).

`GpioDemo` has the three programs, each one thread: `HandleSignal` starts a handler,
whose RPCs (`todo`) are one step each, first an `Ack` per pin, then a read per pin.
Pins may move between any two of them. `sw` lights LEDs, `mio` turns a state on and
off, `rgb` steps a colour, which is left out.

### SdBlock, BlockService

The component is one thread. `HandleSignal` unblocks the poll task and runs the
Linux tasks (`ep = "execute"`) until each of them blocks; then `NotifyPeers` signals the
clients. The poll task runs from `PollStarts` until it blocks in `NextDisk`; no other
task runs meanwhile, but clients and hardware do. `Take` is
`genode_block_request_by_session`, and what follows depends on the request:
`BlockRequest` makes a bio, which the block layer may refuse at once,
`BlockSync` and `AckSync` flush a disk. `BioEndIo` is the completion, called by
other Linux tasks or, for a refused bio, inside the poll task (`bio = "now"`). A
completion the device has signalled before the handler began is `due`: the handler
does not end before Linux has run it. `BlockService` gives a
request four states; `Status` is the mapping. A session that ends leaves its bios
behind (`stale`), and the client of the next session of the disk may use the same
request while the old bio is still in flight; its completion is `StaleEndIo`, the
same code as `BioEndIo`.

Assumed of code that is elsewhere: the block C API ignores the acknowledgement of
a request whose session has ended, as each session has its requests in memory of
its own (with reused memory, an answer for the old bio would go to a new request
that was not performed yet, and `ImplementsService` would be false), the session of a
discontinued device ends, the
acknowledgement queue has room for every packet, and `submit_bio` need not wait.
Requests with other operations than reading, writing and flushing are left out.

### DmaPool, Spi

`TxRing` and `RxRing` name a packet where the code has a DMA address. `DmaPool` says
why they may: an address leads back to its packet (`RoundTrip`), and the 0 that
`submit_acks` writes over an address to no packet (`ErasedIsInvalid`). Sums of
addresses wrap. `Spi` computes the prescaler of the SPI clock and checks that it is
the least one that keeps the device within its greatest frequency
(`LeastPrescaler`).

### A remark on the FPGA driver's documentation

`src/drivers/fpga/README` says that the FPGA is reprogrammed only if the name
of the bitstream changes; the code also reloads when the ROM module changes
(`main.cc` 65-78), and so does the model.

### Where the code does not do what it seems to promise

`dma_guard_revoke` and `gpio_shared` are runs that show such cases. The following are
in the models as the code has them, and the properties of the passing runs leave them out:

* A forced reset of the transmit ring calls `submit_acks` to "ack all packets
  that are still queued" (`tx_buffer_descriptor.h` 92). Its loop compares a
  counter that grows with a queue that shrinks, so half of the packets are
  acknowledged and the others forgotten (`AckTail`, `FinishReset`).
* A ring whose descriptors all hold packets has head = tail and counts as empty
  (`buffer_descriptor.h` 80): nothing is acknowledged any more. When the controller is done,
  "if used bit of head is set, there is an available buffer descriptor"
  (`tx_buffer_descriptor.h` 149) is true of descriptors that still hold packets nobody
  has acknowledged, and they are overwritten. It takes a client with as many good
  packets as there are descriptors, which depends on the size of the session's buffer
  and is compared with nothing. The run `tx_faults` has such a client.
* When `_send` gives up because the acknowledgement queue is full, nothing in
  `uplink_client.h` calls it again once the client has taken an acknowledgement; what the
  base class does with that signal is not in the repository. `SubmittedIsTaken`
  excludes behaviours in which that queue is full.
* The reset after a receive overrun "because this may lead to a deadlock"
  (`device.h` 525) can stop reception for good: `rx.reset` makes descriptor 0 the head,
  but nothing writes the controller's queue pointer, so the two are out of step
  and an `Rx_complete` makes `next_packet` move the head on in vain; if the ring fills before the
  handler clears the bit, nothing raises another one.
* `deinit` leaves `Interrupt_status` alone. A stale `Rx_complete` moves the head of an
  empty ring in the same way; `InOrder`, `HeadInStep` and `StoredIsTaken` then fail, so
  the run `rx` has `Stale = FALSE`. A stale `Rx_used_read` stays pending and makes the
  handler run in vain until a frame is dropped, as `deinit` did clear the bit
  of `Rx_status` that the handler also asks for.
* An output that is moved to another pin while in use keeps its reference count
  and is counted once more for each session (`pin/main.cc` 77, 166, 182). Its
  default is then never restored, and later defaults are ignored, although
  `src/drivers/pin/zynq/README` 35-38 speaks of pins driven by updates of the
  defaults alone. The run `pin` keeps names with their pins.
* An `<out>` that becomes malformed (its bank or number cannot be read) keeps its
  declaration and reference count, but has the direction of an input from then on
  (`pin/main.cc` 46-103). An `<in>` of that name in a later config takes the stale
  count over. `NamesStay` leaves this case out.
* `Fpga_clk::rate` writes the larger factor of the divisor to a field of six bits
  without a check: 15 MHz from 1 GHz is the divisor 67, whose field is 3, so the PL
  gets 333 MHz, above the maximum the function enforces. `CloseToTarget` assumes that
  the factor fits. Also, it is the divisor that is rounded and not the rate: for
  224.7 MHz from 1 GHz the divisor is 4 (250 MHz), although 5 (200 MHz) is closer.
* `Reset_switch::_deassert` (`slcr.h` 118) looks at its own bit only, so a device that is
  acquired while devcfg is held runs in a PL of which only the signals of the PS
  are connected. `RunsConnected` speaks of domains that nobody uses there.
* `write_bytes` for a message longer than the FIFO returns 0 as soon as all bytes are
  in the FIFO, because COMP of an earlier filling is still set; `AllSent` claims
  completeness for messages that fit. `read_bytes` polls forever if the error comes
  after its only look at the error bits; `CallsEnd` names that case.
* The SD-card driver acknowledges every read and write as successful
  (`block.c` 124), whatever the block layer reports in the bio.
* A flush that takes time ends the SD-card driver: Linux waits for it by
  `io_schedule_timeout`, whose generated dummy stops (`generated_dummies.c` 555).
  `Drains` names that case.
* The programs of the GPIO demo read no pin before their first interrupt, so an LED
  may differ from its switch until a switch moves, and what happens between
  the opening of a session and the first acknowledgement is erased by it.
  `LedsFollow` and `ButtonHeld` begin after that.
* If the clock of the SPI controller is at most twice the greatest frequency of
  the device, the prescaler that was computed is out of bounds and the default of
  64 takes its place, slower than needed. If it is more than 256 times that
  frequency, the default also takes its place, and the device is driven too fast
  (`DefaultPrescaler`).

## 3. Runs

| Run | Instance | Shows |
|---|---|---|
| `tx` | 3 descriptors, 2 good packets, an empty and an oversized one, 3 acknowledgements, no errors | refinement of `TxChannel`, `NoLeak`, `HwInsideWindow`, and under fairness `AcceptedIsReturned` |
| `tx_faults` | 2 descriptors, 3 good packets and an oversized one, 2 acknowledgements, bus errors and underruns | `OwnedOnce`, the refinement of the lossy channel, and under fairness `SubmittedIsTaken` |
| `rx` | 3 descriptors, 4 frame numbers, any start of the device, nothing pending | `HeadInStep`, `OneOwner`, `InOrder`, `StoredIsTaken` |
| `rx_faults` | 2 descriptors, fragments, overruns, bus errors, any interrupt pending at the start | `AckedIsRearmed`, `ReceiverReady` |
| `platform` | 3 segments, 2 sessions, 4 ranges; 15 rates from two PLLs, 2 PL reset domains, 2 sessions | `ValidPrefix`, `GrantedCovered`; `NoOvershoot`, `CloseToTarget`, `RunsConnected`, `DevicesRun` |
| `dma_guard_revoke` (violated) | the guard's part of `platform` | a removed range may stay accessible |
| `fpga_system` | 2 bitstreams with 4 contents, 1 device type, 1 driver | `ReportTruthful`, `CaughtUp`, `Converges` |
| `pin` | 2 names with a pin each, 2 control clients, an interrupt client, changing attributes, directions and policies, malformed nodes; one program of the demo with one or two pins | `RefsExact`, `DirectionRight`, `DefaultDrives`, `UpdateKeepsLevel`; `LedsFollow`, `ButtonHeld` |
| `gpio_shared` (violated) | two programs with a pin each in the same bank | an edge may be erased before it is reported |
| `dma_loopback` | 3 buffer pairs, 4 transfer numbers, 2 buffer and 2 access sizes, DMA errors | `NeverFails`, `SourceStable`, `LoopGoesOn` |
| `i2c` | a FIFO of 2 bytes, messages of up to 5, errors at any byte; the SPI prescaler for rates up to 600 and 160 units | `AllSent`, `CallsEnd` |
| `sd_block` | 2 disks, one of them with a cache, one slot per session, 4 requests, cards and sessions that come and go, left-over bios | `AnswersAnnounced`, `NoLostWakeup`, refinement of `BlockService`, `Drains` |

### Bounds

* Rings: three descriptors are the smallest ring with a first, a middle and a
  last one and a wrap between each two. In `tx` the good packets are one fewer than the
  descriptors, so the ring never fills; in `tx_faults` they are one more, so it fills
  with a packet left in the queue. Empty and oversized packets never enter the ring.
* `rx`: more frame numbers than descriptors, so that any frame that can be
  delivered has a number that no other has that could be delivered in its place.
  The fault runs have one number, as their properties do not speak of order.
* `AckCapacity`: 2 is fewer than the packets in `tx_faults`, so the queue may be full; 3
  never fills in `tx`, where `AcceptedIsReturned` asks for no more.
* DMA guard: the ranges include two at the same address with different sizes
  (reuse of an address), a size that is not a power of two, and together more
  buffers than segments.
* FPGA: two names with two versions each distinguish every "old" from "new".
* Pins: two control clients are the fewest that can share a pin, `Counts` is one
  more than the clients, so the counter only wraps when it underflows. The configs
  of `pin` satisfy `NamesStay` (each name stays with its pin, and a name that is
  malformed in one config is not an input in another), because `RefsExact`,
  `DefaultDrives` and `UpdateKeepsLevel` are false otherwise.
* `Timeout` is 1 where the code has 200 looks: enough for an answer before, between
  and after the looks.
* AXI DMA: two levels of sizes make the timer change the access size alone, both
  sizes, and end the test. Once the program has told its parent that it ends, the
  sizes are left alone, as only the end of the process follows.
* Rates: typical ones, those with a prime divisor, a divisor with a large prime
  factor, odd rates, a tie, the smallest and one above the maximum.
* I2C: a FIFO of two bytes and messages of five give a first filling, a full and
  a partial refill, and messages that just fit.
* GPIO: two switches are the fewest with an order of acknowledging and reading; two
  programs the fewest that can disturb each other. In `pin` a program has its
  bank for itself: with two of them the properties are false as `gpio_shared` shows.
* SD card: one slot makes a session run out of slots at once; two requests of
  the first disk give one in flight and one queued, or both queued. At most one bio of each request
  is left over from ended sessions; a further one would do what the first one does. A table of two disks has a first and a last entry; a full table, at which
  `blk_register_queue` gives up, takes a third disk and changes nothing.
* `DmaPool`: an address space of 16 with a pool in the middle; the theorems hold for any.
* No state constraint and no symmetry is used; nothing else is bounded.

### Fairness

* One thread per driver: `WF(Driver)` says that a handler that runs goes on.
  A Genode entrypoint serves pending signals in turn, which is strong fairness
  of the handlers of two signals (`HandleConfig` and `HandleRom`, `HandleIrq` and
  `AckAvail`), one of which may be raised again and again.
* The GEM goes on while it has work (`HwTransmit`, `HwHalt`). Nothing makes it
  receive or fail; `StoredIsTaken` names arriving frames as its hypothesis.
* The AXI DMA engine ends what it began and its interrupt line reaches the thread;
  the timer and errors may come or not. The I2C bus moves on (`WF(Bus)`: a byte is
  sent or received) unless it fails, and the polling driver runs.
* Clients take back what they are given; they need not submit anything.
* The pin driver and each program of the demo go on while they have something to
  do; the properties begin when pins come to rest or a button is held.
* The SD-card driver's thread goes on, and each bio in flight ends, with its data
  or with Linux's timeout (`WF(DeviceDone)`). Cards, sessions and new requests come or
  not; `Drains` begins when the clients stop asking.
* Each manager handles its signal. The operator may change things forever; the
  convergence properties begin when he stops. A transfer ends, well or not.
* `handle_rom` runs before the driver registers its ROM handler
  (`src/drivers/fpga/main.cc` 52-54): it is assumed that the ROM service signals a
  version that the client has not picked up at registration.

`CHECK_DEADLOCK FALSE` is set where the system may stop: in `tx_faults`, because after
the loss of all packets the client has nothing to submit; in the `rx` runs and
`pin`, because a driver that died takes no step; in `dma_loopback`, because nothing
goes on after an engine error; in `i2c`, because a read that fails late polls forever;
in `sd_block`, because a flush may have stopped the driver.
(A dead FPGA driver has an environment that goes on.)

## 4. Proofs

Every invariant and action property that a passing run checks, and both refinements,
are theorems of the specification, for every value of the constants that meets the
assumptions. TLC evaluates the constants' assumptions in the runs. A theorem
that needs a further condition names it after ASSUME.

The type invariants come first (`Typing`, `RegisterTyping`; that of the I2C master is a
part of `MasterInv`), and the other theorems rest on them. What is added to a property to make it inductive was checked
with TLC before it was proved.

### GemBuffers_proofs (any ring, any queue, any address space and pool)

`AdvanceInRing`, `FirstInRing` and the lemmas on `Queued` give the arithmetic of the
ring's indices, `AppendRange` and `TailRange` what the operations of a queue
do to the packets in it. `AddressesLeadBack`, `ErasedYieldsNothing` and `NothingOutside`
state `RoundTrip`, `ErasedIsInvalid` and `StaysInPool` of `DmaPool`; they follow by
arithmetic, because the pool does not wrap.

### TxRing_proofs (any ring, session, queue and errors)

* `OnlyOneOwner` (`OwnedOnce`) is inductive with the types, because it speaks of all
  descriptors, not only of those between tail and head: a reset forgets the order
  but not the addresses. The interesting steps are `AckTail`, where the address is
  erased in the step that appends it to the queue, and `Send`, which may overwrite a
  forgotten packet: that loses it and does no harm to ownership.
* `WindowFilled`: each descriptor between tail and head holds a good packet.
* `RoomToSpare`: from both follows, by counting, that a client with fewer good packets
  than there are descriptors (`SpareSlot`) never fills the ring (`HasRoom`). The driver
  does not see to it, so what is proved of a ring that loses nothing has the
  premise `[]HasRoom`, a property of the behaviour and not of the constants.
* `CleanRing` (`CleanInv`) says, without errors and while the ring is never full, that a descriptor holds a packet
  exactly while it is in the window, and is the controller's from its queue pointer
  on. `ControllerInWindow` (`HwInsideWindow`) and `NothingLost` (`NoLeak`) follow. Without
  `Faults = {}` they are false: a reset drops half of the packets (section 2). So they are
  without `[]HasRoom`.
* `KeepsPromise`: `ImplementsChannel`, with all errors and with any number of packets, also
  if they fill the ring; the channel may lose packets only if errors are possible or
  `SpareSlot` does not hold. Under the mapping a step of the ring
  is one of `TxChannel` or a stutter; the window of good packets is the channel's queue.

### RxRing_proofs (any ring, numbers, speeds and looks at the management port)

* `StartsReady` (`ReceiverReady`) rests on `ReadyInv`, which says for each step of the
  constructors what those before it have established. It holds with all errors
  and all the boot loader may leave behind.
* `OwnersKnown` (`OneOwner`) assumes `Faults = {}`, because the reset after an error (`device.h`
  525) takes back buffers that the client is still reading.
* `StreamKept` (`StreamInv`): the frames that wait in the ring are numbered one after the
  other, the head is where the next one will be, and a frame that waits is
  announced by an interrupt bit or about to be looked at. `FramesInOrder` (`InOrder`: the
  k-th frame delivered is the k-th stored) and `HeadKeepsUp` (`HeadInStep`) follow. `Clean` is their condition: no errors, whole frames, no
  interrupt from before the start. Each part is necessary: on the instance of `rx`,
  both are violated with `hresp` or `overrun` alone, with fragments alone (the driver
  drops a frame in several descriptors) and with stale interrupts alone. `OneOwner` holds
  with the last two and is violated by either error.

### Registers_proofs

The DMA guard, for any number of segments, sessions and ranges:

* `RequestInv`: what the registries, the ranges in work and `granted` have to do with each
  other; no two live ranges share an address, so removing one range never
  matches the segment of another.
* `Segments` (`SegmentInv`): the valid segments are a prefix, but for the gap that is
  being closed behind the loop counter; each granted range has a segment, and
  while the gap is closed none of them is the one being overwritten without a
  copy one register below. `PrefixInvariant` and `GrantedStaysCovered` follow.

The clocks and resets, for any oscillator, rates, divisors left by the boot loader,
sessions and reset domains:

* Arithmetic first: the divisor that `_find_divisor` returns is the product of its two
  factors, no other whole number is closer to the quotient of the rates, and a
  larger divisor never makes a clock faster. What that means for the rate that
  comes out is `RateOfProduct`.
* `ClockKept` (`ClockInv`) says what the two fields hold at each step of `Fpga_clk::rate`.
  `NeverFaster` (`NoOvershoot`) and `RateCloseToTarget` (`CloseToTarget`) follow.
* `ResetKept` (`ResetInv`) says what the reset bits and the level shifters are at each step
  of the nreset switch. `NoUnusedRunsCutOff` (`RunsConnected`) and `UsedDevicesRun`
  (`DevicesRun`) follow. `FpgaAssumption` says that the switch is not one of the domains.

The I2C master, for any FIFO and any message, over all interleavings of its register
accesses with the controller and all errors (`MessageSent`, the property `AllSent`):

* `WireInv`: the bytes on the wire and those in the FIFO are the message from its
  beginning to `sendByteCount` bytes before its end, from the filling on and as long
  as the controller is busy. An error may eat a byte of the FIFO, but it ends the
  transfer, so the gap does not reach the wire.
* `FillInv`: what is about to be filled fits, and a message that fits the FIFO is
  filled at once.
* `StatusInv`: the interrupt status is empty when the address is written, so that for such
  a message COMP means that all of it has been acknowledged. For a longer message
  it does not (section 2), which is why `AllSent` speaks of messages that fit.

### FpgaSystem_proofs (any bitstreams, versions, device types and drivers)

* `ReportIsTruthful` (`ReportTruthful`) needs `ReportInv`: what is reported as loaded is the
  bitstream that is managed, because the destructor of `Managed_bitstream` reports
  before it resets the PL.
* `ChainCaughtUp` (`CaughtUp`) needs that the driver manager's report is what its flags
  say, as it only generates the report when a flag has changed. `NoneAssumption` says
  that no bitstream and no design has the name that stands for none.

### PinDriver_proofs (any names, pins, clients and configs with `NamesStay`)

`Consistent` relates the declarations and registers to the pins that the sessions hold. Each
single acquire and release preserves it, so the states in the middle of a handler
need no invariant of their own. `Placed` says that declarations come from the config,
`Visited` which sessions hold the pin the current config gives them. From
`AlwaysConsistent` follow `CountsExact` (`RefsExact`), `OutputsDriven` (`DirectionRight`), `DefaultsDriven`
(`DefaultDrives`) and `LevelsKept` (`UpdateKeepsLevel`).

### DmaLoopback_proofs (any sizes, numbers and engine errors; the ring of the code)

At any time one pair of buffers is being transferred. `LoopKept` (`LoopInv`) says where the
thread is in the test (`PhaseInv`), how far the two channels are (`EngineInv`), what the buffers
of the pair and the stream have in common (`PairInv`), which slots of the ring hold
which numbers (`RingInv`), and that no access exceeds the transfer (`SizesInv`).
`LoopNeverFails` (`NeverFails`: the program tells its parent no failure) and `SourcesStable` (`SourceStable`) follow. `SlotsAssumption` is the
`Transfers` of the test, which has three; `BuffersAssumption` and `ValuesAssumption` only say that
the constants of `AxiDma` provide for the test's buffers and values.

### SdBlock_proofs (any disks, requests, slots and size of the table)

* `RequestStates` (`RequestInv`) relates the queue of a session, the states of its requests
  and their bios, left-over bios apart; `SlotLimit` counts the slots.
* `NoLostWakeup` speaks of the moments at which the driver sleeps and is not inductive.
  `AlwaysWatched` (`Watched`) says of every moment what will make the poll task look at a
  session with requests: a signal, a task that is ready, or a disk the task has yet
  to visit. `WakeupsKept` follows, and `AnnouncedInTime` (`AnswersAnnounced`) similarly.
* `Implementation` (`ImplementsService`): each step maps to one of `BlockService` or a stutter; a
  request is answered only after it was performed, since the end of its bio comes
  first.

### What the proofs corrected

* Until the first `SetRate` the second factor is the one the boot loader left, which may be
  63, and not one that the search returns; the type invariant of `Slcr` was too narrow.
* `RefsExact` is false when a malformed name becomes an input (section 2); the run's
  configs did not show it.
* The steps of the poll task of the SD card now say that they happen while the handler
  executes Linux tasks (`ep = "execute"`), which was only true because of the rest.

### Only model-checked

* Liveness, which TLAPS does not support with fairness: `SubmittedIsTaken`, `AcceptedIsReturned`,
  `StoredIsTaken`, `AckedIsRearmed`, `Converges`, `LedsFollow`, `ButtonHeld`, `LoopGoesOn`, `CallsEnd`, `Drains`.
* The constant facts that TLC evaluates for the bounds of the runs: `ConfigureDetects`,
  `LeastPrescaler` and `DefaultPrescaler`.
* The pin interrupts and the GPIO demo, about which the runs check liveness and a
  violated property only.

## 5. Not modelled

* MAC addresses, hash and statistics registers of the Ethernet driver, the copying of
  packets to and from its DMA pool and the single registers of the link
  negotiation: straight-line accesses.
* The switch of the DMA guard.
* CPU, DDR and peripheral clocks and power domains of `slcr.h`, which are read or
  switched by one bit.
* The modes of the AXI DMA library the test does not use (polling, scatter-gather).
* The dummies, the device table and the glue between Linux and Genode of the SD-card
  driver: no logic of their own, or code that is not here.
* The transfer of `spi.h`, one straight line with one wait: its wait for room in the
  transmit FIFO does not wait for the last byte to be received, so what it reads
  last depends on the speed of the bus. VDMA, GPIO and UART headers: register
  layouts with short accessors.
* The colours of the GPIO demo, the test of the clocks and the dummy of the
  driver-manager test.
* Bootstrap, kernel support, Linux emulation, U-Boot, recipes and run scripts:
  nothing concurrent or stateful at this level, or code that is not here.

## 6. Plan

1. (done) Transmit ring with its channel, receive ring with the start of the device,
   DMA guard, FPGA driver and managers, pin driver, AXI DMA with the loop-back test,
   clocks and resets, I2C master; ownership of transmit packets and coverage of
   granted buffers proved.
2. (done) SD-card driver with its abstract service, interrupts of the pin driver with the
   GPIO demo, PLLs of the PL clocks, SPI prescaler, DMA pool with its theorems; the FPGA
   driver checked within its system.
3. (done) Proofs of every invariant, action property and refinement the runs check.
4. Composition: both rings under one `handle_irq`, where a long receive loop delays
   transmission; the loop-back ring with `DmaGuard`, whose segments its buffers are;
   `Slcr` with `FpgaDriver`, whose ownership of devcfg it carries out.
