# Verification of AVR-Common's avrlib

TLA+ models of the drivers and the network stack in `src/avrlib`, checked with
TLC on small instances and, for the parts named below, proved with TLAPS for
every value of the constants. `PROJECT.json` lists the runs, the mutants that
show each property can fail, the source lines of every definition, the hazards
and the findings.

    cd tla
    tlc -workers 2 -config MCUart.cfg MCUart      # one run
    tlapm UartProofs.tla                          # one module's proofs

## The system

The repository collects code for AVR microcontrollers. Its own part is `avrlib`:
C libraries that a program links and calls from one main loop, with interrupt
service routines that run between any two of its instructions. There are no
threads; an interrupt does not interrupt another one. A 16-bit value is two
bytes to the AVR, so only `CRITICAL_SECTION` (interrupts off) makes an access to
one atomic. The network side is different: the stack runs in the main loop
only, and what it has to cope with is the network.

| Component | State | Operations | Interacts with | Hard behaviour | Correct when |
|---|---|---|---|---|---|
| buffer.c | data, index, length | init, get, dump, peek, add, flush | used by uart.c | wrap of the index; critical sections | it is a bounded queue |
| uart.c | receive buffer, handler, overflow count | init, receive, empty?, flush, set handler, send; receive interrupt | buffer.c, USART | 16-bit accesses outside critical sections | no byte lost, doubled or overtaken; calls return |
| net/arp.c | table of addresses, own address | harvest, resolve, answer, age | called by ip.c, icmp.c, netstack.c | stale and expired entries, full table | look-ups unambiguous and current |
| net/ip.c, icmp.c | address, mask, gateway | configure, send; echo | arp.c, nic | next hop, reconfiguration between packets | answers reach their hop |
| net/netstack.c | the one packet buffer | service | all of net/, user's handler | frames at any time, empty polls | each packet is processed once, none waits for ever |
| net/dhcp.c | server, lease | request, release, packet, second | ip.c, udpSend | loss, duplicates, several servers | a lease that is counted is held at its server; no address is taken unasked |
| i2c.c | state, two buffers with indices | send, receive, polled variants; interrupt | TWI hardware, bus, user's handlers | refusals, lost arbitration, node is master and slave | transfers complete and in order; bus free when idle |
| timer.c | table of interrupt functions, overflow counts | attach, detach, initialise, pause | pulse.c, servo.c, uartsw.c | the wrap of the counter, flags nobody serves | handlers run once per match |
| servo.c | channels, position in the period | init, off, set position or pin; compare interrupt | timer.c | the rest of a period, positions changed in it | pulses and periods have their lengths; a pin is left high only by moving it |
| pulse.c | count, mode and half period of two channels | init, off, run, stop, set frequency; compare interrupts | timer.c | read and write of shared registers, 16-bit counts | counted output ends, with a known number of edges |
| uartsw.c | byte, bit number and busy flag of each direction, receive buffer | init, send, receive; three interrupts | timer.c, buffer.c | registers changed by call and interrupts, an idle compare | bytes whole, in order, none lost, as far as its interrupts leave its calls alone |
| nic/enc28j60, nic/w5100 | banks, receive ring, sockets | init, send, receive | SPI, chip | ring wrap, chip's socket state | frames whole and in order |
| mmc.c, spieeprom.c, spi.c | card state | command, block read and write | SPI, device | busy device, refused command | blocks whole, errors reported |
| a2d, extint, lcd, rprintf, debug | little or none | | | | |

uIP, FatFs, FreeRTOS, LUFA and the boot loaders are third-party code kept in the
tree and are not modelled.

## Modules

| Module | Models | State and actions |
|---|---|---|
| `Fifo` | what a cBuffer promises | a sequence of at most `Size` bytes, what its reader was told, and what was refused; get, dump, peek, add, room, flush |
| `CBuffer` | buffer.c | operators on data, index and length, one per function |
| `Uart` (extends `CBuffer`) | uart.c, and a program that calls buffer.h's functions with its buffer | `USART_RX` is the interrupt; each call is an action for its beginning and one for each later access, `CallBuffer` one of buffer.h; `Arrive` and `Shift` are the hardware; `RefinesFifo` instantiates `Fifo` with `Contents` |
| `ArpCache` | net/arp.c's table | `arpIpIn`, `arpIpOut`, `arpTimer`, `arpMatchIp` as operators and actions |
| `IpLayer` (extends `ArpCache`) | net/ip.c | `ipSetConfig`, next hop, `udpSend` |
| `Netstack` (extends `IpLayer`) | netstack.c, icmp.c, ARP answers, netstack2's handler | `netstackService` is one turn of the main loop: poll, harvest, dispatch, answer; `Timer`, `SetConfig` and `SendHello` come between turns; `Arrive` is the network |
| `Dhcp` (extends `IpLayer`) | net/dhcp.c | `dhcpRequest`, `dhcpRelease`, `dhcpTimer`, one action per message the client takes; `Restart`; the servers, another client and the network around it |
| `I2c` | i2c.c | `TWI` is the interrupt, by status; the calls are a step per access; `Hardware` is the interface, the device and another master |
| `Timer1` | timer 1 and timer.c's table of functions | counter, compare registers, flags, masks; `timerAttach` and the passing of a tic as operators |
| `Servo` (extends `Timer1`) | servo.c | `servoService` is the interrupt, each call an action, servoSetChannelIO two |
| `Pulse` (extends `Timer1`) | pulse.c | `pulseService` is the interrupt of a channel; a call is a list of byte accesses, `Step` does one |
| `UartSw` (extends `Timer1`) | uartsw.c, its output wired to its input | three interrupts; `uartswSendByte` is an action per access, a 16-bit register two; `RefinesLink` instantiates `Link` with the bytes not yet arrived |
| `Link` | what a serial line with a receive buffer promises | the bytes on their way and those received; send, arrive, receive |
| `CBufferProofs` (lemmas), `UartProofs` (extends it), `NetstackProofs`, `DhcpProofs`, `I2cProofs`, `ServoProofs`, `PulseProofs`, `UartSwProofs` | proofs | |
| `MC*` | instances for TLC | |

Bytes are numbered in the order of their arrival (`Uart`), or carry the number of
their transfer and their position (`I2c`), so that one that is lost, repeated,
overtaken or left from before shows. Ghost variables (`fate`, `old`, `handled`,
`lastEth`, `wire`, `transfer`, `since`, `wanted`, `frame`, `moved`, `stale`, `edges`,
`due`, `sent`, `kept`, `clash`, `gaveUp`, `overtaken`) record history for the properties and guard no
action of the code. An IP address is a pair of network and host part, and a
mask keeps one part or none: enough for every test and every next hop the code
computes.

### Granularity

*Uart.* A cBuffer function is one step because it is a critical section. An
access to `uartRxBuffer.datalength` or `UartRxFunc` from the main program is two
steps, either half first, since the compiler may choose. A call through an
address that is neither a handler of the program nor 0 ends the model's program
(`pc = "wild"`): nothing can be said of what follows.

*Netstack.* `netstackService` is one step: nothing in it runs in an interrupt,
and the network interface only adds frames meanwhile, which commutes with it.

*Dhcp.* Taking a message is one step, as in `Netstack`. A message is a record of
the fields that somebody looks at, its options those of its server; a refusal
(NAK) is ignored by the code and is not sent. An option that a server leaves out
makes dhcpGetOption keep what its variable held, which for the first one is any
value. `Restart` forgets the client's memory; the servers keep theirs. Messages may
be delayed for as long as one likes: a second, a call or a restart comes at any
time. `overtaken` remembers that one came while a message it matters to was on its
way, until the node, with no address and none of its messages on the way, asks anew.

*Timer 1.* `Tic` advances the counter and raises the flags of the units it reaches.
A flag of a unit that is not enabled stays up, as the chip's does. How late an
interrupt is depends on the driver's clock. `Servo` and `Pulse` count prescaled tics
(servo.c:21 sets 256 cycles, timer.h:112 a default of 64): a handler is over within
a tic, so that a tic comes only when all is served, and at most one comes in a call of
`Pulse`. With a faster prescaler this stands for a half period longer than a call and
the interrupt in it: a match more or less in a call is what tells the tics apart. `UartSw` counts CPU cycles (uartsw.c:112): there tics come between
any two steps of a call and before a pending interrupt, and `Latency` bounds how
many until the CPU has caught up.

*Servo.* servoInit and servoOff disable the interrupt first, and setting a position
stores one byte that the interrupt reads; each is one step. servoSetChannelIO
stores port and pin, and the interrupt comes between them too. Every call is
made at any time, with the driver on or off, any pin high and any flag up.

*Pulse.* A call is one step per access to memory or a register that an interrupt uses;
the interrupts come between any two. TCCR1A and TIMSK1 are read in one step and
written in another; a 16-bit count, period or function pointer is stored a byte at a
time, counts and periods either byte first. An interrupt that finds half a pointer
ends the model's program (`wild`). The two bits that connect a pin are one, and so
are the bytes of OCR1x: a torn one moves an edge, which no property here times.
pulseT1xRun is not called between pulseT1Off and the next pulseT1Init.

*UartSw.* A call is one step per access, and a 16-bit register two, through the one
`TEMP` that the interrupts use as well. The only sender is the driver itself. The
ghost `clash` becomes true when compare A's handler runs inside uartswSendByte after
it has set or begun to use the driver's variables, or when a receive handler runs
where the call has half of a register (`HalfDone`).

*I2c.* A write of TWCR is one step: it names all bits that matter. The
interrupt is one step, and a pending one runs before the program's next step;
the hardware may report between any two. The copy loops of the calls are one
step: nothing else uses the send buffer meanwhile in a program that has one
role, which is what the main run is about. An NI call is made between
transfers: it does not look at `I2cState`, so this is the caller's duty. Calls
transfer at least one byte and no more than the buffers hold, which i2c.c does
not test.

## Runs

| Run | Question | Bounds |
|---|---|---|
| `uart` | is the buffer that program and interrupt share a bounded queue, and does the driver survive the interrupt between any two accesses? | 3 slots, 4 bytes: every index and length, fill, overflow and wrap, and dumps beyond the length; bytes of 4 values so that a length fits one, as 64 fits 256; one handler, set and taken back |
| `uart_handler` (violation) | does the interrupt run only functions that the program supplied? | as above |
| `netstack` | is ARP current and unambiguous, do answers reach their hop, is every packet handled once? | 2 slots, time to live 2, 3 frames out of 11 kinds: a node that moves, a full table, expiry, two configurations, a foreign network, broadcasts |
| `netstack_enc28j60` (violation) | the same driver promise with the ENC28J60's `nicPoll` | as above |
| `dhcp` | does a server hold what the client counts a lease for, until a message is overtaken, and does a program that asks get an address? | 2 servers with one address each, leases of 2 and 3 seconds, one server without a router; loss, delay and duplicates; every order of delivery; `MaxNet` = 2: a message is sent when less than 2 are on their way, so that up to 3 are |
| `dhcp_two_servers` (violation) | does a release free the address? | as above, with a network that does nothing wrong, and `MaxNet` = 4 |
| `i2c` | are transfers complete, in order, delivered, and the bus free after them? | buffers of 3, lengths 1 to 3, a foreign write up to 4, 3 transfers: every status of the interrupt, and a transfer after a failed one |
| `i2c_overlong` (violation) | does the interface become ready again after any write to this node? | a write of 4 bytes to a buffer of 3 |
| `servo` | do pulses and periods have their lengths, and what leaves a pin high? | 2 channels, one moved to another port, one to the pin of the first; limits 1 and 2, a timer of 19 tics for a period of 18: the counter wraps at every place of the period |
| `pulse` | how many edges does a run put out, and does it end, with the interrupt between any two accesses? | 1 channel, bytes of 3 values, so that counts and half periods need both bytes; runs of 0, 1 and 3 pulses, half periods of 2 and 3, 3 calls of any kind |
| `pulse_both` (violation) | does it with both channels in use? | 2 channels, 2 runs of 1 or 2 pulses |
| `uartsw` | until an interrupt clashes with a call, is the line a `Link`: do bytes arrive whole, in order, and all of them? | bytes of 2 bits (1 and 2), 6 tics a bit, a tic of latency, a buffer of one byte that can be full, 2 bytes, a timer of 14 tics, in two bytes of 7 values, that wraps while the line is idle |

Every property of a passing run has a mutant in `PROJECT.json`: a plausible bug
in a modelled definition which the same run finds.

The bounds `MaxRx`, `MaxFrames`, `NicRoom`, `MaxTransfers`, `LongestWrite`, `MaxCalls`,
`MaxNet` and `MaxBytes` only end the environment's activity; no code depends on them. A
byte of 3, 4 or 7 values and a timer of 9 to 19 tics stand for 256 and 65536: what
matters is that a 16-bit value has two of the first and that the counter wraps. Deadlock checking
is off in `i2c`, where the program and the other masters have no transfers left
in the end, and in `uart` and `pulse`, whose program may jump to an address that is none;
in the other runs some step is always possible.

### Fairness

- `Uart`: the main program goes on when interrupts let it (`WF`), the transmitter
  shifts its byte out (`WF`), and the receive interrupt runs (`SF`): it is
  disabled and enabled again by every critical section, but the AVR remembers
  the flag and takes the interrupt at the instruction after one, so that it
  cannot be postponed for ever. Nothing is assumed about bytes arriving or calls
  being made.
- `Netstack`: `WF(netstackService)`: the examples' main loop calls it for ever.
- `I2c`: the processor runs the interrupt and goes on with a call (`WF`), the
  interface performs the operation it was told to (`WF`), and another master ends
  a transfer (`WF`): it may at any time, and may not keep writing beyond
  `LongestWrite`. A new call or transfer is never required.
- `Servo`: none; its properties are about safety.
- `Pulse`: time passes, the program ends a call it began, and a channel's interrupt
  runs (`WF`).
- `UartSw`: time passes and interrupts run (`WF`); `uartswSendByte` goes on (`SF`): an
  interrupt may hold it up before each step, but they leave room for it.
- `Dhcp`: a message that is sent again and again is answered and arrives in the end
  (`SF` on the servers' and the client's taking of messages): the network may lose
  any message, not every one. Messages die out (`WF`). A program without a
  lease that wants one asks again (`SF`): dhcp.c has no timer of its own that would.

## What the runs show

*Hold.* The UART's buffer is a bounded queue under every interleaving of interrupt and
program. The unguarded accesses to its length are harmless for buffers below 256
bytes: a flush forgets all it should and nothing later, a test never misses data, and
data found is still there when it is fetched. ARP entries are unambiguous and follow
the last packet seen, also after expiring; an entry is only given away when it has
expired; answers go where the hop's last packet came from. With a driver that answers
0 on an empty poll each packet is handled once. The I2C driver completes transfers byte
for byte, frees the bus after a refusal, a lost arbitration or a bus error, never
passes the end of a buffer, and gives the slave handlers exactly what crossed the
bus; a master that reads gets the bytes the slave's handler filled in, if it filled in
any.

*Hold up to a named exception.* Here the code leaves a window that it does not close.
The model contains it; a ghost marks when it is used, and the property excepts that and
nothing else. For all of them but `RunEnds` TLC finds the property violated when the
exception is dropped.

| Property | Holds but for | Source |
|---|---|---|
| `MixOnlyInSet`, `ByteServed`, `CallsReturn` (`Uart`) | an interrupt between the two stores of uartSetRxHandler, which calls half of each of two pointers | uart.c:67 |
| `OneHigh` (`Servo`) | a channel moved, by servoSetChannelIO or servoInit, during its own pulse: nobody turns its old pin off (`moved`) | servo.c:67 |
| `PulseWidth`, `FrameLength` (`Servo`) | the first pulse after a servoInit that finds the compare flag up, which lasts until the end of the first period (`stale`), and the pulse servoInit finds under way | servo.c:52 |
| `RunEnds` (`Pulse`) | an interrupt, left enabled by pulseT1Off, between the two bytes of a function pointer (`wild`) | pulse.c:66, timer.c:134, 144 |
| `InOrder`, `RefinesLink`, `Delivered` (`UartSw`) | an interrupt of compare A, left enabled when idle, in the middle of uartswSendByte, or one of any source where the call has half of a 16-bit register or an old copy of TIMSK1 (`clash`) | uartsw.c:145, 147, 227 |
| `LeaseHeld`, `OnlyWhenAsked` (`Dhcp`) | an old acknowledgement: one under way for a second, or overtaken by a release or a restart, since all exchanges have one transaction number (`overtaken`) | dhcp.c:43 |
| `ReadGetsHandlersBytes` (`I2c`) | a slave without a handler, or whose handler fills in nothing: it sends a byte of an earlier transfer | i2c.c:455 |

For `RunEnds` the exception says where the model ends, not that output goes on: the pins
are disconnected before the pointers are touched.

The DHCP client never counts a lease longer than its server's term, whatever the network
does (`TypeOK`), and a program that asks gets a lease if somebody answers. At the
end of its lease the node keeps the address: dhcpTimer, which dhcp.h:107 says expires
the lease, only counts. A run of `n` pulses on an idle channel puts out 2`n` + 1 edges,
where `n` pulses of one high and one low period (pulse.h:33) have 2`n`: the match that
finds the count at 0 has toggled the pin already. It puts out 2`n` if a compare flag
left up from before used one count (`PulsesOut` says exactly when).

*Do not hold.*

1. `uart.c:67`: the receive interrupt calls an address half stored (`uart_handler`).
2. `net/enc28j60if.c:111` (and `nic/enc28j60/network.c`): `nicPoll` takes 4 off the
   length also when there is no packet, so the stack processes the last packet
   again and again (`netstack_enc28j60`).
3. `i2c.c:416`: after a write longer than the buffer the interface is left deaf and
   the driver in `I2C_SLAVE_RX` (`i2c_overlong`).
4. `pulse.c:111`: `pulseT1ARun` reads and writes TCCR1A with interrupts on; when the
   other channel's interrupt ends its run in between, the write connects that pin
   again, and it toggles for ever (`pulse_both`).
5. `dhcp.c:81`: with two servers the last offer decides where the release goes, and
   the last acknowledgement which address the node has (`dhcp_two_servers`).

`PROJECT.json` lists these as findings, and those of the exceptions above that
contradict a comment of the code.

*Constants.* Some assumptions on the constants are needed. With others TLC finds the
property violated:

| Change | What happens | Source |
|---|---|---|
| `Uart`: `Size = 5`, `Radix = 4` | `FlushForgets`: the flush brings bytes back when a length needs two bytes | uart.c:149 |
| `I2c`: `Roles = {"both"}` | `CallsReturn`: a slave address between the test and the setting of I2cState loses the START | i2c.c:143 |
| `I2c`: `Roles = {"both"}` | `TypeOK`: a foreign write after i2cMasterReceive has reset the index moves it, and the read stores its last byte beyond the buffer's end | i2c.c:320 |

In `UartSw` the CPU may lag less than a quarter of a bit (`2 * Latency < UartswBaudRateDiv \div 2`):
the capture interrupt puts the first sample as late as it is itself, and the sample
may be late once more. At 9600 baud and 8 MHz a bit has 833 cycles, and an interrupt
and a call together fewer than 208 to take.

## What is proved

For every value of the constants that the named assumptions of the modules allow:

- `CBufferProofs`: lemmas that say what each function does to `Contents`, index
  arithmetic modulo the size done once; `UartProofs` uses them.
- `UartProofs`, with `Size < Radix` (64 and 256 in the default build; the table above
  shows that the assumption is needed): the inductive invariant `IInv`, and from it
  `TypeCorrect`, `BufferAlwaysExact`, `ReceiveAlwaysFinds`, `FlushAlwaysForgets` and
  `NeverFalseEmpty`. `BufferIsExact` is not inductive as it stands: that the next
  byte is newer than the buffered ones needs the order in the hardware's FIFO
  (`InOrder`), and that a test in two halves is right needs what the half already
  read says (`CallInv`). With the length in one byte, clearing or reading the high
  half changes or says nothing, which is `HalvesOfShort`. `UartImplementsFifo` maps
  every step, of interrupt or program, to one of `Fifo` or a stutter. `MixNeedsSet`:
  `HandlerInv` says that outside uartSetRxHandler the two halves are of one address.
- `NetstackProofs`: `AddressInv` (types, unique and current entries) is
  inductive (`AddressesHold`), and gives `TypeCorrect`, `NoTwinEntries`,
  `CacheAlwaysLatest` and `NoEviction`; `AlwaysHandledOnce`, with
  `Driver = "w5100"`, rests on `OnceInv`: the packets in the interface have increasing
  numbers above that of the one in the buffer and were not handled yet.
  `FirstProperties` gives the first match of a look-up by well-founded minimality.
  `AnswersReachHop`: a look-up that succeeds names the latest address seen of the hop
  (`CacheIsLatest`); the sender of the packet being answered was just harvested
  (`SenderKnown`), and the answer is addressed from the table as the harvest left it
  (`AnswerStays`).
- `DhcpProofs`, without hypotheses: `LeaseHeld` is not inductive, since an acknowledgement
  on its way may be taken later. `IInv` says what each message stands for until one is
  overtaken: an acknowledgement to this node comes from a server that holds the address
  for it, and if the program has not asked, nothing is on its way that would give it an
  address. A second that passes with no acknowledgement on its way is counted by client
  and server alike. `Afresh` begins again: with nothing of the node on its way and no
  address, all of it holds whatever went before (`TypeCorrect`, `LeasesAreHeld`,
  `NoAddressUnasked`).
- `I2cProofs`, for a node of one role: `SlaveInv` says, for each status the interface
  reports, how the index, the buffer and the bytes on the wire agree, and, once the
  interrupt has answered, what it told the interface to do next (`Told`); the
  acknowledgement given one byte early keeps the index inside the buffer
  (`HandlersGetWrites`, `ReadsGetHandlersBytes`). `MasterInv` says that while the
  program sets up a transfer nothing runs that could end it (`IdleIsFree`). `SendInv`
  adds how far the call has come and, by `Stage`, the interrupt with it
  (`SendsAreComplete`). `ReadInv` does the same for the two calls that read
  (`ReceivesReturn`): the interrupt's by the byte it is at, the polled one's by the
  byte it has copied. `TypeCorrect`, the bounds of both indices, holds if no role is
  "both", and only then, as the table above shows.
- `ServoProofs`, without hypotheses: `IInv` relates the tics to the next interrupt,
  modulo the size of the timer, to the pulse under way and the position in the period,
  and lets go of it between a servoInit with the flag up and the first interrupt
  (`TypeCorrect`, `OnlyOneHigh`, `PulsesAsWanted`, `PeriodsAsLong`).
- `PulseProofs`, for one channel or two: a run's edges come from a count that a call
  stores a byte at a time and the interrupt decrements, so `PulsesOut` needs to say
  which instructions of a call are left. `IInv` says, for a run that began on an idle
  channel, either that its call is still `Starting` it, with the bytes of the count
  stored so far, or that it is `Going`, where edges and count together make the
  number due and one more, or just that if a flag left up came first (`TypeCorrect`,
  `PulsesAreOut`). That a second channel's interrupt spoils TCCR1A is about the end of
  a run, not its edges, so that these hold for both channels.
- `UartSwProofs`, with no hypothesis but the module's assumption (`Latency` below a
  quarter of a bit): `TypeCorrect`, and `Invariance`: until there is a clash, a transfer
  is in one of six phases, at rest, being prepared by the call, at the fall of the start
  bit, at the launch of the two timers, at an edge or a sample of some bit, or ending.
  In `Bits`, the heart of it, an edge and the sample of the bit on the line alternate:
  the tics to the next compare A and the next compare B differ by half a bit, give or
  take the latency of the start bit's handling (`Gaps`), and each may be late by the
  latency. From this follow `BytesInOrder` and `UartSwImplementsLink`: a sent byte is
  on its way until the sample of its last bit, and every other step is a stutter of
  `Link`.

Only model-checked: liveness (`ByteServed`, both `CallsReturn`, `FrameTaken`,
`RunEnds`, `Delivered`, `GetsConfigured`), which TLAPS's temporal prover does not
reach under fairness. Every invariant, action property and refinement that a passing
run checks is stated by a theorem.

## Limits

Timing is modelled only where timer 1 drives it, in tics of its prescaled clock; in
`Uart` and `I2c` an interrupt may be late by any amount while it is off, and I2C's bit
rate, the UART's baud rate and delays are left out. Checksums, header
fields and the text of messages are left out; frames the model offers are well
formed. The general call of I2C shares the code of its ordinary statuses.
TWI states after lost arbitration with this node being addressed (0x68, 0x78,
0xB0) cannot occur with this driver: i2cSendStart clears TWEA.

## Not modelled

- *ENC28J60 beyond nicPoll, W5100.* Rings, banks and sockets live in the chips;
  the source issues commands and reads states, and what it relies on is the
  chips' data sheets, which are not in the repository.
- *MMC card, SPI EEPROM, A/D converter, LCD.* Polling of a device, with all state
  in it. Slips found by reading are listed as hazards without a property.
- *timer.c's timers 0 and 2, timerPause, PWM.* timerPause sleeps on a second timer,
  whose relation to the program's speed the models do not have; PWM set-up writes
  registers that nothing reads.
- *uartsw2.c, uartswOff, another sender.* uartsw2.c is uartsw.c on timers 0 and 2. A
  start bit of another sender between the read and the write of TIMSK1 in
  `uartswSendByte` is listed as a hazard: the model's only sender is the driver.
- *extint.c.* A table of handlers set without a critical section, as
  `uartSetRxHandler` does, which `Uart` models.
- *rprintf, debug, checksums, header fields.* Formatting and arithmetic without state.
- *uIP, FatFs, FreeRTOS, LUFA, boot loaders.* Third-party code, kept in the tree at
  fixed versions. It is nearly all of the repository's lines, so the map covers most
  of the stateful code of avrlib's drivers and stack and yet a small share of the whole.

## Plan

1. Model: timer 0 with its overflow count and timerPause; another sender for `UartSw`;
   the receive ring of the ENC28J60 as far as the driver computes its addresses.
2. Prove about them as they come: the ring's addresses stay in the ring for every size
   of a frame; `Link`, with the bytes of a second sender that may be spoiled.
