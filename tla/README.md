# A TLA+ verification project for RVVP

RVVP is a RISC-V virtual prototype: a SystemC/TLM simulator of RV32 and RV64
harts and of the platforms around them.  This fork adds the Advanced Interrupt
Architecture (IMSIC interrupt files, APLIC), the hypervisor extension, nested
vectored interrupts, stack pointer swapping, SMPU and SPMP to the RV32 core.

The project models the parts of the simulator where correctness depends on the
order of events: interrupt delivery across privilege levels, traps, the bus lock
that makes LR/SC and AMO atomic, the GDB stub with its threads, the interrupt
controllers, timers, DMA and serial lines; and the parts that are written twice
and have to agree: decoding, instruction semantics of both cores, CSR access
checks, address translation and memory protection.  TLC checks the models on
small instances and TLAPS proves the central results for every value of the
constants.  Paths below are relative to `vp/src/`.

    tlc -config trap.cfg MCTrap        # model-check one run
    tlapm TrapProofs.tla               # check the proofs of one module

`PROJECT.json` lists the runs, the source lines behind every definition, the
hazards each property is for, and the mutants each property rejects.


## 1. Inventory

### How the simulator executes

Every hart, device and server is a SystemC process.  SystemC is cooperative: one
process runs at a time, until it waits for an event or for time.  A hart executes
whole instructions (`ISS::run_step`) and yields only in `quantum_keeper.sync`, in
WFI, when it waits for the bus lock and when the debugger stops it.  Threads of
the operating system exist besides: the GDB reader, UART readers and writers and
the timers of the real-time CLINT.  They reach the simulation through
`AsyncEvent` and mutexes.  Two consequences shape the models:

* inside a hart the hazards are *sequences*, not races: copies of state
  (`mip`, `xtopei`, `hgeip`, the active guest) that some operation forgets to
  refresh, registers one set per level that nested traps overwrite;
* between harts, devices and host threads the hazards are the *waits*: what is
  held while waiting, events that nobody waits for when they are notified, and
  notifications that are merged.

### Components

| Component | Code | State | Operations | Interacts with | Module |
|---|---|---|---|---|---|
| Interrupt file (M, S) | `core/rv32/csr.h`, `iss.cpp` | eip, eie, eidelivery, eithreshold and its stack; derived mip.xEIP, xtopei | MSI, xireg access, xtopei claim, xtvec write, interrupt taken | hart, APLIC, other harts | `EiThreshold`, `ImsicFile`, `Imsic`, `ImsicNested`, `PreemptStack` |
| Guest files | same | a bank per guest, hstatus.vgein, hgeip/hgeie, SGEIP, VSEIP, vstopei | guest switch, vsireg, vstopei, hgeie, vstvec | hypervisor, devices | `GuestFiles` |
| Local interrupt routing | same | mip, mie, mideleg, hideleg, mvien/mvip, hvien/hvip, shadow enables | timers and software interrupts, CSR writes, delivery to files and its cascade, choice of level | CLINT, files, trap entry | `ClintRoute`, `HartIrq` |
| Traps | `iss.cpp` | prv, pc, xstatus, xepc, hstatus, sp and xtsp, postponed vector | exception, interrupt, xRET, vector fetch | all instructions, memory | `Trap` |
| Bus lock, LR/SC, AMO | `platform/common/bus.h`, `core/rv32/mem.h`, `iss.cpp` | lock owner, lr_sc_counter, lr_addr | loads, stores, LR, SC, AMO, trap, WFI, sync, device write | harts, bus masters | `BusLock` |
| GDB stub | `core/common/gdb-mc` | packet queue, mutex, thread selection, hart status, runners | packets, vCont, run_threads, breakpoints | host thread, harts, bus lock | `GdbServer` |
| Interrupt priorities | `core/rv32/irq-prio.h`, `iss.cpp` | iprio arrays, xtopi | recalc_xtopi | routing | not modelled |
| CLINT, real-time CLINT | `core/common/clint.h`, `real_clint.cpp`, `timer.cpp` | mtime, compare values, software interrupts, host timers | compare, rewrite, late timer | harts, host threads | `Clint`, `RealClint` |
| APLIC | `platform/common/aplic.h` | sourcecfg, ip, ie, target, domaincfg | wire change, register access, MSI thread | devices, interrupt files | `Aplic` |
| PLICs | `platform/common/fe310_plic.h`, `fu540_plic.cpp` | pending, enables, thresholds, hart_eip | gateway, claim, complete, run thread | UART, DMA, harts | `Fe310Plic`, `Fu540Plic` |
| UARTs | `platform/common/uart_if.cpp`, `fd_abstract_uart.cpp`, `uart.cpp`, `slip.cpp` | FIFOs, semaphores, watermarks, packet buffer | host threads, register access, shutdown | PLIC | `Uart`, `Slip` |
| DMA | `platform/basic/dma.h` | operation registers, run event | start, copy, complete | bus, PLIC | `Dma` |
| Decoding | `core/common/instr.cpp`, `instr.h` | none | decode_normal, decode_and_expand_compressed, get_xtinst | traps, execution | `Decode`, `Compressed` |
| Instruction semantics | `core/rv32/iss.cpp`, `core/rv64/iss.cpp` | registers, pc, memory | exec_step, run_step | CSRs, memory, bus lock | `Exec`, `Exec64` |
| Floating point | `iss.cpp`, `core/common/fp.h` | registers, fcsr, mstatus.FS, SoftFloat's flags | the F and D instructions | SoftFloat (external) | `Fp` |
| CSR access | `core/rv32/csr.h`, `iss.cpp` | which register an address names | get_csr_value, set_csr_value | all of the above | `Csr` |
| MMU and TLB | `core/common/mmu.h` | TLB, page table A/D bits | translate, walk, SFENCE | bus lock, traps | `Mmu` |
| SMPU, SPMP | `core/common/smpu.h`, `spmp.h` | regions, locks, a cache | checks, CSR writes | memory accesses | `Smpu`, `Spmp` |
| rv64 core | `core/rv64` | as rv32 without AIA and hypervisor | | | `Exec64`, `Fp`; its traps, interrupts and CSRs are not modelled |
| Bus and memory, ELF, options, system calls, displays, flash, sensors, Ethernet, CAN, SPI, hardware in the loop | `platform`, `util` | | I/O | | not modelled |

### What makes each part correct

* **Interrupt files.** The bit the hart sees and the identity it claims are those
  of the file as it is now; a claim never loses an interrupt; in nested vectored
  mode handlers nest like calls and the most urgent interrupt is always served.
* **Guest files.** The running guest sees its own file only, the hypervisor sees
  all of them, after any series of guest switches.
* **Routing.** One source pends for one level; a level in nested vectored mode,
  which takes nothing but its external interrupt, gets every other interrupt as
  an identity in its file; an external interrupt that pends has an identity.
* **Traps.** A return restores mode, pc, stack and interrupt enable of what was
  interrupted, whatever nested in between; no privilege (MPRV, spvp, vector
  fetch) outlives the code it was granted to.
* **Bus lock.** A successful SC is atomic; nobody gives up control with the lock;
  the lock is released again and every hart yields.
* **GDB stub.** The two threads hand packets over without overlap; when the
  debugger has its answer every hart is stopped; stopping terminates.
* **Interrupt controllers.** A hart is told of a source as long as it pends, a
  deactivated source returns clean, an edge causes one MSI.
* **Timers.** No expired compare value goes unnoticed and no replaced one is served.
* **DMA, serial lines.** Copies are exact; bytes arrive once, in order, and are
  announced; shutdown ends both host threads.
* **Instructions.** Three descriptions of the encodings agree; results are right at
  the edges of the integers; an instruction traps as a whole or not at all.
* **CSRs.** What can be written can be read, and the checks written twice agree.
* **Translation, protection.** What is cached never changes an answer.


## 2. The modules

### EiThreshold, ImsicFile, Imsic (`csr.h` `icsr_eithreshold`, `iss.cpp` `compute_imsic_pending`, ...)

`EiThreshold` is the threshold register as operators on a record: `reg` in force,
the bitmap of suspended thresholds as a set, and the tail.  `ImsicFile` computes
the signal and xtopei; the 12-bit field that turns "nothing pending" (4096) into
0 is `TOPEI_IID_MOD`.  `Imsic` has one action per access: `RouteImsicWrite`
(MSI), `WriteEip`, `WriteEie`, `WriteEidelivery`, `WriteEithreshold` (xireg),
`ClaimTopei` (xtopei), `WriteTvec`, `WriteEnable`, `TakeInterrupt`.  `mip` and
`xtopei` are variables of their own because the code keeps copies; each action
recomputes them exactly where the code does, and `WriteTvec` does not.

`ImsicNested` is the file used as the nested vectored mode intends, with the
history variable `nest`; `PreemptStack` is the abstract promise ("handlers nest
like calls") that it implements under `stack <- nest`.

### GuestFiles

The banks of all guests with what the hart derives from them.  `WriteHstatus`
contains the clipping of vgein, the mode handed to the newly connected bank and
the recomputation (`on_guest_switch`); `WriteVstvec` tells the connected bank only.

### ClintRoute, HartIrq

`ClintRoute` is `csrs_clint_pend` as sets: the views sip/sie/hip/hie/vsip/vsie of
mip and mie under two stages of delegation and injection, their masked writes
and the pending set of each level.  `HartIrq` adds the three files and the
delivery: `HwIrqRoute` and `ClintCsrWrite` compute the pending sets before and
after, deliver the edges in the order of their numbers and cascade (`Cascade`
recomputes between the steps as `cascade_pendings_to_imsics` does).  The functions
of the code are operators from a hart record to a hart record; `DeliverChanges` is
the loop over the interrupts, `DeliverChange` its body.  A file is
here the set of its pending identities; its registers are the subject of `Imsic`.
The priority order within a level and hvictl are left out.

### BusLock

Harts as SystemC threads (`ready`, `running`, `waiting`, `synced`, `wfi`,
`stopped`), one action per kind of instruction, `PerformanceAndSyncUpdate` at the
end of each, an interrupt possibly after it (`Finish`), and the kernel's actions
(`Dispatch`, `NotifyWaiting` for the delta cycle of `lock_event`, `Advance` for
time).  A page walk that sets the A or D bit is a parameter of the accesses,
because it stores through `_raw_store_data` and therefore unlocks.  `overwritten`
is a history variable.

### GdbServer

The reading thread (`Accept`, `Lock`, `ParsePkt`, `ParseEof`), the server thread
(`TakeAck`, `Answer`, `SetThread`, `VCont`, `RunThreads`, `NothingToRun`,
`NoSuchThread`, `StopNext`, `AllStopped`, `StopReply`, and `WalkTables` and
`AnswerMemory` for a memory access whose address needs a page walk: it waits for
the bus lock as a hart would, and its A or D store releases it) and the runner of each hart
(`Yields`, `Blocks`, `Unblocks`, `Hits`, `Exits`, `LeavesRun`, `Finishes`,
`LeavesStep`).  A `sc_event` wakes only who waits for it when it is notified
(`Notify`, `RunThreads`).  `hartsrun` has the harts in ascending order, so `harts` is
the set of them and `pos` the one that the stopping loop has come to.  Left out:
retransmission after a NACK, the contents of responses, the `k` packet, and the
exceptions that `readMemory` and `writeMemory` do not catch (`out_of_range` for a
thread that does not exist, the trap of a page walk), which end the program.

### Trap

One hart in phases `exec` (an instruction) and `irq` (the interrupt check that
ends `run_step`).  `SwitchToTrapHandler` and `ReturnFromTrapHandler` are the two
functions of the code with everything they call (status stacking, stack pointer
swap, spvp, the jump or the postponed vector fetch).  A pc is a place in the code
of a mode and sp names the stack it points into; that is all the properties tell
apart.  `calls` is a history of what handlers interrupted.  Software is any that
keeps this discipline, which the architecture asks of it:

* a handler saves xepc and xstatus before it enables its interrupts or causes an
  exception its own level takes, and restores them before xRET;
* boot code puts each level's stack into xtsp, and a level that starts a program
  puts that program's stack there;
* machine code leaves through SRET only with stack pointer swapping off;
* only existing modes are written to mpp.

Which interrupts pend is left open (any set of levels at each check): `HartIrq`
is about that.

### Aplic, Fe310Plic, Fu540Plic

One action per register handler (`PostWriteSourcecfg`, `FeComplete`, `FuReadClaim`,
...), the gateways devices call, and the run threads, which an event wakes: `e_run`
is a Boolean, so notifications merge as in SystemC.  The APLIC's supervisor window
is an alias of the machine window except for sourcecfg.  Software of both PLICs
claims at any time, several interrupts if it likes, and writes priorities, enables and
thresholds in between; that of the FE310 completes what it claimed, and its failed
assertion ends the device (`feAssert`).  What makes an interrupt ready without notifying
anybody is kept in histories: `feLate`, `fuLate` (what waits for the next trigger),
`fePolite` (every claim so far was made with the interrupt raised and no other open).
The APLIC's `leftover` is what a source had when it was made inactive.

### Dma

The thread copies block by block and gives up the processor after each transaction
(`DmaRead`, `DmaWrite`), so that software writes registers, and starts another
operation, in between.  `DmaEventOccurs` is the event nobody waits for.  Cells hold
where their content came from.

### Clint, RealClint

`Clint` keeps mtime in ticks and simulation time in fractions of a tick
(`ClintScaler`); an access carries the delay of its hart, up to the quantum.  One
event serves all timers and keeps its earliest notification.  `ClintToggle` is
menvcfg.STCE taking stimecmp away and back.  `RealClint` has the timer thread of
each hart (`RcTimerDone`), its cancellation (`RcPause`), the asynchronous event and
the time conversions with their rounding.

### Uart, Slip

The sections under a mutex are single steps; the tests outside are steps of their
own.  Both users of the receive side are modelled: the terminal, a key at a time with its
escape filter (`RxKey`), and SLIP, whose `handle_input` pushes all bytes of a packet
before the thread looks at anything else (`RxFrame`, `rxLeft`).  `StopThreads` is
`stop_threads` up to the join of the transmit thread, `StopReceive` the pipe and the one
post of rxempty; `rxOver` remembers whether more was left to push than there was
place.  `Slip` has bytes
with and without a meaning.  A packet is framed byte by byte (`SlipFrameByte`, with
`SlipEscape` for each byte) while the other end collects what is on the wire
(`SlipCollect`, which unescapes in place).

### Decode, Compressed

A word is the record of its fields.  `Encodings` is the table of masks and encodings,
`Switch` the nested switches (what each level selects by), `Matches` the comparison
that ends them.  `Compressed` decodes and expands 16-bit words with their scattered
immediates bit by bit, because a property is about them.

### Arith, Exec, Exec64, Fp

`Arith` has the shifts, products and divisions of a register of XLEN bits, and what
they should be (`ProductExact`, `DivisionExact`, `ShiftExact`).  `Exec` and `Exec64`
are operators from the hart before an instruction to the hart after it, so that the order
of reads, writes and traps inside `exec_step` is kept.  Widths shrink together: a byte
has one bit, a word four, an RV64 register eight; nothing in the code depends on the
actual widths except through the ratios kept here.  `Exec64` reuses `Exec` where the
two cores have the same code.  `Fp` abstracts SoftFloat to a value and raised flags;
floats are small integers with a sign, zeros of both signs and NaNs.

### Csr

A CSR access is two questions, whether a check stops it and which register (`Cell`)
it reaches, answered for all 4096 addresses.  The code answers them in two switches, and
so does the module: `GetCheck` and `GetCell` are the cases of `get_csr_value`,
`SetCheck` and `SetCell` those of `set_csr_value`, each transcribed from its own lines, with
its own list of addresses that need no check (`GetUnchecked`, `SetUnchecked`).
`OnWrite` names the update function a write calls.  Field masks are left out.

### Mmu, Smpu, Spmp

`Mmu` has page numbers instead of addresses; the walk is a recursive function over
levels and sets A and D.  `Smpu` searches the regions in order with the code's early
returns, translated and protected regions, at both levels.  `Spmp` has the cache as a
field and `WriteSpmp`, the CSR writes with the clearing of the cache.  The mode of an
access is that of the hart or, for loads and stores under MPRV, mpp (`GetMemMode`): the
entries are asked with the first, the cache is indexed by the second.

### Units

Composes `Csr`, `Mmu`, `Smpu`, `Spmp` and `Fp`, which share no state: `part` chooses the
unit, `hart` is its state.  Its actions are what a hart and software do to them:
accesses, changes of page tables, of status bits, of the mode, MPRV and mpp, and of
entries, fences, floating-point
instructions, and saving the floating-point state.  Configurations and operations are
constants, for the proofs; `MCMemory` gives TLC a sample of each, and `MCIsa` adds
decoding, arithmetic and instructions.


## 3. The runs

Passing runs:

| Run | Instance | Shows |
|---|---|---|
| `imsic` | 4 identities, 2 vectors, registers of 2 bits | `SignalFresh`, `TopeiNamesSignalled`: after any order of accesses and mode changes mip and xtopei describe the file, although xtvec writes refresh neither; `ClaimTakesTop`: a claim through the cached xtopei never loses another interrupt |
| `imsic_nested` | 5 identities, 3 vectors and a tail | `BitmapIsStack`: the bitmap popped by find-first-set is the stack of entered handlers; `NestsLikeCalls`: refinement of `PreemptStack`; `TopIsServed`: the most urgent identity is never starved |
| `guest_files` | 2 guests, 2 identities | `GuestSignalsFresh`, `RunningGuestSeesItsFile`, `ClaimsOwnTop` across guest switches between an interrupt and its claim; one identity has a vector of its own, the other is in the tail |
| `hart_irq` | 6 routings with all sets of nested vectored levels, one program that rewrites delegation and enables while timers pend, one that injects | `ExternalBitsFresh`, `RoutedOnce`, `EdgeReachesFile`; `HartAssertsHold`: the assertions of `sanitize_vs_external_pend`, and of `nv_mode_get_ivt_line_num` for M and S |
| `bus_lock` | 2 harts, a device, 2 addresses, window 3, quantum 2, with and without debugger | `ScIsAtomic`, `SleepersHoldNoLock`; `LockIsTemporary`, `HartsYield` under fairness |
| `gdb` | 3 harts, continue all, step one while the others continue, unknown thread, thread selection, query, memory access, disconnection | `ReaderAlone`; `AllStop`: also while memory is accessed, and each vCont ends with a hart to report (`handler.cpp:286`); `StopsUnlessLocked` |
| `trap` | 5 modes, 3 causes, 2 configurations, 3 nested handlers | `ReturnsToCaller`, `OwnStack`, `SpvpNamesGuest`, `VectorFetchedByHandler`; `TrapAssertsHold`: the assertions of `prepare_trap` and `switch_to_trap_handler` |
| `devices` | each device alone with its software, threads and time (they share no state) | `ControllersExact`: an inactive APLIC source gains nothing and has nothing in mode INACTIVE, both PLICs signal what pends but for what is named below; `AplicEdgeOnce`: one MSI per edge; `DmaCopyExact`: a copy that nobody disturbs is a copy; `TimersOnTime`; `SerialExact`: order, announcement, SLIP packets; `UartStops`: both threads end, the receive thread of SLIP exactly when the packet it is pushing fits |
| `isa` | part by part: all rows of instruction words and all 3 x 16384 compressed words, for both architectures; sample operands; harts times instructions; all CSR addresses in many contexts; histories of the MMU, of the SPMP with MPRV and changes of mode, and of floating-point instructions; SMPU configurations of two regions, for the modes of host and guest, connected or not, at both levels | `DecodeExact`, `ArithmeticExact`, `ExecPrecise`, `CsrChecksAgree`, `TranslationExact`, `ProtectionExact` |

`guest_files`, `hart_irq` and `gdb` also check `TypeOK`.

`isa` checks algorithms against reference definitions: the switches against the mask
table, the second decoder and the expander against the first, arithmetic against its
algebraic definition (`MULH * 2^w + MUL` is the product, `a = b q + r`), translation
against the existence of a mapping in the tables (`Maps`), protection against "one live
region alone holds all bytes and grants the mode what the access does" (`Grantor`,
with R for a load, W for a store, X for a fetch in `Needs`), at each level that
concerns the access.

Runs that show the code disagreeing with its own comment or assertion:

| Run | What TLC finds |
|---|---|
| `hart_seip` | `cascade_pendings_to_imsics` promises that an undelegated supervisor external interrupt "will be written to M imsic here"; it is looked for only between the second and third computation of the pending sets, so one raised by the first delivery is missed and a nested vectored machine level never takes it |
| `bus_lock_amo` | an AMO whose load sets the A bit of its page loses the lock it took; `assert(bus_lock->is_locked(...))` in `atomic_store_word` fails |
| `aplic_msi` | `post_write_setip` says that an enabled source "need[s] to send MSI"; the run thread sends one per wake-up and notifications merge, so of two sources that pend the second is not sent until something else wakes the thread |

`gdb` sets `EBREAKS = FALSE`: an EBREAK marks its hart stopped and may still yield
inside the instruction, so that `AllStop` does not hold for programs that contain
one while the debugger is attached (see the hazard at `iss.cpp:435`).

### Behaviour met while modelling

Not stated as runs; each is where a property above is narrower than one might expect.

* hvip.VSEIP makes a guest's external interrupt pend with no identity; `assert(xtopei)`
  (`iss.cpp:3381`) fails when a nested vectored guest takes it.
* A hart the debugger stops between LR and SC keeps the bus lock, and `run_threads`
  waits for ever for a hart that waits for that lock (`StopsUnlessLocked` says "unless").
* A fault of the postponed vector fetch saves the pc of the interrupted program with
  the mode of the entered level, and the vector is not fetched again (`iss.cpp:3515`).
* A memory access of the debugger whose page walk finds the bus locked by a stopped
  hart waits for ever (`gdb_server.cpp:126`), and so does the debugger.
* APLIC: `aplic.h:533` promises zeros for inactive sources, and line 740 counts detached
  and delegated ones among them; these keep pending bit, enable bit and target and bring
  them back (`AplicInactiveFrozen` states what holds).  A delegation to child 0 reads as
  INACTIVE and is stored as such.
* FE310: the assertion at `fe310_plic.h:201` fails for software that polls or holds several
  claims, because another interrupt may pend when it completes with hart_eip false.
  Configuration writes of both PLICs notify nobody: what they make ready waits for
  the next gateway (`feLate`, `fuLate`).
* FU540: completing one interrupt lowers the line although others pend, until the next
  trigger, and what a machine context would take waits while the supervisor context of
  its hart has something to take.
* Shutdown with SLIP: `stop_threads` posts rxempty once ("unblock receive thread",
  `fd_abstract_uart.cpp:51`); with more bytes of a packet left than places, the receive
  thread blocks again and the join never returns.
* DMA: a start during a copy is lost and register writes change its remaining
  blocks.  Raising the transmit watermark of the UART notifies nobody.  SLIP: ESC
  followed by the value of an escape code is corrupted (`slip.cpp:136`), which
  `SlipDelivers` spells out.
* CSRs: a write to a locked SMPU entry is refused after rd was written; satp traps on
  TVM in every mode; counters are unchecked in VS and VU; scounteren and senvcfg cannot
  be reached from VS; HTIMEDELTA has no case; VSMPUMASK raises the illegal instead of
  the virtual instruction exception.
* Instructions: URET decodes and has no case in rv32, HLV/HSV none in rv64; SRET in U
  throws instead of trapping in rv32 and MRET checks no privilege in rv64; C.ADD with
  rd = 0 decodes as EBREAK; the expanded word of C.ADDIW is ADDI's.
* Floating point: FLW and FLD neither check FS nor mark it dirty; RMM is refused; FMIN
  and FMAX return the NaN if only rs2 is one (`FloatsExact` states this result, not the
  number the instructions mean).
* MMU and protection: the TLB remembers verdicts under an old SUM and MXR (software
  fences); paging from VS or VU fails the assertion at `mmu.h:108`; the SPMP's cache
  passes over a lower-numbered overlapping entry and survives a change of SUM; an access
  of machine mode under MPRV is granted as machine mode's and cached as mpp's
  (`spmp.h:161`, `302`), so that a later access in that mode passes what the entry
  denies.  `ProtectionExact` is about disjoint entries, an unchanged SUM and a cached
  region that was granted to the same mode of the hart (`StaleHit` is the rest);
  a fetch across the end of an SMPU region throws.

### Bounds, and why they are enough

* `imsic`, `imsic_nested`, `guest_files`: the smallest numbers with more than one
  register, more than one stackable level, a tail value, an out-of-range value and
  a mode written in each encoding; in `guest_files` two identities, so that the top one
  is a choice.  The claims hold for all sizes by proof
  (`ImsicProofs`, `GuestFilesProofs`).
* `hart_irq`: every interrupt is its own bit and the code treats the bits of a
  class alike, so one timer, the external interrupts and one unleveled interrupt
  (WDT) represent the classes.
* `bus_lock`: a window of 3 leaves room for an instruction between LR and SC and
  for one that comes too late; a quantum of 2 expires inside and outside the window.
* `gdb`: three harts, because with two there is at most one left to stop.  The
  debugger has one command outstanding, as the protocol requires, and the socket
  holds at most three packets.
* `trap`: `MAX_CALLS = 3` lets handlers of all three levels nest and one level
  interrupt itself twice; supervisor code has two places so that a wrong xepc of
  the same mode shows; the causes are one per target (kept by M although hedeleg
  names it, S, VS); the configurations are no swapping with trapped SRET, and all
  swaps with nested vectored M and S.
* `devices`: two sources per controller, so that one may hide the other; priorities
  around the threshold and above the maximum; a DMA buffer smaller than the longest
  copy, with and without overlap; compare values before and after now, a quantum
  longer than a tick; a FIFO of two bytes, so that
  order can go wrong, and packets of two and four bytes (escapes and END included), which
  fit and do not fit; all SLIP packets of three bytes, the shortest with an escaped ESC
  before an escape code.
* `isa`: words with every opcode that occurs (and one that does not), funct7 and
  funct3 where an encoding looks at them, and the register values masks look at; every
  16-bit word.  Operands are all
  16 values of RV32's four-bit registers and the edges of RV64's.  Page tables have
  two levels, so that superpages, inner entries and aligned and misaligned leaves
  occur, and two TLB entries per mode and access, so that entries evict each other.

### Fairness

* `bus_lock`: a running hart executes its next instruction and the kernel
  dispatches every ready process (SystemC's evaluation phase); nothing is assumed
  about wake-ups from WFI, time or the debugger.
* `gdb`: threads of the operating system and ready SystemC processes run; nothing
  is assumed about the debugger or about what the program executes.
* `imsic_nested`: a hart takes a signalled, enabled interrupt (the check at the
  end of every `run_step`), and handlers re-enable interrupts and complete, which is the
  software's part of the mode.
* `devices`: the host's transmit and receive threads and the destructor that joins them
  run when they can; nothing is assumed about software or about input.
  `aplic_msi`: the run thread runs when its event is notified.

The other runs assume no fairness.


## 4. The proofs

All theorems are for arbitrary constants under the named assumptions of the modules
(`ConfigAssumption`, `TopeiAssumption`, `GuestAssumption`, `HartAssumption`,
`BusAssumption`, `GdbAssumption`, `TrapAssumption`, one per device and one per unit:
`CsrAssumption`, `MmuAssumption`, `SmpuAssumption`, `SpmpAssumption`, `FpAssumption`),
which TLC evaluates in the runs.  They fix what constants are: numbers, sets of harts and
identities, registers of their width.  `HartAssumption` says more: a hart starts with
nothing pending and the hypervisor's interrupts delegated, which `csr_mideleg` fixes,
and no device raises the external interrupts, which are the files' own.
`MmuAssumption` asks that pointers in the page tables name tables, `SmpuAssumption` that
the registers hold what their write functions leave in them and that no access wraps
around the address space.  `MmuPowers`, `SmpuPowers`, `SpmpPowers` and the hypothesis
`PowersOfTwo` are facts of arithmetic about powers of two, which the provers do not know.

* **ImsicProofs** begins with the lemmas that every interrupt file rests on: what the
  scan finds, what pushing and popping thresholds keeps, and what xtopei is worth.  Its
  theorems: `TypeCorrect`, `SignalAlwaysFresh`, `TopeiAlwaysNamesSignalled`,
  `ClaimsTakeTop`.  `TopeiNamesSignalled` is not inductive: a mode change leaves
  xtopei with the value of the other mode.  The invariant `Inv` adds `TopeiCached`:
  xtopei is the value for one of the two modes.  While the file signals, both
  are the top identity; while it does not, xtopei is zero or the masked top.
  For the nested vectored mode: `BitmapAlwaysStack` and the refinement
  `NestingRefines`.  `NInv` adds to `Inv` that the mode is fixed, that the tail has
  no slot in the bitmap, and the type of the stack; a signalled identity is below the
  threshold, so the level pushed is new in the bitmap and becomes its minimum.
* **GuestFilesProofs**: `GuestTypeCorrect`, `GuestSignalsAlwaysFresh`,
  `RunningGuestAlwaysSeesItsFile` and the action property `GuestClaimsOwnTop`.  The
  argument is that of one file for each bank; `VstopeiCached` plays the part of
  `TopeiCached`, for the connected bank only, and a bank that was disconnected while
  vstvec changed is caught up by the guest switch.
* **HartIrqProofs**: `HartTypeCorrect`, `ExternalBitsAlwaysFresh`,
  `HartAssertsAlwaysHold`, `AlwaysRoutedOnce` and the action property
  `EdgesAlwaysReachFile`.  `TypeOK` (with the hypervisor's interrupts delegated) and
  `ExternalBitsFresh` are inductive together, but no part of a step keeps them: each
  delivery writes a file and then the bit of the level above.  The lemmas follow the
  hart record through `Deliver`, the loop and the three rounds of `Cascade`: a
  delivery adds to one file and raises that file's bit only (`Grows`), never
  downwards (`Upwards`), and the bits of M and S (`FreshMS`), SGEIP (`FreshSg`) and
  VSEIP (`FreshVs`) are fresh again after the call that the code makes for each.  For
  the edges, what one iteration of the loop delivers, later ones keep.
* **BusLockProofs**: `BusTypeCorrect`, `ScAlwaysAtomic`, `SleepersNeverHoldLock`,
  `NobodyEverWaits`.  `Inv` adds `OneRuns` (one thread at a time) and
  `OwnerIntact` (the owner's reservation is intact at any address): accesses of
  others wait while the lock is owned, an LR starts with a fresh reservation.
* **GdbServerProofs**: `GdbTypeCorrect`, `ReaderIsAlone`, `AllStopWithoutEbreak`.
  `ReaderAlone` says nothing of the mutex; `Handover` does: it is locked exactly while
  the reader is in its section or a packet is in the queue.  `TypeOK` bounds the
  connection because a debugger that waits has sent at most two packets that are not
  read (`ClientInv`).  `AllStop` speaks of the end of `run_threads`; `StopInv` of each
  point in it: harts it does not run are quiet and not marked, the ones its loop has
  passed are settled (waited for, or stopped when looked at, and still terminated if
  that is what is restored), and the status of one it has not come to tells whether it
  executes.  That vCont has a hart to report is `ReportInv`: as long as none is known to
  have stopped, nothing was matched and, between two rounds, actions are left; inside a
  round one of the harts it runs was not runnable, or has ended or stopped where the loop
  will see it.  The theorem assumes `~EBREAKS`, the one hypothesis it needs: with EBREAK
  a hart ahead of the loop may be marked stopped and go on, and `AllStop` is false.
* **TrapProofs**: `TrapTypeCorrect`, `MprvStaysInMachine`,
  `VectorAlwaysFetchedByHandler`, `TrapAssertsAlwaysHold`.  The four are inductive
  together (`TInv`): a trap out of M stays in M, so MPRV is carried down by no
  trap, and the mpp a trap saves is then the mode the vector is fetched in.
  `AlwaysOwnStack`, `SpvpAlwaysNamesGuest` and the action property
  `AlwaysReturnsToCaller` need `NestInv`, which says where the state of every
  suspended program is: handlers rise in privilege (`Rising`); per level, the live
  registers and the frames it saved describe, in order, the programs its handlers
  interrupted (`FramesKept`); a stack pointer is in the register it was swapped with
  (`Resumable`, `OwnStacks`); a level whose registers are live is masked
  (`LiveMasked`).  With swapping on, levels are left by their own xRET (`Handling`).
* **DevicesProofs**: `ControllersAlwaysExact`, `DmaCopiesExactly`,
  `TimersAlwaysOnTime`, `SerialAlwaysExact` and the action property
  `AplicEdgeSentOnce`, from one invariant per device (`DevicesInvariant`).  APLIC: a write
  that makes a source inactive records what it keeps, and nothing else gives to an inactive
  source (`AplicInv`, `BelongingsShrink`).  PLICs: configuration writes add to the
  histories exactly what they make ready unseen (`FeConfiguredInv`, `FuConfiguredInv`);
  for claims made with the interrupt raised, at most one is open and eip stays raised
  until it is completed (`FeInv`), so the assertion holds.  DMA: up to
  the offset reached the destination holds the source and the buffer holds what was
  read (`DmaProgress`).  CLINT: the event comes before the tick after the earliest
  compare value is over (`TickArithmetic`).  Real-time CLINT: conversions between
  ticks and microseconds round down and whole ticks undo it (`TicksReached`).  UART:
  the semaphores count what the FIFOs hold, up to the byte a thread has in its hands
  and the post of `stop_threads` (`TxInv`, `RxInv`, which also counts what is left of
  the packet being pushed).  SLIP: what was collected is what
  was framed so far, at each point of an escape sequence (`SlipInv`).
* **UnitsProofs** is about the units of a hart, for tables of every size.
  `UnitsCsrChecksAgree`: both switches are reduced, case by case, to one table of checks
  (`GetCases`, `SetCases`); an address that one of them does not check is open in the
  other (`UncheckedByGet`, `UncheckedBySet`), so they differ only in the check of locked
  SMPU entries (`SetCheckIsGetCheck`).  They name the same register (`CellsAgree`), and a
  privilege that passes the first check never reaches an assertion (`NoAssertion`).
  `UnitsTranslationExact`: each level of the walk is right if the level below is
  (`LevelStepRight`), so the walk finds exactly the leaves that `Maps` describes; `MmuInv`
  adds that every TLB entry is a translation the tables give, until software changes
  them (`TlbSound`), and that the accessed and dirty bits which later walks set take
  nothing from it (`MarksKeepMaps`).
  `UnitsProtectionExact`: the SMPU's search, over any prefix of the regions, has found
  the only one that holds the access, or none holds it, or an exception was raised
  (`SearchRight`, `SearchIsRight`); comparing both ends of the access is enough because regions and
  accesses are contiguous (`TranslatedHolds`, `ProtectedHolds`).  The rights that
  `convert_attr` makes of a region for a level are those it gives (`ConvertedRights`), and
  the verdict asks for the one the access needs (`AllowedIsGranted`); so a search passes
  what one region grants and refuses what none does (`SearchedRight`), and each level is
  exact (`LevelRight`).  For the SPMP, `SpmpInv` adds that a cached region is one of a live
  entry that allows the access to a hart in the mode and with the SUM it was granted under
  (`CacheSound`); among disjoint regions it is then the one that decides
  (`DisjointDecides`), and the same for a hart in that mode (`SameVerdict`).
  `UnitsFpTracked`, a part of `ExecPrecise`: each group of instructions of each core
  leaves no SoftFloat flag and marks FS dirty if it changes anything (`Tracks`); loads
  are apart.
  `ProductsAreExact`, `DivisionsAreExact` and `ShiftsAreExact`, parts of
  `ArithmeticExact`, for every width: the upper half is the quotient of the product by
  the range (`HighHalf`, `HalvesJoin`), and the only quotient that does not fit is the
  overflow the code tests for (`QuotientRounds`).
  Loops of the code are recursive functions here; that one exists and what it computes
  follow by looking at the least index where they would not (`LeastExists`).

Only model-checked:

* the liveness properties (`TopIsServed`, `LockIsTemporary`, `HartsYield`,
  `StopsUnlessLocked`, `UartStops`), which need fairness and `ENABLED` and are out of
  the prover's reach;
* `DecodeExact` and `ExecPrecise` (except `FpTracked`): finite tables, bit operations
  and instructions compared with their references, which are exhaustive or nearly so in
  the run, and which the provers have no theory for;
* of `ArithmeticExact`, the bit operations, AMOs, branches, word results and floats.

The other way round, the type invariants of `Imsic`, `BusLock` and `Trap`,
`MprvOnlyInMachine` and `NobodyWaits` are proved and not checked in a run of their own.


## 5. What is not modelled

* Address decoding and TLM transport, ELF loading, options, system calls, displays and
  the other peripherals of the platforms: data transformation or host I/O, where a
  model would restate the code.
* The rv64 core beyond its instructions: its traps, interrupts and CSR checks are an
  older copy of the rv32 ones, without AIA, hypervisor and stack pointer swapping.
* Priorities within a level (`recalc_xtopi`, `irq-prio.h`) and hvictl.
* The tunnel UART, the 16550 register file, GDB packet syntax and retransmission.
* Names and formatting (`mappingStr`, tracing), field masks of CSRs beyond those of
  `ClintRoute`, `EiThreshold` and `Trap`, illegal values of mpp.
* SoftFloat, which is vendored.

The hazards this leaves uncovered are listed in `PROJECT.json` with the reason.


## 6. Plan

Done, in this order: the interrupt files (`EiThreshold` to `PreemptStack`), routing
(`GuestFiles`, `ClintRoute`, `HartIrq`), `BusLock`, `GdbServer`, `Trap`; the devices
(`Aplic` to `Slip`); decoding and instructions (`Decode` to `Fp`), `Csr`, `Mmu`, `Smpu`
and `Spmp`; proofs of every safety property except those named at the end of section 4.

Left, most important first:

1. `IrqPrio`: recalc_xtopi against the AIA order.
2. WFI with injected interrupts: `HartIrq` composed with the sleeping hart.
3. The trap and CSR code of the rv64 core as an instance of `Trap` and `Csr` without
   guests.
