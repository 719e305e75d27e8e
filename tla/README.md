# vmux: TLA+ models, model checking and proofs

vmux (`src/src/`) is a userspace device multiplexer: it serves virtual PCIe
devices to VMs over vfio-user sockets and connects them to one physical NIC.
This directory models the parts of it whose correctness depends on
interleavings, orders and boundaries, checks the models with TLC and proves
the most important properties with TLAPS.

Paths below are relative to `src/src/`.

## Inventory

Threads of a running vmux:

* the **main thread** (`main.cpp`) builds drivers, devices, servers and
  runners, waits for the VMs to connect, runs the epoll loop (interrupt timers,
  tap file descriptors, the PTP policy timer) and finally stops and joins
  everything;
* one **VmuxRunner** per VM (`runner.hpp`) realises the device, attaches to the
  VM's vfio-user socket and executes its requests one at a time with
  `vfu_ctx_mutex` held: register accesses, DMA (un)registrations, interrupt
  state changes, reset;
* one **RxThread** per device (`rx-thread.hpp`) or the **vDPDK poll threads**
  (`devices/vdpdk.cpp`), which poll the driver and the guest's rings.

| component | files | state | operations | what is hard |
|---|---|---|---|---|
| start-up, shutdown | `main.cpp`, `runner.hpp`, `rx-thread.hpp` | runner states, `running`, `quit`, `termination_error` | start, initialize, connect, run, signal, stop, join | a VM connects before main looks; a signal or a disconnect at any moment; everyone joins |
| vfio-user server | `vfio-server.hpp` | `mapped` regions, poll fds | register / unregister DMA, translate, reset, irq state | unmap that must undo a map; translation at region boundaries |
| vfio consumer | `vfio-consumer.hpp` | VFIO regions, irqs, IOMMU | init, map/unmap DMA, mask irqs, reset | partial failure of one step of several |
| vDPDK device | `devices/vdpdk.cpp` | queues, cached ring pointers, `dma_mutex`, `dma_flag` | register accesses, DMA callbacks, tx and rx poll | cached translations against unmap; shared threads waiting on each other |
| E810 device shell | `devices/e810.hpp` | model, driver, `vfu_ctx_mutex`, injection queue, PTP target | rx callback, accesses, switch rules, DMA, irq state | packets routed to other VMs while the target moves |
| E810 behavioural model | `sims/nic/e810_bm/*` | registers, descriptor queues, contexts, switch rules, schedulers, interrupts | register accesses, queue engine, admin queue, control queues | out-of-order DMA completion, pipelining limits, ring wrap, queue reset with DMA under way |
| E1000 device | `devices/e1000.hpp` | external Rust model | rx callback, accesses | rx waits for the guest |
| interrupt throttling | `interrupts/*` | timer, `armed`, global counters | request, timer callback | an event lost between two racing callbacks |
| drivers | `drivers/tap.hpp`, `drivers/dpdk.hpp` | rx buffers, mbufs, flow rules | send, send_tso, recv, recv_consumed, add rules | every buffer freed exactly once; segment boundaries |
| policies | `policies/*` | which VM owns an address, PTP rotation | add rule, timer | two VMs claim one address |
| passthrough, stub | `devices/passthrough.hpp`, `devices/stub.hpp` | none of their own | forwarding | see vfio-user server |
| utilities | `util.hpp`, `caps.hpp`, `memfd.hpp` | none | timespec and MAC arithmetic | borrow and carry |

## Modules and the code

Every module keeps the source's names; an action is one step of a thread or a
whole handler where a lock makes it one step. `PROJECT.json` maps each
definition to its lines. An operator commented "Defect:" is a plausible bug of
the definition after it; no specification uses it, it serves to show that the
property it is paired with in `PROJECT.json` would notice.

| module | code | state | actions |
|---|---|---|---|
| `VdpdkThreads` | `devices/vdpdk.cpp`, `vdpdk.hpp` | `dma_mutex` (`shared`, `exclusive`), `dma_flag`, mappings, queues with their cached ring pointers, the place and the locals of each poll thread | guest requests (DMA, queue start and stop), the handshake of a DMA callback step by step, the poll loops, `tx_poll`, `rx_callback_fn`, stop |
| `E810Queue` | `e810_queues.cc`, parts of `e810_adminq.cc`, `e810_lan.cc` | the window of active descriptors, their contexts, `segments` (receive cache, transmit segments), the stack of C++ calls | one per piece of a function between two calls: fetch, prepare, process, write back; doorbell, packet, reset, enable, disable |
| `RingContract` | abstract | `head`, `tail`, `started` | what a guest may rely on: entries are started and given back in ring order |
| `E810Transmit` | `e810_lan.cc` transmit, `Dpdk::send`, `send_tso` | the unit being gathered with its sizes as added up and as read, TSO offsets, the frame buffer, the mbuf chain and pool | context and data descriptors, hardware TSO, software segmentation, refusal at any buffer, descriptors left over, aborts |
| `E810Control` | `e810_bm.cc`, `e810_adminq.cc`, `e810_cqp.cc`, `e810_lan.cc` | enable registers, rings, command buffers, scheduler nodes, the control queue pair | register writes of a driver, admin commands, control queue requests, PF reset |
| `ReceivePath` | `devices/e810.hpp`, `devices/e1000.hpp`, `drivers/dpdk.hpp`, `e810_switch.cc`, `policies/ptp.hpp` | NIC queues, bursts, injection queues, rules, PTP target, which devices are E1000 and which are ready | `driver_cb` of both devices step by step, rules, receivers switched on and off, PTP timer, arriving packets |
| `InterruptThrottle` | `interrupts/simbricks.hpp` | `armed`, `time_`, the timer, masks, the places of both threads | `try_interrupt` and `poll_timer_cb` statement by statement, time |
| `Lifecycle` | `main.cpp`, `runner.hpp`, `rx-thread.hpp` | the place of main, runner states, threads | start, initialize, connect, signal, stop, join |
| `DmaMap` | `vfio-server.hpp`, `vfio-consumer.hpp`, `nicbm.h` | libvfio-user regions, the three tables, the IOMMU, `vfu_ctx_mutex` | register, unregister, translate and copy |
| `VdpdkThreads_proofs`, `DmaMap_proofs`, `Lifecycle_proofs`, `InterruptThrottle_proofs`, `E810Control_proofs`, `E810Queue_proofs`, `E810Transmit_proofs`, `ReceivePath_proofs` | | | theorems about the module in the name |

How they fit together: `Lifecycle` says which threads exist; `DmaMap` what a
translation means under `vfu_ctx_mutex` (E810) and `VdpdkThreads` without it
(vDPDK). `E810Queue` moves descriptors, `E810Control` switches queues on and
off, `E810Transmit` and `ReceivePath` say what happens to the packets, and
`InterruptThrottle` takes the interrupts that a write-back requests.
`E810Queue` implements `RingContract` (refinement mapping at the end of the
module); the mapping sends the admin queue to an idle ring because its
processing is not in order (run `e810_admin_order`).

## Runs

| run | states | what it shows |
|---|---|---|
| `vdpdk_single` | 540804 | one device: no poll uses a ring pointer that is not the current mapping, no mapping changes during a poll, a queue is uninstalled only by its guest or for an unmapped address, requests are served, threads can be joined |
| `vdpdk_shared_live` | violation | two devices that share their poll threads: two DMA requests at a time wait for each other for ever |
| `e810_queues` | 361263 | the re-entrant engine for all three kinds of queue: consecutive window, only published entries read, batches within the ring, nothing forgotten when the outermost call returns, every call returns, LAN queues implement `RingContract` |
| `e810_rx_restart` | violation | a receive queue that is disabled and enabled again reads entries that are not published |
| `e810_admin_order` | violation | admin commands can be processed out of order |
| `interrupt_one_source` | 485 | events from the RxThread only: each one is followed by an interrupt, none is postponed |
| `interrupt_race` | violation | an event of the runner is merged with an interrupt that was sent already |
| `lifecycle_shutdown` | 2628 | with and without RxThreads, signal and disconnection at any time: everything is joined, errors are reported, outside the two cases `SignalTerminates` names |
| `e810_transmit` | 532866 | what is sent of a well-formed unit is the unit or its segmentation, once; every mbuf is accounted for; `trigger_tx` returns unless the unit is `Stalled` |
| `e810_control` | 1602384 | status bits, rings, node numbers and completions across any number of switches, commands and resets |
| `receive_path` | 524066 | a mediated E810 and a device that is an emulated E810 or an E1000: no packet twice, buffers freed once, right queue unless a guest's own rule names a queue it does not have, packets injected into an E810 get out |
| `dma_map` | 30622 | translations are those of the regions registered now; tables agree |

The four violations are what the code does against what a comment in it says;
`PROJECT.json` quotes the comments.

### Bounds

* `vdpdk_single`: two guest addresses, one place in vmux, two starts of the
  transmit queue, one descriptor per poll. Remapping an address to the same or
  no place, queues stopped between load and use, and a queue that replaces the
  one being polled need no more; the theorems below lift the safety part to
  any number of everything.
* `vdpdk_shared_live`: two devices and threshold 1. `main.cpp` uses threshold
  2, so that sharing begins with three devices; the third has threads of its
  own and does not interact.
* `e810_queues`: a ring of 8 with 4 contexts, so the window wraps at both; the
  index arithmetic is modulo 16, a multiple of the ring length as 2^32 is of
  every power of two. The theorems below lift this to any such ring and any
  number of contexts. A doorbell may repeat the tail it wrote before, and
  enabling a receive queue triggers it once or twice: `qena_updated` passes the
  tail to `tail_updated` as a queue number, which is queue 0 whichever queue
  was enabled. With a ring length that does not divide 2^32 the code's
  `%` after an unsigned subtraction is wrong, but drivers use powers of two.
  `reg_head` of a LAN queue, which no register shows, stands for what the
  guest learns from descriptors written back.
* `e810_transmit`: headers of 4 bytes, segment sizes 0, 2 and 6, frames of at
  most 8, up to three buffers of 0 or 3 bytes with 0 or 3 more that are read
  because of tag bits: frame and buffer boundaries meet and miss each other,
  headers are split over buffers or longer than the unit, the last frame is
  short, a frame or a unit is too long, buffers are left over, units stall, and
  the pool of 3 runs empty in the middle of a chain. The frames that a stalled
  unit repeats are not recorded.
* `e810_control`: registers of 4 bits (`WordMod`), so that adding 4 overflows; 2
  descriptor contexts and 3 commands, so that a buffer is reused; two node
  numbers, so that a queue and a node get the same one; control queues of 2 and
  4 with 3 requests and a doorbell that keeps indices below 3 (`HeadMod`), so
  that one queue wraps and the other meets the mask first; two control queues
  and any number of resets.
* `receive_path`: two VMs with two queues, two packets, one rule, one
  ethertype: enough for a packet that overtakes a rule, and for two threads at
  one injection queue. VM 0, which gets the PTP multicasts, is an E810; VM 1 is
  either (`MaybeE1000`), chosen once, as main does when it creates devices.
  A rule names queue 0, 2 or 3: the queues of VM 0 are 1 and 2, so these are one
  that no NIC queue stands for, its own, and one whose NIC queue is VM 1's. The
  theorems hold for any choice.
* `interrupt_*`: delays up to 4 ticks; a due date is relative to now.
  Copying a `timespec` counts as one step.
* `lifecycle_shutdown`: three VMs, two of them polled, with or without
  RxThreads (`useDpdk`, chosen at the start). `SignalTerminates` names the two
  cases in which vmux does not end in order: a VM connected before main looked
  at its runner, so that main waits for a state that has passed
  (`main.cpp:350`), and no RxThreads exist, so that main stops one that is not
  there (`main.cpp:417`).
* `dma_map`: four addresses, two places: adjacent, contained and re-registered
  regions. Regions at the top of the 64-bit space, where an end wraps, are
  left out.

### Fairness

No guest, VM or network is assumed to do anything. Weak fairness is assumed of
threads that run on processors of their own and do not wait: poll threads,
RxThreads, main, a runner that has begun a request, the call chain of a queue,
the loop of `trigger_tx`. `vdpdk_shared_live` even assumes strong fairness of
the poll threads at their locks, so the counterexample is no artefact of
scheduling. `InterruptThrottle` assumes strong fairness of one choice: a burst
ends, because a driver delivers finitely many packets per call. Deadlock is
checked except in `lifecycle_shutdown`, where vmux ends, in `e810_transmit`,
where an abort ends it, and in
`vdpdk_shared_live`, where everyone waiting is what the run shows, stated as
the liveness property it breaks.

## Proofs

Assumptions are the named `ASSUME`s of the modules: the constants are natural
numbers where they count something, subsets are subsets, `NULL` is none of the
other values, and `WordMod` is a multiple of 8 for `E810Control`, larger than
the ring for `E810Queue`. TLC evaluates them in every
run. Every inductive invariant is the `IInv` at the end of the module it is
about (in `E810Queue` also `PInv`, which holds under a premise); each proof module shows that `Init` implies it, that every action
preserves it (one lemma or step per action and conjunct disturbed), and that it
implies the properties.

`VdpdkThreads_proofs`, for any number of devices, any threshold, any addresses
and bounds:

* `EveryDeviceServedOnce`: `VdpdkThreads::start` gives every device exactly one
  rx and one tx thread (arithmetic of `Mid`, `Slots`, `DevAt`).
* `TypeCorrect`, `RingsAreCurrent` (`NoStaleRing`), `MappingsAreStable`
  (`NoChangeWhilePolling`) and `QueuesAreKept` (`QueueKept`).

`NoStaleRing` is not inductive: it speaks of a thread that uses a ring, and
the pointer was translated by an earlier poll, possibly before other mappings
changed. `IInv` adds two things. `LockInv`: a thread holds `dma_mutex` of the
devices of its slot except the one it is waiting for, and nobody holds it while
a vfio-user thread has it exclusively. `RingInv`: the pointer of the installed
transmit queue is absent or current unless the thread that uses it is going to
translate it again, that is unless it has let go of the lock or
`dma_invalidated` is set.

Why requests are served: `PollThreadsWaitForRequests` (`WaitsForRequest`), for
any sharing, says that poll threads wait for vfio-user threads during requests
only. If no thread serves two devices (`~Shared`), `WaitsNeverLock`
(`WaitsEnd`) says that nobody waits for somebody who waits in turn, and
`RequestsComeNearer` (`RequestNears`) that each step of a poll thread lowers
`ToRelease`, its distance to letting go of `dma_mutex`. The premise is
necessary: with shared threads the circle exists (run `vdpdk_shared_live`). The
invariant `OwnInv` says when the flag is set and where a thread may be that
holds the lock.

`DmaMap_proofs`, for any address space, places and threads: `TypeCorrect`,
`TranslationIsCurrent`, `AccessStaysMapped`, `TablesAlwaysAgree`,
`MissingInIommuOnlyIfOld`. `TranslationCurrent` needs to know that the regions
are disjoint (`RegionsInv`: libvfio-user refuses overlaps) and that `mappings`
holds exactly the accessible ones (`MappingsInv`); then the descending search
of `dma_local_addr` finds at most one region (`OneContaining`), and its order
does not matter. `AccessIsMapped` needs that an access is covered by the lock
(`LockInv`), since only the holder of the lock unregisters.

`Lifecycle_proofs`, for any number of VMs: `TypeCorrect`, `DevicesStayUsable`
(`DevicesUsable`), `FailuresAreReported` (`FailureReported`). Both properties
speak of the end of main, so `IInv` ties the place and the loop variable of
main to the threads: which runners are begun (`Begun`), waited for (`Awaited`)
and joined (`Joined`), and that the result is that of the runners joined so far
(`ResultInv`).

Why a signal ends vmux: `ShutdownNeverStuck` (`NeverStuck`), while vmux is
quitting main goes on or waits for a thread that does, except if it has missed
an initialization; `ThreadsGoForward` (`AlwaysForward`), every step of a thread
takes it further along a bounded way and none goes back. They rest on
`ShutdownInv`: a runner that was told to stop is past the point where it sets
`running`.

`InterruptThrottle_proofs`, for any delay: `TypeCorrect`, and, if all events
come from received packets (`Sources = {"rx"}`), `NothingPostponed`
(`NeverPostponed`) and `CoalescedIsScheduled` (`CoalescesWithScheduled`). The
premise is necessary: with events of the runner the second one is violated (run
`interrupt_race`). `TimerInv` says that `armed`, `time_` and the timer tell the
same except while the RxThread is between two of their assignments.
`OwedEventsAreScheduled` (`OwedIsScheduled`), under the same premise: whenever
an event is not reported yet, the timer is set and going to be served, or the
RxThread is about to set it.

`E810Control_proofs`, for any queues, contexts, register width, queue length
and bounds: `TypeCorrect`, `StatusIsTold`, `AddedRingIsUsed`, `NodesAreFound`,
`RequestsAreCompleted`. `StatusTellsEnabled` follows from the value of the
register modulo 8 (`RegisterInv`), which adding 4 modulo `WordMod` keeps.
`RecentNodeFound` needs where the element of a node lies and that the contexts
are used in turn (`NodeInv`): commands less than `NumDescs` apart use different
contexts. The numbers that `add_txqs` gives to queues (`leaf`) are those that
`add_sched_elems` hands out next, so the property says in which order a queue
and a node with one number came. `RequestsCompleted` needs how `CQPTAIL`, the slot counter and the
completions run along (`CqpInv`), for any length of the queue and any mask of
the doorbell.

`ReceivePath_proofs`, for any number of VMs, queues, packets, rules and any
choice of devices: `TypeCorrect`, `QueuesAreRight` (`RightQueue`),
`BuffersFreedOnce` (`FreedOnce`), `PacketsExistOnce` (`NoDuplicates`). The
invariant says that packets are only in queues the NIC may choose for them
(`SortedInv`), each packet once (`OnceInv`) and each buffer once (`FreedInv`).
`RightQueue` speaks of delivered packets; what makes it inductive
is where packets may be before: in a NIC queue of the VM they are for, or in
one that a rule of this VM for a queue it does not have stands for
(`StraysInto`). `NoDuplicates` counts places; the proof
replaces the count by pairwise statements: the queue with its buffers
(`Line`), the injection queues and the output are free of repetitions, and
what is behind the buffers is not ahead of them (`Ahead`, `Waiting`,
`Behind`).

Why injected packets are handled: `RoundsComeToAnEnd` (`RoundsEnd`), every step
of a round lowers `RoundLeft`, which counts the packets of the burst that are
not handled; `InjectedPacketsMoveUp` (`InjectedMoveUp`), each round takes the first packet
of the injection queue and moves the others up by one, and nothing else does.

`E810Queue_proofs`, for any ring length, any number of contexts and any depth
of nested calls: `TypeCorrect`, `ContextsFollowRing` (`WindowConsecutive`) and
`PacketsFollowRing` (`SegmentsInOrder`), also for queues that are disabled and
enabled without a reset and for any width of the index arithmetic. Under
`Orderly`, a queue is reset before it is enabled again and the ring length
divides 2^32: `OnlyPublishedRead` (`ReadsPublished`), `CallsFinishTheWork`
(`NothingForgotten`) and `EngineKeepsContract` (`InOrderConsumer`, the
refinement of `RingContract`). The first premise is necessary (run
`e810_rx_restart`), the second is the remark on ring lengths above.

Contexts are positions in a circle; the proof speaks of their place in the
window (`Offset`), and `Moves` says how all places change when the window
moves. `IInv` says which calls on the stack are responsible for which context:
a context is being fetched exactly if one call of `dma_fetch::done` has yet to
prepare it and knows its index (`FetchedInv`), so a nested `trigger` cannot
reuse it; a LAN queue starts and finishes in order (`OrderInv`), because its
`process` never triggers and its loop stands at the border of what is started
(`CallInv`); `dcache` and `ready_segments` are the contexts in between
(`SegmentsInv`). `NothingForgotten` speaks of the end of the outermost call.
`ProgressInv` says what each function leaves: after `trigger_fetch` without a
result all is fetched (`FetchDone`), after the loop of `trigger_process` a
prepared descriptor waits for one being fetched (`ProcessDone`) or there is
one to write back, and a call of `trigger` that returns leaves the queue
`Quiet`, which is more than any caller needs. The refinement needs, besides,
that the window lies within what is published (`RingInv`): then the started
entries are the first ones of the ring, `process` adds the next one
(`ProcessStarts`) and `writeback_done` removes the first ones
(`WritebackGivesBack`).

Why calls return: `EveryCallRecedes` (`CallsRecede`), every step of a call
lowers `Rank`, in lexicographic order: descriptors to fetch, to write back, to
prepare, to start, to finish, calls that have not returned, the place of the
innermost one. `NothingRecedesForever`: ranks are tuples of natural numbers,
and no sequence of them descends forever. No premise: this also holds for
queues that are enabled again without a reset.

`E810Transmit_proofs`, for any buffer sizes, zero included, tag bits and number
of buffers, headers (at least one byte), segment sizes, zero included, longest
frame, mbuf size and pool: `TypeCorrect`, `UnitsAreSegmented`
(`SentIsSegmentation`) and `NoMbufIsLost` (`MbufsAccounted`). A descriptor in
the model knows which bytes of the unit its buffer holds; `BuffersInv` says
that the buffers lie one behind the other, so the chain of `send_tso` is always
the beginning of the unit (`StepInv`, `ChainFacts`) and, with the last buffer,
the unit. `BetweenFrames(k)` is the state in which `trigger_tx_packet` is called
again for a unit: `k` frames are built, `tso_off` stands behind the payload of
the last one, `pktbuf` still begins with the header of the unit and carries the
next sequence number. From it the next copy makes exactly frame `k` of the
reference (`CopyFrame`), and it is the last one exactly if the reference has
`k + 1` frames (`FramesCount`). `SentIsSegmentation` is about units that are
`WellFormed`: there is a segment size, and what is read is what the sizes add up
to.

`TransmitEnds` (`TransmitRecedes`): unless the unit is `Stalled`, every step of
`trigger_tx` lowers `StepsLeft`, which is zero only when it has returned or
aborted, whatever `send_tso` refuses (`CopyAdvances`: a frame adds data, or
descriptors are given back). `Stalled` is what the code does not exclude: the
next frame adds no data and nothing is given back after it. A stalled unit stays
stalled (`StalledStays`): the loop never returns.

Only model-checked: the liveness properties (`RequestServed`, `ThreadsJoin`,
`CallReturns`, `UnitFinishes`, `EventsReported`, `SignalTerminates`,
`InjectedHandled`). They depend on fairness and `ENABLED`, which are out of the
prover's reach. Their safety part is proved, by the theorems under "why" above,
for all values of the constants: a measure that every step of the thread lowers
and no other step raises, or the absence of circular waits. What TLC adds on
small instances is that fairness then makes the thread take these steps. The
measures and the statements about waiting are checked by no run of their own;
before they were proved, TLC evaluated them on instances of the size of the
runs (`WaitsEnd` and `RequestNears` to the end with one device only). They say less than the
liveness properties in three respects. `EventsReported` needs that bursts end
and time goes on, which `OwedIsScheduled` does not say. `ThreadsJoin` needs that
a poll ends also for shared threads. `RequestServed` needs that the vfio-user
thread gets the mutex once nobody holds it.

## Observations

Facts about the code met while modelling, beside the four violations:

* IOMMU entries are never removed: `unmap_dma_here` always returns false, so
  `dma_unregister_cb` does not reach `unmap_dma` (`vfio-server.hpp:456`, `560`);
  a region registered again at the address is refused with a message only.
  `InIommuUnlessOld` states what is left.
* `dis_txqs` leaves the queue enabled, so a queue added again keeps its old
  ring until a PF reset (`TxRingIsAdded` is limited to the first time).
* A control queue stops when its head wraps or passes 1023, which is all the
  doorbell keeps (`e810_bm.cc:886`), and one that is set up a second
  time is ignored (`RequestsCompleted` names both limits).
* A completion event queue is never enabled (`e810_ceq.cc:25` returns if it is
  not).
* A PF reset keeps scheduler nodes, whose elements live in command buffers for
  the next 127 commands (`RecentNodeFound`).
* `tx_poll` uninstalls whichever queue is installed when it meets an unmapped
  address, also one the guest has just started in place of the one being
  polled (`vdpdk.cpp:422`; `QueueKept` allows exactly that).
* A guest that unmasks its vector between a `vfu_irq_trigger` that fails for
  lack of routing and `guest_unmasked_irq = false` stays masked until it
  unmasks again (`simbricks.hpp:182`, action `suppress_interrupt`).
* `trigger_tx` never returns for a TSO unit with `tso_mss` 0, nor once an empty
  buffer is all that is left of a packet: it is not below `data_limit`, so the
  copy loop does not count it and it is not given back (`e810_lan.cc:688`,
  `763`; `Stalled`). `vfu_ctx_mutex` is held meanwhile.
* `trigger_tx_packet` adds up buffer sizes of 14 bits (`e810_lan.cc:622`), but
  copies with 16, two of which belong to the VLAN tag (`668`, `692`, also
  `prepare`).
* `add_txqs` gives a queue the next node number without using it up
  (`e810_adminq.cc:648`); the next `add_sched_elems` gives it to a node.
* A switch rule for a queue that the guest does not have is not refused: its
  packets go to the NIC queue with that number, which may be another VM's
  (`RightQueue` names the case).
* An E1000 never reads its injection queue, but the PTP timer makes it the
  target like any other device: PTP packets of its turn are never received
  (`InjectedHandled` is limited to E810 devices).

## Not modelled

Set-up that one thread does once, in a fixed order, dying on any failure
(vfio-user regions and interrupts, the VFIO consumer); passthrough and stub
devices, which forward; the external Rust model of the E1000 (its shell's
receive path is in `ReceivePath`); the tap driver; registers without effects;
checksums, the RSS hash and header parsing; capability, memory-file and
printing helpers; the qemu and accurate throttlers, which no device creates;
flow rules of vDPDK, which go to the NIC and leave no state in vmux.

The PTP clock (`e810_ptp.cc`) is not modelled either. Reads, writes and
adjustments add to a 128-bit union of time and fraction, and nothing in the
repository says what a read promises after an adjustment, so there is no
statement to check its additions against.

Most files under `src/src/` are not vmux: Intel's base driver, the JSON library
and device models of SimBricks that the build leaves out (`meson.build`). They
are nine tenths of the lines. Of the code that vmux runs, the modules stand for
about a third; the rest is the list above, dominated by the switch over
registers that only store and return values (`e810_bm.cc`) and by declarations.

`PROJECT.json` lists all parts as components, with reasons, and the one hazard
that no property covers.

## Possible extensions

1. Compositions: `DmaMap` under `VdpdkThreads` (the tables instead of one
   mapping per address); `E810Control` with `E810Queue` (PF reset inside a
   call chain); `InterruptThrottle` with the masks of `E810Control`.
2. The PTP clock, once its promise is written down.
