# A verification project for code.research

The repository collects C++ libraries, benchmarks and tools for QNX and other
Unix systems.  This directory holds TLA+ models of the parts of it whose
correctness depends on order, concurrency or arithmetic, the TLC
configurations that check them on small instances, and TLAPS proofs that hold
for every size.  All paths of this text are below `src/qnx/`.

Run a check with `tlc -config MCRcuSafety.cfg MCRcu.tla` (section 4 names the
module of each configuration) and a proof with `tlapm RcuProofs.tla`.

1. The system · 2. The modules · 3. What the modules leave out ·
4. The runs · 5. Fairness · 6. The proofs · 7. Disagreements · 8. Plan

## 1. The system

### 1.1 Components with state of their own

**rcu** (`lib/libubench/include/ubench/atomics/rcu.h`, design in
`lib/libubench/docs/rcu.md`).  A read-copy-update container: `N` preallocated
slots, each an atomic 32-bit counter and a plain pointer, the atomic index of
the current slot, and a mutex for writers.  `read()` takes a reference to the
current slot and returns a counted handle `rcu_ptr`; `update()` finds an unused
slot, fills it, makes it current and gives up the root's reference to the
previous one; handles are copied, swapped, moved and released; the last
reference deletes the object.  Readers take no lock.
*Hard:* every interleaving of the loads, the compare-exchange and the stores;
slots and addresses are recycled under delayed readers.
*Correct when* counters are exact, every object is deleted once and only after
its last use, reads return a current object, reads are lock-free, `update()`
fails only for want of slots, and the destructor notices forgotten handles.

**sync_event** (`lib/libubench/include/ubench/thread.h`).  A flag under a mutex
and a condition variable: `set()`, `clear()`, `wait()`, `wait_for()`.  Used by
the resource manager device, the latency benchmarks and udp_load.
*Hard:* a notification after the unlock, spurious wakeups, deadlines.
*Correct when* no wakeup is lost and a wait returns what the flag says.

**Resource manager device** (`lib/libosqnx/.../resmgr/device.h`, `device.cpp`).
One thread calls `run()`: it creates a channel, a dispatch handle, attaches
paths and a context, sets `running_` and the event, and then loops in
`dispatch_block()`.  Other threads, signal handlers and message handlers call
`exit()`; further threads `wait()` for the loop to start.  State: four atomics
or plain fields shared without a lock, the resources, the sync_event.
*Hard:* `exit()` against every step of the set-up and of the tear-down; a
failure in any step of the set-up.
*Correct when* each resource is released once on every path, waiters are
always released, the loop ends after `exit()`, and only valid contexts are used.

**str_intern** (`lib/libubench/src/str_intern.cpp`).  A hash set of strings: a
string is copied once into an arena and indexed by its hash; the index is
rebuilt with more buckets, up to a maximum, when a load factor is reached.
*Hard:* growing in the middle of an insertion, collisions, an allocation that
fails between two steps, changes of the load factor, rounding.
*Correct when* equal strings are one object for ever and different ones never,
growing pays, and it stops at the maximum.

**udp_load** (`tools/udp_load`).  `main()` shares the packets among threads,
makes and initialises a *talker* for each, starts the threads, which wait for a
sync_event, and sets it.  A talker sends groups of packets in one of four ways:
`sendto()`, `sendmmsg()`, or raw Ethernet packets through a packet filter, one
or many at a time.  Its *shaper*, `udp_talker::run()`, sends `packets_` packets
in every window of `slots_` slots of `width_` ms, a group at a time, with a
clock, sends that fall short and sleeps that are late.
*Hard:* slots that were missed, short sends, unsigned arithmetic; a talker that
fails between others that have started; every error of the kernel.
*Correct when* the rate is kept, no burst is early, nothing is lost without
need, no thread begins before all are ready, the report is the sum of what was
sent, descriptors and buffers are given back, and it ends.

**libsjson** (`tools/sdd/libsjson`).  A `json_writer` hands out objects and
arrays, which hand out others; all write to one stream through one context
with a stack of tokens; only the element opened last may write, everything
else throws.
*Hard:* wrong orders of calls, moves, destructors that throw, early closing.
*Correct when* the text is always the beginning of a document, only the
innermost element writes, and unwinding is safe.

**core_latency** (`tools/core_latency`).  Two pinned threads exchange values
through one atomic word (compare-and-swap, in up to five variants) or two
(read/write) and measure the round trip; `main()` repeats it for each pair of
cores after one `init()`.
*Hard:* the threads spin on each other; an exclusive store of arm64 may fail.
*Correct when* they alternate strictly, every run ends, and the next starts as
the first did.

**expected** (`lib/libstdext`).  `expected<T, E>`: storage for a value or an
error, and the flag that says which.  The class runs constructors and
destructors of the content by hand, with a different order for each combination
of constructors that may throw.
*Hard:* an exception in the middle of an assignment or a swap; the many
overloads; `void` as the value.
*Correct when* the flag tells what lives in the storage, every content is built
and destroyed once, a call that throws changes nothing, and one that returns
has handed over what it was given.

**Sockets** (`lib/libunet/src/udp.cpp`, `ubench/file.h`).  `fdesc` owns a file
descriptor; `udp` opens, binds, connects and configures one lazily.
*Hard:* a system call that fails half way through `open()`; moves.
*Correct when* a descriptor has one owner and is open as long as it has one,
and an open `udp` is bound and set up as its flags say.

**options objects** (`ubench/options.h`).  The parsed command line keeps texts
of its own and a view of the program's name.
*Correct when* the view is of a text that is alive, after copies, moves, swaps.

**lshmem** (`tools/lshmem`).  Reads the mappings of processes line by line into
sorted regions that merge when they touch, then walks the regions of two
processes side by side.
*Hard:* any order of lines, gaps that close, lines that overlap or come twice.
*Correct when* the regions cover what the lines that were inserted do, and what
two processes share is the same from either side, is only of shared pages, and is
each shared page once where no regions of a process overlap.  Lines that do
overlap are lost or miscounted (21 in section 7).

### 1.2 Parts that compute a result from their input

| Part | What it does | Correct when |
|---|---|---|
| command lines (`ubench::options`, `make_options()` of nine programs) | splits words into options and arguments; checks ranges, defaults, exit codes | every spelling of a line has one result; the last of an option counts; an error is never taken for help |
| texts (`ubench/string.h`, `net_common.cpp`, `pid_mapping.cpp`) | numbers, lists, hexadecimal numbers, addresses, host names, columns, `strlcpy()` | nothing of a text is lost or made up, limits included |
| interfaces (`net_query_*.cpp`) | what the kernel says of the network interfaces | one interface is read as it is among all |
| packets (`l2_eth_udp_pkt.cpp`) | Ethernet, IPv4 and UDP headers, checksums | a receiver takes the packet |
| asinfo (`libosqnx`) | the typed memory of QNX, a binary search by address | the memory at an address is found |

Not modelled (reasons in PROJECT.json, see also section 3):

| Part | Why |
|---|---|
| `benchmark/str_intern` | earlier variants of str_intern, and a reader of words from a file |
| `thread_pin*`, `thread_count*` | one system call per platform; the affinity is state of the kernel |
| busy measurement, clocks | differences of counters of the system |
| `flags.h` | bit operations of an enumeration, one expression each |
| process names, pids | reads of one file of the system |
| sdd, lsqf, iplist, time_compare, cpuid-x86 | print what the system says; their command lines, and what sdd asks of the network, are modelled |
| benchmarks, devctl adder, proofs of concept | measuring loops and trials of one interface, without state of their own; command lines are modelled |

### 1.3 How they interact

`resmgr::device`, `udp_load` and both latency benchmarks wait on a
`sync_event`.  The device is modelled over `EventLatch`, which `SyncEvent` is
shown to implement; in `UdpLoad`, `CoreCas` and `CoreReadWrite` the event is a
variable with the same promise.  `UdpLoad` and `UdpSockets` both use
`Sockets`, the operators of `udp.cpp` over the table of descriptors; the runs of
a talker are what `UdpTalker` allows, seen as any number of groups.  Every
program gets its options from `Options` through `Programs`, and both use the
parsers of `Text`.  The interfaces that a raw talker looks for are those of
`NetInterfaces`.  `sdd` is the only user of libsjson, and nothing in the
repository but its tests and benchmarks uses `rcu` and `str_intern`.

## 2. The modules

**Rcu** models rcu.h with one action for each access to a shared word, in
program order: `ReadIndex`, `ReadRef`, `ReadCas`, `ReadRetry`, `ReadPtr` for
`read()`; `UpdateLock`, `UpdateScan`, `UpdateFull`, `UpdateStoreRef`,
`UpdateStorePtr`, `UpdateStoreIndex`, `UpdateFreeOld`, `UpdateDeleteOld` for
`update()`; `Copy`, `Swap`, `Reset`, `PtrDelete` for handles, of which a move
or an assignment is a combination; `Destroy` for `~rcu()`.  The atomics are
sequentially consistent, as the code's default orderings are.  The plain
`ptr_` is read by readers and written by writers; the race is the choice of
whether `ReadPtr` comes before or after `UpdateStorePtr`, recorded by the
history variable `stale`.  `live` is the heap; a freed address may be
allocated again.  `seen` records what was current since a read began.

**SnapshotCell** is what rcu promises with no slots and no counters: a current
object, snapshots, reclamation of what is neither current nor held.
`Rcu!ImplementsCell` maps onto it.  **MCRcu** adds the symmetry.

**SyncEvent** models the mutex and the wait set; **EventLatch** is the promise,
with liveness.  `ImplementsLatch` maps one onto the other.

**ResmgrDevice** has one action for each step of `run_internal()` that changes
shared state or can fail, of `free()` and of `exit()`.  `missed` and
`badUnblock` are history variables.  dispatch_block() is external: it returns
for a pulse, a message of a client, a signal or an error.

**StrIntern** has one action for each way through `intern()` and two for
`max_load_factor()`, which refuses 0.01 and less and stops growing when the load
it sets is beyond what a `std::size_t` counts (`Unlimited`); `set`, `strings`, `interned`, `hashMask`, `rehashCount`
are the members.  An allocation may fail after the counter was incremented or
after the copy was made, as the order of the code allows; a failure in the
rehash changes nothing and is a stutter.  **StringPool** is the promise.

**JsonWriter** has one action for each operation of the three classes, legal or
not, and the destructor; `threw` and `dead` are the exception and
`std::terminate()`.  `owner` and `stray` are history variables: the order in
which elements are really open.  **JsonText** is the grammar the text is held
against.

**CoreReadWrite** has the loads and stores of both threads and the repetition
by `main()`; **CoreCas** has the same program over one word, where `ctype` is
the variant that the processor has: a swap is one step, or an exclusive load
and a store that needs the monitor and may fail without a reason.
**Alternation** is what both measure, and both are shown to implement it.

**UdpTalker** has the clock (`Tick`), the call of `send_packets()`, which sends
any number up to what it is asked for, the three ways a group can end
(`Resend`, `NextSlot`, `SkipSlots`) with the credits in `CountAt`, and the end
of a sleep.  All counters are reduced modulo their word.

**UdpLoad** has `main()` one talker at a time, with `init()` and the search of
the interface, the threads, and `send_packets()` one system call at a time: all
packets, some of them, no buffers (and the delays the slot has left), or another
error.  After a call the slot goes on, with the delays it had, or it is over and
they are counted anew; `run()` looks at the time only then.  The four talkers differ in `Batched` and `Raw`.  `handed` is history:
what the kernel really took.

**Sockets** are the operators of `udp.cpp` and `file.h`: each call has a set of
outcomes, one for each system call that may fail.  **UdpSockets** lets three
owners call all members in any order.

**Expected** has one action for each member function of `expected<T, E>` and of
`expected<void, E>`.  The constructions and destructions in it are applied one
after the other by `Put` and `Drop`, which notice when a content is built over a
living one or destroyed where none lives.  `traits` says which constructors of T
and E may throw; it selects the branch of the code, as `if constexpr` does.

**OptionsObject** has the heap blocks and the objects in which the texts of
options objects stay, short ones inside of the object.

**ShmemMap** inserts any lines (`Load`, or `PassOver` for one that is refused),
overlapping ones, repeated ones and several at one address included; it keeps which
of them were inserted (`lines`), which were taken for duplicates (`dropped`), and
whether any two that were inserted share a page (`mixed`).  `Walk` is the comparison
of two processes.

**Options**, **Programs**, **Text**, **NetInterfaces**, **Packets** and
**Asinfo** are pure operators, a function of the code each, and in each module
the last part says what they promise; the promise is stated by other means
than the function (a text put together again, a set of addresses, the search
without an index, the sum of all words).

**MCRcu** adds the symmetry to Rcu.  **MCTools** puts the programs that measure
side by side (CoreReadWrite, CoreCas, UdpTalker, UdpLoad) and **MCObjects** the
sequential objects (StrIntern, JsonWriter, UdpSockets, ShmemMap); a behaviour runs
one part, which the variable `which` names, so the parts do not multiply each
other's states.  **MCFunctions** is the specification of the functions in Text,
NetInterfaces, Packets and Asinfo: one call of one of them, with an input out of
sets that are constants and of which `FunctionsAssumption` says what they are (any
texts, any answers of a kernel, any packets).  **MCLibraries** puts MCObjects and
MCFunctions side by side, gives the inputs, and adds the calls of Options and
Programs; it is a module of its own because Options has RECURSIVE operators, which
the proof system cannot be used with.  The others are folds over a sequence and one
recursive function (`Folded` of Packets).

## 3. What the modules leave out

* rcu: `~rcu()` is modelled as one step, when no call is running, as its
  comment requires.  Reference counters never wrap (`RefModAssumption`).
* ResmgrDevice: the -ERUNNING test of `run()`, which is documented as not
  thread-safe; the payloads and the driver's functions; the value of `errno`.
* StrIntern: the arena below it; the moves; float rounding (a load factor is a
  fraction); a load factor that is not a number (infinity is one that is
  unlimited).  The strings are assumed to be so few that next_size() and rehash()
  compute no number beyond a `std::size_t` (the last conjuncts of
  `InternAssumption`).
* JsonWriter: escaping, numbers, the file; moves of the `json_writer` itself
  and writes through a writer that is closed, which both dereference a null
  pointer (`json_writer.cpp:76` after the default move, `context_->` in
  `json_writer_object.cpp` after `close()`): the model's programs do not.
* CoreReadWrite, CoreCas: pinning and statistics.
* UdpTalker, UdpLoad: the idle measurement and the diagnostics; what a packet
  holds is in Packets.
* Expected: overloads whose constraints rule them out; a function that is given
  to a monadic operation and itself changes the objects; T and E of the result
  of `transform()` have the traits of those of the source.
* Sockets: the structures that are passed to the kernel, and the value an option
  is set to.
* Programs, ShmemMap, NetInterfaces: the layout of the output.
* Packets: data that does not fit a datagram.  `-s` of udp_load takes up to 65535
  bytes and `options.h:75` leaves it to the user to ask for what can be sent; the
  lengths in the headers are 16 bits and have room for 65507 (`MaxData`).
* Text: characters that have no meaning to a parser are symbols; numbers of
  several digits are tried up to the bound of the instance, with a word that is
  as small.

## 4. The runs

| Run | Module, configuration | Instance | Shows |
|---|---|---|---|
| rcu_safety | MCRcu, MCRcuSafety | 3 threads, 2 slots, 2 handles, 3 addresses | exact counters, no early, double or missing deletion, the destructor's verdict, the refinement of SnapshotCell |
| rcu_live | MCRcu, MCRcuLive | 2 threads, 3 slots, 1 handle | update() finds a slot; read() is lock-free |
| rcu_freed | MCRcu, MCRcuFreed | 2 threads, 2 slots, 1 handle | *violated:* a read() can return a freed object |
| sync_event | SyncEvent, MCSyncEvent | 3 threads | no lost wakeup; refinement of EventLatch |
| device_safety | ResmgrDevice, MCDeviceSafety | 3 exits, 1 waiter, 2 paths, 2 runs | release on every path, one pulse, waiters and the loop end |
| device_exit | ResmgrDevice, MCDeviceExit | 1 exit, 1 run | *violated:* an exit() in the set-up is missed |
| device_unblock | ResmgrDevice, MCDeviceUnblock | 1 exit, 1 run | *violated:* exit() unblocks with a freed context |
| tools | MCTools, MCTools | see below | both benchmarks alternate and every run starts alike; the shaper keeps its slots and its rate; udp_load starts together, shares and reports all packets; every program ends |
| expected | Expected, MCExpected | 2 objects, 2 contents, every mix of traits | the flag is right, lifetimes are paired, the strong guarantee, what goes in comes out |
| libraries | MCLibraries, MCLibraries | see below | str_intern implements the pool and grows in time; the JSON text is well formed and unwinding safe; one owner per descriptor; the regions of lshmem are the lines inserted, and its overlaps are symmetric, and exact where no regions of a process overlap; the functions keep their promises |
| options_assign | OptionsObject, MCOptionsObject | 2 objects, 1 short and 2 long names | *violated:* the name of a moved or assigned object is gone |
| shaper_wrap | UdpTalker, MCTalkerWrap | 2 slots of 4 ms, 4 packets, words of 5 bits | *violated:* the rate, when a product wraps |

Why the bounds are enough:

* *rcu.*  With two slots a slot is recycled by the second `update()`, with three
  addresses an address may be reused while two others are held, and with three
  threads a delayed reader meets a writer and a third party (a copy, a release
  or a second writer).  Every behaviour of interest needs no more; the proofs
  of section 6 do not depend on the bounds.  UpdateFindsSlot needs more slots
  than references, hence the three slots and one handle of rcu_live.
* *sync_event.*  One that sets, one that waits with and one without deadline.
* *device.*  Two paths make "some but not all attached" possible, two runs let
  an old request or event meet a new run, and three exits let two of them find
  the request already made.
* *tools, core_latency.*  Three runs of three samples of four exchanges: a run
  that follows another, and a sample that follows another, in the middle and at
  the end.
* *tools, shaper.*  Two slots of 2 ms and 4 packets for 8 ms: two windows, so
  there are slots of the first one, slots with credits, and skips over both.
  `MaxGroups` bounds what is sent in a millisecond, `MaxTime` how late a send is.
* *tools, udp_load.*  Two threads and up to four packets, and a word of 7: three
  packets are shared unevenly within the word, and the product of two threads and
  four packets is beyond it, where nothing is claimed of the shares.  Batches of
  two, so that a group takes one or two calls, one of them partly taken; one
  delay in a slot and two groups, which are in one slot or in two; two hosts, of
  which one has an interface that is too small for the packet, and one an
  interface without an address.
* *expected.*  Two objects are what a binary operation needs; two contents tell
  a kept content from a handed over one, and `Moved` from both.  All 12 mixes
  of traits are initial states.
* *str_intern.*  The hashes 0, 3 and 7 collide all in the mask 0, two of them
  in 1 and in 3, none in 7, and strings may have the same one; the sizes 1, 2, 8
  include no growth, growth in steps and growth that skips a size.  Load factors
  of 0.5, 1.0 and 1.5, one that is refused, and 32, which with two buckets
  reaches the word of 64 and with one does not.  `MaxCopies` bounds failed
  attempts.
* *json.*  Eight tokens hold three nested elements with separators.
* *sockets.*  Two descriptors, an fdesc and two udp: a move onto an owner, onto
  an empty one and onto itself, and a kernel that has no descriptor left.
* *lshmem.*  Up to four lines of two objects, each of one or two pages that starts
  at one of four addresses, for one process or spread over two: two regions and the
  line that closes the gap between them, in every order; lines that overlap, come
  again, or start where a region does with another object or length; and
  regions of two processes that touch, contain each other or overlap.
* *functions.*  Texts of up to five symbols that have every separator at every
  place; command lines of up to three words or options, each option with a
  value in its range, at its limits and outside; pages of up to three entries;
  packets with none, one or an odd and even number of bytes, and checksums of
  all ones; three interfaces with up to three entries, VLANs forwards, backwards
  and on each other.

Deadlock is checked except where everything may be over: in the runs of
ResmgrDevice (`MaxRuns`), in MCLibraries (`MaxCopies`, `MaxText`, `MaxLines`, a
function that was called) and in OptionsObject (no block is left on the heap).
The unfair specification of Rcu always has a call that can begin or the stutter
of a destroyed root.

## 5. Fairness

* Rcu: a thread inside a call is scheduled; no thread has to begin a call.
* SyncEvent: as Rcu, and a notified or timed-out waiter gets the mutex again
  (the mutex is held for a few instructions only).
* ResmgrDevice: `run()` is called and its thread and a begun `exit()` are
  scheduled.  No client has to send a message and no signal has to arrive.
* UdpTalker: the clock ticks and the thread is scheduled; sends need not succeed.
* CoreReadWrite, CoreCas: both threads run; each has a core of its own.  An
  exclusive store that is tried again and again succeeds in the end (strong
  fairness), which arm64 promises for loops as short as this one.
* UdpLoad: `main()` and its threads are scheduled; no system call has to succeed.
  A call of `send_packets()` ends because a slot has a limited number of delays
  (`delay_count_` is reset when a slot is over).  That slots come to an end is the
  work of the clock, which UdpLoad does not have: `MaxCalls` stands for the
  duration, and the shaper part of the same run shows that it passes.

In MCTools the fairness of a part is conditional on its being the part that runs.

## 6. The proofs

All hold for every value of the constants that satisfies the named assumptions.
Type invariants are part of each proof; no run spends a property on them.  The
theorems about the parts of MCTools and MCObjects are about their specifications
`PSpec` and `OSpec`, of which one disjunct is the part in question.

**RcuProofs.**  Assumptions: `N > 0`, finitely many handles and threads, fewer
handles than the counter can count (`RefModAssumption`; 2^32 handles need more
memory than the machines have), `NULL` is none of them.  The invariant has
layers, each proved inductive over those before it:
`TypeInv` (the type, and that a slot with a reference was filled);
`Locking` (who is in the locked part holds the mutex, and its `old` is the
current slot) and `Reservations` (a handle that is being filled or emptied
belongs to one call); `Accounts` (each counter is the number of its holders
plus the root's reference); `OwnedOnce` and `Snapshots` (an allocated object
is owned by one thread or one referenced slot, and a handle has the object of
its slot), both only while `stale` is false.  `RefcountAccounts` alone is not
inductive: that the store of 1 by `update()` finds the counter at 0 needs the
mutex and the reservations.  Theorems: `TypeCorrect`, `RefcountsExact`,
`HandlesSafe`, `DeletesOnce`, `NothingLeaks`.  Three more rest on these layers:

* `DestructorRight`.  `Verdict` says that nothing changes after `~rcu()` and that
  its outcome is about the counters it found; with `Accounts` those are the handles.
* `UpdateFullJustified`.  An `update()` that finds no slot has seen every counter in
  use, each at another moment.  `ScanCounts` bounds what the scan found in use and
  what lies ahead of it by the number of handles: a handle may move to a slot that
  the scan has not reached, but only if that slot was in use already.
* `RcuIsCell`, the refinement of SnapshotCell.  `Windows` says what a read in
  progress may return (the current object; what is in the slot it chose, unless that
  was recycled and is not yet published), `CellFacts` that the object of a writer is
  neither current nor held.  Then each action is one of the cell or a stutter.

**SyncEventProofs.**  `Inv` is the type, the mutex discipline and
`NoLostWakeup`.  Theorems: `NoWakeupLost`, and `EventIsLatch`, the safety part
of the refinement, under which every step is a step of the latch or a stutter.

**ResmgrDeviceProofs.**  Assumptions: a driver has a path, and `NULL` is no caller.
Besides `CodeWasGiven`, `IInv` has four parts: the type; `Held`, what the thread of
`run()` holds as a function of where it stands and of `failing`; `Gate`, that
nobody is past the compare and exchange before `exit_requested_` is set, one caller
at most after it, and none while a pulse is queued; and `Given`, that a request
comes after a code and a return of `run()` after a request.  `UnblockedOnce` alone
is not inductive: nothing in it keeps a second pulse away once the first caller
is gone.  Theorems: `Released` and `ExitOnce`.

**StrInternProofs.**  Assumption: `&` with a mask stays in range and every
number of buckets up to the maximum can be rounded up (`InternAssumption`).
`IInv` is the type, `BlocksInPlace`, and that a block points to the address
given for its string and every given address is indexed (`BlocksGiven`,
`GivenIndexed`); without the last two a found block need not be the object
given before.  Theorems: `TypeCorrect`, `InPlace`, `Implements`.
`GrowsWhenNeeded` is the action property `GrowsInTime` and needs `GrowthInv`:
`size()` is the number of strings (`Counted`), the buckets stop at the maximum
(`StopsAtMaximum`), and the threshold of the next rehash is not behind
(`ThresholdLate`), so that a string that makes the index grow would overload it.
It is about the string that is added, and not about the next (26 in section 7).
Its hypothesis is that the arguments of the constructor are powers of two, as its
message demands; its check lets others pass, and for those the property is false
(8 in section 7).

**ExpectedProofs.**  Assumption: none but that `Moved` is no content.  `Inv` is
the type and `Tracked`, storage by storage: `Well` says that a storage's kind is
what its flag says if it is alive, and nothing if it is not.  The lemmas follow
the code: each helper (`Reinit`, `AssignValue`, `SwapAcross`, ...) gives storages
that are well and alive whichever of its steps throws, each action is a `Return`
of such storages, and a `Return` keeps the invariant (`ReturnKeeps`).
Theorem: `FlagTracked`.  The three promises of a call are proved together
(`Promises`), by what each helper leaves behind: `Gives` and `Exchanges` say that a
helper which throws has undone what it did, that one which returns holds what it
was given, and that nothing was built twice or destroyed twice on the way;
`CallPromises` makes the promises of a call out of those of its storages.
Theorems: `ObjectsPaired`, `ThrowsChangeNothing`, `CallsTransfer`.

**ToolsProofs.**  *core_latency, read and write:* assumption, the product of iterations and
samples fits its word; hypothesis, the exchanges of a run are even in number
(`Even`; see 11 in section 7).  `IInv` says what the two words tell about the two
counts (`Words`) and that a thread whose spin ended still sees the word it waited
for (`Turn`); the parity in `Words` is what carries over to the next run, which no
`init()` precedes.  Theorems: `RunsStartAtPing` and `ThreadsTakeTurns`.
*core_latency, compare and swap:* `CasWord` says what the one word tells about the counts (PING
while they are equal, PONG while ping is one ahead), and `CasExclusive` that a thread
which still has its monitor at the exclusive store finds the word its load
compared; without that a store of arm64 could be out of turn.  At the end of a run
both counts are equal, so the word is PING for the next.  Theorem:
`ThreadsSwapInTurn`.  Both refine Alternation.

*udp_load.*  `LoadInv` has five parts besides the type: `Phases`,
where `main()` may stand while its threads stand where they do; `Ledgers`, what a
talker has sent, what it still has to send and what the kernel took from it;
`Owned`, that an open descriptor is that of one talker; `Shares`, the packets that
a talker was given; and `Sums`, that the number reported so far is the sum over
the threads that are done, modulo the word.  `StartsTogether` needs `Phases` only,
`ReportIsComplete` all of them and two facts about sums over the threads.
*The shaper.*  `ShaperInv` says how far the count, the goal of the slot and the
clock can be apart, `RateInv` that what has left is within what was credited.  All
arithmetic of the program is on words; the hypothesis `[]Fits` says that the
products fit them.  It is the condition under which shaper_wrap, which violates the
rate, does not happen: runs before the wrap (4 in section 7), with groups that fit
16 bits (7 there).
`RateKept` also needs that the packets divide evenly among the slots, because of
6 in section 7.  Theorems: `LoadInvariant`, `LoadStartsTogether`,
`LoadReportIsComplete`, `ShaperKeepsSlots`, `ShaperKeepsRate`.

**ObjectsProofs.**

* *UdpSockets.*  `SocketInv` is the type, `Owned` (each open descriptor has one
  owner, and an owner's descriptor is open) and `AllDone` (what is done on the
  socket of an open object is all that its `open()` and its flags ask for).  Each
  step of an `open()` is a lemma about the table of descriptors, whichever system
  call fails.  Hypothesis `Needed \subseteq Recorded`: `Recorded` are the marks of a
  socket that a check follows, to bound it; the kernel has all of them, and so has
  the instance of the run.  Theorems: `DescriptorsOwned`, `OpenSocketsComplete`.
* *JsonWriter.*  `WriterInv` relates the context's stack to the elements that are
  really open: `Elements` says that the tokens on the stack increase and are those
  of the open elements in their order, and `Hears` that a reader of the text is
  inside of the same elements and expects what the flag of the innermost says.
  `OnlyInnermostWrites` alone is not inductive: that a token is not on the stack
  twice needs the order.  The reader is a fold; `ReadingAppend` (reading one token
  more is one step more) is proved from the recursion of the fold by induction over
  the length.  Hypothesis `[]NoWrap`: the 16-bit counter of tokens never comes round
  to 0, that is, one `json_writer` opens fewer than 2^16 elements.  It is nearly
  the weakest: after the wrap the token of the root is given again while the root is on
  the stack, and the property is false (12 in section 7).
  Theorems: `WritersInStep`, `WritersCloseSafely`.
* *ShmemMap.*  `ShmemInv` says of the regions of a process that any two of them are
  sorted by where they start (`Sorted`), that none touches its successor if that
  is of the same object (`Tight`), that they cover what the lines inserted do and the
  first page of each line dropped, and that no two share a page as long as no two
  lines inserted do (`Clear`).  `RegionsExact`, which compares neighbours only,
  follows; nothing is assumed of the lines.  Whatever `insert()`
  does puts one region in place of none, one or two neighbours, which `SpliceAdds`
  shows to be right if the new one fits; the lemma `InsertAdds` finds the
  case for each branch.  For `OverlapExact` the function that `Walk` defines is
  shown to exist (`WalksExist`), and three facts are proved of it by induction on the
  distance to the end of both sequences (`WalkInduction`): whatever the regions, the
  walk from the other side gives the same (`WalkMirrors`), and what it adds up is from two
  regions that share a page (`WalkFinds`); and if the regions of neither
  process overlap, it counts what the regions from a place on share (`WalkCounts`):
  what the region that ends first shares with the other one it shares with no
  region behind that.  That last part needs the regions to be disjoint and says so in
  the property (`Disjoint`).  Theorems: `RegionsAreLines`, `OverlapIsShared`.

**FunctionsProofs.**  The specification `FSpec` is one call with an input that
`FunctionsAssumption` allows; `Called` is its invariant, and what remains is that the
promise of a function holds for every input.  A function that is a fold over a
sequence has the lemma that its values for the starts of the sequence exist and
follow from each other (`InsertsAre`, `SumsAre`, `TotalsAre`, `AddsAre`, `VisitsAre`,
`DecimalsAre`, `HexesAre`, `TakesAre`, `GluesAre`); each proof is an invariant of
these values by induction on the length.  FoldLeft itself is a function on the sets
of positions; that this function exists is proved (`FoldExists`) and not assumed.

* *Asinfo.*  `InsertedSorted` and `InsertedTracks`: the map stays sorted and has the
  entries of the page, each as often as the page has it.  `SearchedIs` is the loop of
  the binary search: if an entry has the address it is between the bounds, the bounds
  do not cross, and with each turn they are closer; so it ends, and with the right
  name.  Two entries that do not overlap cannot both have the address
  (`MapDisjoint`).  `SysramIs`: the sum of the sizes is the size of the union.
* *Packets.*  `FoldedIs`: folding the carries of a sum gives zero for zero and
  otherwise the rest by 65535 in 1 .. 65535, by induction over the sum;
  `ComplementVerifies`: a sum to which its complement is added verifies, and so does
  one to which all ones are added where the complement would be 0.  The rest is about where in the frame the words are
  (`WordsCat`, `WordsRegroup`, `MiddleIs`), for data of an odd and an even length.
* *NetInterfaces.*  `AddedIsListed`: what the list gives for an interface, after any
  number of its entries; `VisitedIs`: what filling the interfaces in the order of
  their names leaves of each.  One that is asked for alone has the same details, for
  these depend on the interface and, for a VLAN, on the address of its parent, which
  the visit changes only if the parent is a VLAN too (`NestedVlan`).
* *Text.*  `SplitIs`: after each symbol the fields joined by commas are what was read
  of the text, and only a last field that may not be cut has a comma.
  `HexLowIs`: cutting after each digit is cutting at the end.  `HtonsTwice` is that
  the order of two bytes is its own inverse, for a port that fits (`BelowSquare`).
  `DomainIs`, `FindColumnsIs`: the first entry of the table, the last field of a
  column.

Theorems: `AsinfoIsRight`, `PacketsAreRight`, `InterfacesAreRight`, `TextIsRight`.

**Induction.**  The induction theorems of the library take an operator, which the
provers cannot instantiate.  Where a proof is about all threads, a sequence of any
length or a recursive function, it uses that a set of numbers which is not empty
has a least element (`Least`), and from that induction for *sets*
(`NatsByInduction`, `SetsByInduction`), which needs no operator.

Only model-checked: all liveness (`ReadLockFree`, `WaitersReleased`,
`ExitEndsRunUnlessMissed`, `EveryProgramEnds`, the liveness of the latch), which needs
ENABLED; and `CommandLinesRight`, which is about the RECURSIVE operators of Options
and about the tables of options of nine programs.

## 7. Disagreements between the code and what is said of it

With a run:

1. `rcu.h:205`: a delayed `read()` can return a freed object (rcu_freed).
   Storing the pointer before the counter closes the window.
2. `device.cpp:155`: an `exit()` during the set-up is missed (device_exit).
3. `device.cpp:155`: `exit()` can unblock with a freed or null context
   (device_unblock).
4. `udp_talker.cpp:194`: 32-bit products wrap in long runs (shaper_wrap).
5. `options.h:134`: after a copy assignment, a move or a swap the name of an
   options object is a view of a text that was freed or belongs to another
   object (options_assign).

Without a run of their own; the instance that shows each is named:

6. `udp_talker.cpp:258`: the credits use the group number `r` as the slot.
   UdpTalker with `PACKETS = 3`: `RateKept` is violated after a short send.
7. `udp_talker.cpp:212`: a group of 65536 packets is truncated to 0 (`Asked`).
   UdpTalker with `SLOTS = 1`, `PACKETS = HalfWord`: a run on time sends nothing.
8. `str_intern.cpp:356`: the maximum may be any multiple of `buckets`, although
   the header wants a power of two; with (2, 6) the index grows to 8.
   StrIntern with `Args = {2, 6}`: `StopsAtMaximum` is violated.
9. `str_intern.cpp:214`: `size()` counts a string whose allocation failed.
   `SizeCounts` has the condition `~failed` for that reason.
10. `str_intern.cpp:258`: a load factor below 1.0 does not make the next
    `intern()` rehash, as `str_intern.h:58` says: the threshold is never below
    the number of buckets.
11. `corerw_benchmark.cpp:44`: after an odd number of exchanges both words are
    PONG and the next `run()` hangs.  CoreReadWrite with `ITERATIONS = 3`:
    `StartsAtPing` is violated.
12. `json_writer.h:59`: tokens wrap after 65536 elements.  JsonWriter with
    `Word = 3`: `OnlyInnermostWrites` is violated.
13. `json_writer.h:131`: `close()` of the root does not terminate open elements.

Seen in the code while it was modelled.  The models do what the code does, and
the properties leave these cases out by name:

14. expected.h: a copy or move constructor whose error throws destroys an error
    that was never built (the flag of the empty base is false), and a
    constructor from an `expected<U, G>` builds over the T of the default
    constructed base.  `LifetimesPaired` names both.
15. file.h: `fdesc::reset()` returns -1, not "the file descriptor before it is
    reset", and a move of an fdesc to itself loses its descriptor (`released`).
16. `udp.cpp:323`: `open(bind, dest)` does not apply the flags for reuse.
17. `udp_load.cpp:67-75`: a talker that cannot be initialised after others have
    started ends `main()` with joinable threads: `std::terminate()`
    (`NotStarted`).
18. `udp_talker_bpfmm.cpp:183`: a short `writev()` counts as complete
    (`ReportIsComplete` leaves the mode out); the identification for
    fragments of all its packets is 0.
19. `udp_talker.cpp:128`: `clock_nanosleep()` returns its error and never -1.
20. `asinfo.cpp:84`: the address right behind an entry is taken to be in reach of
    it: what is there is not found, or the index wraps below 0; empty entries
    mislead the search.  `AsinfoRight` leaves both out.
21. `pid_mapping.cpp:118`: a line that starts where a region does is taken for a
    duplicate whatever its object and length: another object at the address, or the
    pages by which the line is longer, are lost.  A line that is listed again inside
    of a merged region is not recognised and is inserted again.  And with
    regions of a process that overlap, as `lshmem.md:89-100` shows them, the walk
    (`lshmem.cpp:110-121`) misses shared pages or counts them twice: of the regions
    [0, 2000) and [1000, 2000), against [0, 1000) and [1000, 2000) of another
    process, the second is compared with none, because the first and the last
    end together.  ShmemMap has all of these lines; `RegionsExact` claims
    nothing of the lines dropped but their first page, and `OverlapExact` an exact sum
    only where no regions of a process overlap.
22. `lshmem.cpp:128-132`: the fields of the first process are printed for both.
23. `core_latency/options.cpp:92`: the benchmark has no default: without `-b` it
    is unknown, and the exit code is 1 even for `-?`.  `find_columns()` takes the
    first field for a column that is missing when another one comes twice.
24. `net_common.cpp:195`: SIOCGIFFLAGS is said to be needed on FreeBSD and QNX 8,
    but only Cygwin asks for it.  A VLAN on a VLAN gets a hardware address or
    none depending on the order of the names (`NestedVlan`).
25. `net_domainname_*.cpp`: one variant of `getdomainname()` gives the whole name
    that was resolved, the other only what follows the host name.
26. `str_intern.cpp:283`: next_size() is to give a `rehash_count_` that exceeds
    `interned_`, "so that we don't have to hash immediately again".  It does for
    the count before the string that is added; after it both may be equal, and
    the next string rehashes: from 1 to 2 and from 2 to 4 buckets by the second
    and the third string, which `str_intern_test.cpp:130-139` expects.
    `GrowsInTime` claims no more.

## 8. Plan

Done, in this order: Rcu with SnapshotCell, SyncEvent with EventLatch,
ResmgrDevice over EventLatch, StrIntern with StringPool, UdpTalker, JsonWriter
with JsonText, CoreReadWrite with Alternation; proofs of Rcu, SyncEvent,
StrIntern and CoreReadWrite; CoreCas, UdpLoad over Sockets, UdpSockets, Expected
with its proof, OptionsObject, ShmemMap, and the functions in Options, Programs,
Text, NetInterfaces, Packets and Asinfo; proofs of CoreCas and ResmgrDevice; then
the destructor, the scan and the refinement of Rcu, the growth of StrIntern, the
promises of Expected, UdpLoad and its shaper, the objects of MCObjects, and the
functions of MCFunctions.

Next, modelling:

1. *JsonWriter*: moves of the root and use after close as outcomes; the
   escaping loop against the grammar of strings.
2. *Arena*: the monotonic resource below str_intern (no two allocations
   overlap, alignment), composed with StrIntern.
3. *ReadBuff*: the reader of words of the interning benchmark with interrupted
   reads; *Fragments*: IPv4 fragmentation against reassembly.
4. *Device messages*: the templates of `device.h` that hand a message to the
   driver, over ResmgrDevice.

Next, proofs: the parser of Options with a fold in place of its RECURSIVE operators;
that the options of a program that set different fields commute, for Programs; the
name of an options object for the calls that keep it.
