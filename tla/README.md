# Verification of cppgenerics

cppgenerics is a C++ library of helpers for Linux programs: inter-process
mutexes and shared-memory buffers, an allocator on top of them, signal and
netlink handling, a logger, and wrappers of system calls. This directory holds
TLA+ modules that model its core, the TLC configurations that check them on
small instances, and proofs that TLAPS checks for every instance.

`PROJECT.json` maps every definition to the lines it models, and lists the
components, the runs, the hazards, the findings and the theorems. Paths below
are relative to the repository.

    tlc -workers 2 -config Mutex.cfg Mutex     # any run: configuration, module
    tlapm BufferManagerProofs.tla              # any module whose name ends in Proofs

## The system: inventory

### Inter-process layer

**IPC::Mutex** (`src/IPC_Mutex.cpp`). State: one 32-bit word in shared memory
and the kernel's queue of the processes asleep on it. `lock()` retries a
compare-and-swap and sleeps in `FUTEX_WAIT`; `unlock()` swaps the word back and
wakes one sleeper; `Mutex(ptr, isNew)` initialises the word or trusts it. Hard:
a release between the failed swap and the wait; a signal during the wait
(`EINTR` is thrown to the caller); the death of a holder, or of the process that
was just woken; an `unlock()` that is `noexcept` and throws. Correct when holders
exclude each other, no sleeper is forgotten and a holder's `unlock()` never
reaches its CRIT branch.

**System::FileLock** (`src/FileLock.cpp`). State: an `fcntl` write lock, kept by
the kernel per process, and the flag `m_locker`. `lock()`, `unlock()` and a
destructor. The kernel drops the lock at death and at any close of the file.

**IPC::FileMutex** (`src/IPC_FileMutex.cpp`). State: a file that holds a
shared-memory key, the segment with that key whose first word is the futex, and
one `Mutex` object per process. The constructor locks the file, reads the key,
and creates or attaches the segment. Hard: two processes find the file empty; a
system call fails, or the process dies, between creating the segment and
publishing its key. Correct when all objects of one file share one initialised
word, and so are one lock.

**IPC::BufferManager and IPC::Buffer** (`src/IPC_BufferManager.cpp`,
`IPC_Buffer.h`). State: in a control segment, a reference count of manager
instances and a table of descriptors (id, key, reference count, links) threaded
into a free and a full list; in each process the map `m_localAtchs` from
descriptors to attached addresses, and Buffer objects. `getBuffer` finds or
allocates; copies and assignments count references; the last reference removes
the segment; the destructor of the last manager removes what is left. All of it
runs under one IPC::Mutex. Hard: long sequences of allocations and frees that
entangle the lists, the per-process map going stale, failures half-way through
`getBuffer`, deaths with references held, `operator=` in two critical sections,
construction racing the last destruction. Correct when counts are exact, no
descriptor is handed out twice, a segment lives as long as its Buffers and no
longer, and an id designates one buffer.

**BitBuffer** (`src/BitBuffer.cpp`). State: an array of 64-bit units, one bit per
element. `init`, `get`, `set`, `find(num)`. Hard: shifts at the width of an int
inside a wider unit, regions at the edges. Correct when `find` is first fit.

**IPC::MutexManager** (`src/IPC_MutexManager.cpp`). State: a table of named futex
words in one shared Buffer. `getMutex(id)` finds the name, or writes it into a
free slot and initialises the futex, all without a lock. Hard: two processes
that claim one name or one slot; a name that is read while it is half-written,
or visible before its futex is initialised; a full table. Correct when a name stands for one lock.

**IPC::Allocator** (`IPC_Allocator.h`): an STL allocator. State: a pool of elements
in one shared Buffer and a BitBuffer in another, the model, whose lock guards
`allocate` and `deallocate`. Hard: constructors that initialise the shared map
again; freeing the wrong elements. Correct when the regions in the hands of
callers are disjoint and the map says so.

**IPC::Container** (`IPC_Container.h`): a view of one Buffer, given or from
`getBuffer`, as elements. Its iterator locks the Buffer while it takes a reference
to an element, and releases it before the reference is used; `operator[]` takes
no lock.

### Process layer

**Signals::SignalHandler** (`src/SignalHandler.cpp`). State: a global table of
signals under a mutex, `sigaction` dispositions of the process, and per thread a
map of handlers, a set of subscriptions and the signal mask. `addSignal`,
`rmSignal`, the destructor, and `c_sigHandler`, which runs in whatever thread the
kernel chooses between any two instructions. Correct when a signal only reaches
a thread that has its handler, and reaches it.

**System::NetLinkListener** (`src/NetLinkListener.cpp`). State: a netlink socket, a
processor thread, a list of registrations under a mutex. Hard: registration
against the walk over the list, callbacks that run under the list's mutex,
messages lost or without a name, and stopping a thread that waits in `recvmsg`.

**Syscalls** (`src/Syscalls.cpp`): wrappers that turn error codes into exceptions;
with control of their own are the exact reads and writes and `mkdir_p`.
**Logger**, **ProgressBar**, **Exception**, **Observer_I**: output and small helpers.

### Interactions

    Allocator -> BitBuffer
        '-------------------> BufferManager -> Mutex
    Container --------------> BufferManager
    MutexManager -----------> BufferManager, Mutex
    FileMutex -> FileLock, Mutex                        everything -> Syscalls, Logger

## Modules

| Module | Models | State and steps |
|---|---|---|
| `AbstractLock` | what a lock promises | holders; a lock whose holder died is lost |
| `Mutex` | IPC::Mutex | the word, the kernel's queue and a program counter per process; a step is one atomic instruction or one system call, an early return of `FUTEX_WAIT`, a signal or a death |
| `FileLock` | System::FileLock | component: the kernel's grant and `m_locker` |
| `FileMutex` | IPC::FileMutex | the file's key, the first word of every segment, a program counter per process; a step is one system call of the constructor, each of which may fail, `lock()`, `unlock()`, the destructor or a death. Instantiates `FileLock` |
| `DescriptorList` | the two lists of descriptors | component: `getDescriptor`, `getFreeDescriptor`, `putFreeDescriptor` on heads and links |
| `BufferManager` | BufferManager, Buffer | descriptors, segments, per-process maps, Buffer objects; a step is one critical section of `m_mtx`, or a death. Instantiates `DescriptorList` |
| `MCBufferManager` | - | owners of the Buffers and symmetry for the runs |
| `ManagerLifecycle` | `getInstance`, `init`, `~BufferManager` | files, file locks, segments with their count, mutex and attachments; a step is one system call or one critical section, a failure, a death or a new process |
| `BitBuffer` | BitBuffer | the set of bits that are 1, and the elements that were last set free |
| `Allocator` | IPC::Allocator | extends `BitBuffer` with the model's lock, the region found and not yet marked, and the regions callers hold |
| `MutexManager` | IPC::MutexManager | names and futex words; a step is one access to the table, some characters of `strncpy`, one `lock()` or `unlock()`, an early wake, a death |
| `MCMutexManager` | - | names that are prefixes of others, and symmetry, for the run |
| `SignalHandler` | Signals::SignalHandler | table, dispositions, masks and maps per thread; a step is one access, one system call or one delivery |
| `NetLinkListener` | System::NetLinkListener | instance, socket, queue, registrations; a step is one system call, one turn of the walk or one callback of the thread, or one call of a user |
| `ExactIO` | `readExact`, `writeExact`, `_nt` | a pipe, and a call under way at each end; a step is one `read` or `write` |
| `MkdirP` | `mkdir_p` | what is at each level of a chain of directories, and the path and recursion of each caller; a step is one `stat` or `mkdir` |
| `MCProcessLayer` | - | these three side by side for one run; a behaviour is about one of them |
| `MutexProofs`, `FileMutexProofs`, `BufferManagerProofs`, `ManagerLifecycleProofs`, `MutexManagerProofs`, `SignalHandlerProofs`, `AllocatorProofs`, `ProcessLayerProofs` | - | theorems about the module of that name and the lemmas they rest on; `AllocatorProofs` is about `BitBuffer` too, `ProcessLayerProofs` about `NetLinkListener`, `ExactIO` and `MkdirP` |

How the pieces fit: `Mutex` is shown to implement `AbstractLock`. `FileMutex`
uses the single steps of that abstract lock for `m_mtx`, and is shown to
implement `AbstractLock` in turn. `BufferManager` takes a critical section of
its `m_mtx` as one step, which the exclusion shown for `Mutex` justifies, and
keeps the one thing that crosses the boundary: a process that dies or loops
inside leaves `m_mtx` locked (`stuck`). It starts with the processes attached;
`ManagerLifecycle` is about how they come and go, and takes the contents of the
segment as given. `MutexManager` uses the steps of `Mutex` with its sleepers, so
that a word stored without a wakeup shows. `Allocator` uses `BitBuffer`'s `find`
and `set` themselves, shifts included.

Choices worth knowing:

- `Mutex`: the swap, `FUTEX_WAIT`'s compare-and-sleep and `FUTEX_WAKE` are atomic,
  as the hardware and the kernel make them; between them anything may happen.
  `FUTEX_WAIT` may return early. Words and sleepers survive a death as they are. A
  process killed with a wakeup in its hands (before its swap, its wait or its wake) is
  `lost`, any other one `dead`, so that a property can tell the two apart.
- `FileMutex`: a throwing constructor unwinds through the `lock_guard` and the
  closing descriptor and may be called again. `getRandom` may return any key,
  one in use by another program included. `FileLock`'s destructor never finds
  `m_locker` set here, since the guard is destroyed first. One object per
  process: `FileLock.h` calls itself a "PID locker, not thread one".
- `BufferManager`: `strncpy`/`strncmp` of ids make an id its first 50 characters;
  the model's ids are such prefixes and are not empty. Callers do not assign a
  Buffer to itself and do not touch the right-hand side of an assignment under
  way. The managers are constructed before the first step. `allocShmKey`
  draws keys until `shmget` answers that nobody uses it; that another program takes the key
  before `attachDescriptor` creates the segment is a case of `getBufferNewFails`. Of the
  random keys two coincidences are left out (`Fresh`): a key that a failed creation
  left in a descriptor is not drawn again, and a descriptor whose key another program
  took is not mapped later through that program's segment.
  An operation that throws before it changes anything is no step.
- `BitBuffer`: `1 << bitIdx` is an int. Bit 31 extends its sign into the unit, and
  a count of 32 and more is undefined: the model chooses at the start between
  the two outcomes a build produces (the count modulo 32, or the shift in a
  wider register) and keeps to it.
- `ManagerLifecycle`: a creator's segment counts as locked until it is initialised
  (the kernel zeroes it, and zero is LOCKED). `init()` that throws leaves
  `instanceHolder` set: without `m_mtx` the process dies at the next use (`broken`),
  with `m_mtx` (the write of the key failed, or a signal interrupted the count)
  it works on. The history variable `split` records that one of these, or an
  `unlink` with another process inside `init()`, has happened; `orphans` the segments whose
  owner failed between `shmget` and the key or between `unlink` and `IPC_RMID`.
- `MutexManager`: names are not empty (an empty one would match every free slot) and not longer
  than the table's field. `strncpy` writes from front to back into a field of zeros,
  so that other calls see a prefix (`Shorter`) until it ends; once two calls write into
  one slot it may hold anything (`mixed`). The history variable `conflict` is set when a call writes
  while another one searches for the same name or has chosen the same slot, and when a search
  finds its name in a slot that another call is still writing; `half` are the slots in which a
  copy has begun and not ended, for ever if the process was killed. The futex of such a slot
  stays LOCKED, so that who finds it under the shorter name sleeps and never enters. `early` are the
  processes that went to sleep on a word that was not initialised yet. `Unlock` is the
  swap and the wake of `Mutex` in one step, and without the branch for a word that is not LOCKED,
  which a holder can only meet after a conflict.
- `Allocator`: `damaged` is set when a constructor initialises the map over
  regions in use, and when `deallocate` frees anything but a region at
  the start of the storage or elements that may share bits. Up to the first constructor the
  memory has any earlier content. `BitBuffer::init` in the constructor, `memset` and a loop
  without the lock, is one step: over regions in use it is damage whichever part of it is seen.
- `SignalHandler`: a thread starts with its creator's mask. Undefined behaviour
  (`erase(end())`, the loop over a map that `rmSignal` shrinks, a signal inside a
  change of the map) has the outcomes listed at each action; after `astray` a behaviour
  is not followed. The default action of a signal ends the process or does nothing
  (`Ignored`). A thread has one SignalHandler at a time: a second one in the same
  thread, whose constructor would block everything again under the first, is left out.
- `NetLinkListener`: `recvmsg` on a closed descriptor fails, one already under way goes on waiting; an exception
  in the thread ends the process. A message without a name has any name (the
  pointer is not initialised), or ends the process. `removeInterfaceEvent` removes
  all registrations of the event, because `operator==` compares `ifaceName` with itself.
  A callback runs under `m_ifaceEvsMtx` and is the user's: it returns, throws (which ends the
  process), or never comes back (`stuck`), as one does that calls `addInterfaceEvent` or
  `removeInterfaceEvent` itself, since the mutex is not recursive.
- `ExactIO`: a caller of the throwing versions gives up after an exception, since
  it cannot know how much was transferred; a caller of `_nt` resumes from the count.
- `MkdirP`: the directories in question are one chain of levels; a path is the sequence
  of levels that its components lead to, where a name goes one level down, "." stays and ".." goes up.
  `dirname` of the root is the root, so that a `stat` that fails there makes the recursion
  call itself for the same path again, up to `MaxRoot` times in the model. The history field
  `failed` says that a system call failed for a reason of its own (no permission, no
  space), `raced` that another process made a directory of the path during the call.

## Runs

| Run | Result | What it shows |
|---|---|---|
| `mutex` | pass | `MutualExclusion`, `NeverCrit`, `WordMatchesHolder`, `NoLostWakeup`, `LockSpec` (implements `AbstractLock`) and `Progress`, with signals and deaths |
| `filemutex` | pass | `SameWord`, `PublishedIsInitialised`, `MutualExclusion`, `NeverCrit`, `ForeignUntouched`, `LockerHasLock`, `LockSpec`, `InitNotBlocked`, with failing calls and deaths |
| `buffer_safety` | pass | `RefCountExact`, `IssuesUnused`, `BufferKeepsDescriptor`, `ExplodeFreesAll`, `RemovedOnlyByLast`, with failures, deaths and exits |
| `lifecycle` | pass | `FileNamesLiveSegment`: the file never names a removed segment; `OneManager`: all instances share the segment the file names, unless `split`; `NoSegmentLeaked`: without deaths no segment is ever lost, not even with two managers, and with deaths only where `orphans` says; `KeyWrittenOnce`: a key in a file is never replaced |
| `mutexmanager` | pass | `ThrowsOnlyWhenFull`; `SameNameExcludes` as long as no two calls claim one name or slot and none matches a name that is still being written; `StrandedOnlyEarly`: who sleeps on a free mutex waits for a woken or dead process, or slept before the futex was initialised |
| `allocator` | pass | `FindMatchesInInt`: `find` is first fit while the elements fit in an int; `FindsFree`: for larger buffers what it returns is inside and reads as free; `RegionsDisjoint` and `MapIsExact` until `damaged` |
| `signals` | pass | `HandlerKnown`: a thread with a SignalHandler never leaves a signal unblocked that its map does not know; `OneSubscriber`; `NotLost` |
| `process_layer` | pass | `WalkSafe`: no registration is removed under the walk; `CallbackRuns`: a registration gets its callback unless one before it hangs; `StreamIntact`: no byte is lost, doubled or moved; `MkdirOutcome`: what a return and an exception of `mkdir_p` mean |
| `buffer_existing`, `buffer_stale_map`, `netlink_stop`, `mkdir_p` | violation | see Findings |

### Bounds, and why they are enough

- `mutex`: four processes, three of them mortal and signalled. A holder, a process
  between swap and wait, a sleeper and a waker can coexist; more of any kind is
  covered by the proofs.
- `filemutex`: three processes (a creator that fails or dies, one that takes over,
  one that attaches), a foreign key and three keys, so that two creations can
  fail after `shmget` and a third still succeeds. When the keys run out every
  creation fails with `EEXIST`, which is a behaviour of the code too.
- `buffer_safety`: two processes, three Buffers (two in one process, so that
  assignment happens), two ids, three descriptors: one more than ids, so that a
  failed `getBuffer` can leave a descriptor behind. `Seg` has five members; a
  sixth adds no state up to symmetry, because `Fresh` may reuse a segment that
  nothing mentions any more. `buffer_existing` has one process with three Buffers.
- `lifecycle`: three processes (one inside the destructor, one inside `init()`, one
  that comes later), two files and two segments over time, one death: enough for a second manager
  beside the first, or after it.
- `mutexmanager`: three processes, so that two contend and one dies or creates;
  three names for two slots, so that the table fills up. One name is a prefix of another, and
  the third has a prefix that nobody asks for, so that half-written names are and are not found.
- `allocator`: units of 6 bits and ints of 3 keep the ratio of 64 to 32; the sizes are
  below, at and above an int, a full unit, and a unit and one element. Three regions
  at a time let the middle one go. All contents of the map are reached
  before the first constructor.
- `signals`: two threads, two signals that can be caught, one of which is ignored by default, and one
  that cannot (`sigaction` fails).
- `process_layer`: two events and two interfaces, so that a walk meets matches and
  mismatches; a socket with room for one message, so that it overruns. Calls of up to 3 bytes
  through a pipe of 2, over a stream of 5 bytes, so that calls are split and resumed. Two makers on
  paths of up to three components over two levels below the root, enough for "a/b", "a/./b" and
  "a/../a". `mkdir_p` has one maker, so that what it shows needs no race.

Deadlock checking is off where the system really stops: a dead holder leaves
everybody asleep, all processes may exit, a process may end by a signal or an
exception, and a stream has an end.

### Fairness

`Mutex`: a running process executes its next instruction or system call, and
leaves its critical section (`WF` on `LockCas`, `FutexWait`, `UnlockCas`,
`FutexWake`). Nothing obliges a process to call `lock()`, the kernel to return
early, or a signal or a kill to come. `Progress` promises an acquisition by
somebody, not by everybody: a woken process may lose the swap again and again,
and the code has no queue.

`FileMutex`: a constructor goes on (`WF`), and the kernel does not pass over a
process blocked in `F_SETLKW` for ever while the lock keeps becoming free
(`SF` on `LockFile`; the kernel wakes the blocked requests at each release).

`SignalHandler`: the kernel delivers a pending signal that some thread does not
block (`WF` on `Deliver` for each signal). Nothing obliges a thread to call or to
go on, nor a signal to be sent. `NetLinkListener`: the scheduler runs the
processor thread and the joining one (`WF` on `Processor` and `Join`); no message
need arrive, no user need call and no callback need return.

## Findings

1. `buffer_existing`: `putFreeDescriptor` never moves `nextFullIdx`, so freeing the
   head of the full list hides the descriptors behind it, and `getBuffer` of an existing id
   makes a second buffer.
2. `buffer_stale_map`: only the process that drops the last reference erases its
   `m_localAtchs` entry; another one later gets the old mapping for a recycled descriptor.
3. `netlink_stop`: `close()` "makes m_ifaceEventProcessor_f stop" only by chance: a
   thread inside `recvmsg` keeps waiting, and `join()` at exit with it.
4. `mkdir_p`: "aka mkdir -p" (`Syscalls.h:50`), but the code throws on every `EEXIST`. A lone caller of
   `mkdir_p("a/./b")` makes `a` and then fails at `mkdir("a/.")`; the same exception meets
   whoever loses a race for a directory (`raced` in `MkdirOutcome`).

Behaviours of the models that readers of the code should know of, without a run
of their own:

- A descriptor freed while the free list is not empty is linked in front of the head,
  and the head stays: the descriptor is lost (`IPC_BufferManager.cpp:261`).
- Reusing the freed head of the full list links it to itself, and `getDescriptor`
  loops with `m_mtx` locked (`:179`; action `getBufferSpins`).
- `FUTEX_WAKE` with `val = 1` wakes one sleeper, where the comment says "wakeup all
  processes" (`IPC_Mutex.cpp:71`); `Progress` shows that one is enough while the woken process lives.
- A callback of NetLinkListener that registers or removes events waits for its own thread
  for ever, and with it everybody who registers (`NetLinkListener.cpp:180`; `stuck`).
- A name that a killed process left half-written stays in the `MutexManager`'s table, and who
  asks for the shorter name it spells gets a mutex that nobody can lock (`IPC_MutexManager.cpp:70`).
- Above 31 elements per unit the shifts of an int make elements share bits, and `find` may miss
  free regions (`BitBuffer.cpp:100`).
- The races and windows named by `split`, `orphans`, `conflict`, `early`, `damaged` and
  `astray` are reachable; the properties say that nothing else goes wrong.

What makes the lists remarkable is what still holds in spite of this, and is proved:
a descriptor in use is never handed out, counts are exact, and no segment is
removed early or left behind.

## Proofs

Proved for any number of processes, threads, keys, Buffers, ids, descriptors, names,
signals and registrations, and for any value of the bounds (`MaxGen`, `MaxDeaths`,
`MaxQueue`, `MaxBytes`, `Depth`, `MaxLen`, `MaxRoot` and so on). The only assumptions are those on the
constants (`ProcAssumption`, `ConstAssumption`, `WidthAssumption`, `AllocatorAssumption`, `IOAssumption`,
`DirAssumption`: distinct null values, subsets, finitely many processes and Buffers where they are
counted, a positive capacity, a unit at least as wide as an int), which TLC evaluates in the runs. In each module
`IInv` is the inductive invariant (`WalkInv`, `DirInv` and `IOInv` in `ProcessLayerProofs`); TLC checked each one on the instances of the runs
before it was proved.

**Mutex.** The invariant `IInv` joins the typing (the queue is the set of processes in
`FUTEX_WAIT`), exclusion, the absence of CRIT, the word that tells the truth about
holders, and the wakeup under way. Exclusion alone is not inductive: a swap is
safe only because LOCKED is known while somebody is inside. `NoLostWakeup` excuses only
the deaths that take a wakeup along, not one asleep, inside or outside. From it follow
`MutexExcludes`, `UnlockNeverCrit`, `WordIsHonest`, `WakeupNotLost` and, one step of
the futex at a time, `ImplementsLock`.

**FileMutex.** The strengthening says that a process between locking the file and closing it
has the kernel's lock, so there is at most one; that while a process is creating,
the file is empty and its segment is its own and, from `InitWord` on, unlocked;
and that everybody who is past the constructor shares the file's key. Then a
creator cannot meet another creator nor reinitialise a word in use, which gives
`AllShareOneWord`, `KeyPublishedLast`, `OthersUntouched`, `LockerIsHonest`, `FileMutexExcludes`,
`UnlockNeverCrit` and `ImplementsLock`.

**BufferManager.** The lists do not stay well formed (see Findings), so the usual
invariant, two disjoint lists, is false. What survives is weaker and is the heart
of the proof (`ListInv`): the used predecessor of a used descriptor has it
as its successor, and no used descriptor precedes the head of the free list
(`MutualLinks`); and from `nextFreeIdx` on, the chain runs through a set of unused
descriptors that no two of them enter at the same place and that the `prevIdx` of no
used descriptor leads into, so that no relinking of used ones disturbs it
(`FreeChain`). That is enough for `NoDoubleIssue`: the head of the free list is
always unused. `BufferInv` ties
Buffers to descriptors with the id they asked for, `CountInv` bounds the manager's own count from below by the attached
processes, `SegmentInv` gives every existing segment exactly one descriptor with an id.
With them `RefCountsAreExact`, `NoRecycling`, `SegmentOutlivesBuffers` and `NoSegmentLeak`
follow, cardinalities by the theorems on finite sets.

**ManagerLifecycle.** `IInv` has three layers, because the code keeps less and less the
more goes wrong. `Base` holds whatever happens: who is between `lock()` and `close` of the
file has the kernel's lock on it, what was read in it is still there, a creator is
alone with its segment until it writes the key, and a destructor that has
unlinked the name removes a segment that the name does not lead to any more.
`FileNamesLive` follows from `CreatorAlone` and `Unlinked`. Until `split`, `Single` holds: whoever is inside `init()` has
the named file open, whoever uses the manager uses the segment it names, and the one that is
about to unlink is alone. The last point is what could fail, and it rests on both
halves of the destructor's test: `ref_count` is at least the number of users
(`EachIsCounted`) and every user is attached (`IsAttached`), so that neither
a count that reaches 0 nor `shm_nattch = 1` can be seen beside another user. With `Reachable`
this gives `ManagerIsOne` and one half of `SegmentIsNotLeaked`. The other half, without deaths but with any number of
managers, needs the converse `CountIsReal` (each user is counted once) and
`ZeroIsRemoved` (at count 0 somebody is on the way to `IPC_RMID`). The number of users
changes by at most one in a step (`UsersStep`). The action property `KeyIsWrittenOnce`
needs no condition: a creator has the file's lock from the read that finds the file empty to
the write (`LockHeld`, `KeyRead`).

**MutexManager.** That names are never removed makes one part unconditional: what
`findFreeDescriptor` has passed is still named when the search ends, hence
`ThrowMeansFull`. The rest holds until two calls meet in one name or one slot
(`conflict`): names are unique among the slots that are not half-written, a name that a call has not found
is in none of these (`NotFound`), and the chosen slot is free until the first characters are written, and
then the writer's alone (`SlotIsNamed`). Half-written slots must be left out of the claim: a killed
process can leave "ab" of "abc" behind, a search that began before it may miss it, and then "ab" is
in the table twice. What saves exclusion is the word: up to
`Mutex(ptr, true)`, which runs once for a slot and never for one that stays half-written, it is
LOCKED as the kernel filled it (`RawIsLocked`), so that nobody enters through such a slot and the
constructor cannot free a mutex that somebody holds: `NameExcludes` and `OnlyEarlyStranded`.

**SignalHandler.** A chain of inclusions: the unblocked signals are subscriptions
(`MaskFollows`), these are installed and handled (`SubscriptionsHandled`), and the handlers
of different threads are different entries of the global table (`OwnedOnce`). Two of
the links are broken for a moment by the order of the calls in `rmSignal`, and the
invariant says by how much: the signal being removed is blocked (`RemovedIsBlocked`),
and it leaves the table before the map (`Own`). `addSignal` is the mirror
image: handler, action, and only then the mask (`AddedIsHandled`). From these,
`HandlerIsKnown`, `SubscriberIsUnique`, and the action property `HandlerAlwaysReturns`: a
delivery to a thread with a SignalHandler ends the process only if it comes while that
very thread changes its map, which the code does with the signal mask as it is.

**BitBuffer and Allocator.** `find` is a loop, modelled by the recursive function of
its turns (`Turn`, `Scan`). `AllocatorProofs` first shows that such a function exists
(`TurnsExist`) and that what holds at the start and is kept by every turn holds at the end
(`TurnInduction`). The library's induction rules take an operator as a parameter, which the
provers cannot instantiate; here the induction is over the *set* of the turns at which the
invariant holds, and rests on the least element of a set of naturals (`LeastNatural`),
which the library's theorems on well-founded relations give without such a
parameter. `LoopInv` says what the loop knows after a turn: how long the run of free
elements is that ends there, that a taken element stands before it, and that no earlier run was
long enough. So `find` is first fit over what `get` says, whatever the content, the size and the
widths are (`FindIsFirst`), which is `FoundIsFree`; with `Synced` (what `get` returns is what
the last `set` of that element said, in a buffer no larger than an int) it is
`FindIsFirstFit`.

How far elements may share bits decides the rest. Setting elements to taken clears
their whole masks, so that they and all that read as taken before read as taken afterwards,
for any size and either outcome of the wide shifts (`Taken`). That alone carries `RegionsAreDisjoint`: the
elements of a region in use read as taken (`Marked`), those of a region that has been found read as
free until it is marked, because the model's lock is held in between (`LockHeld`, `StillFree`), so
the two cannot meet. The converse, that nothing else becomes taken or free, needs each element
to have its bit for itself. That holds up to the width of an int, where the sign of
the highest bit extends only into bits that no element uses (`SmallApart`,
`SmallSet`), and gives `MapStaysExact`.

**NetLinkListener.** `WalkIsSafe` needs the mutex: `m_ifaceEvsMtx` is held exactly during
the walk, callbacks that hang included (`WalkLocked`), and there is no thread before `getInstance()` has set the holder.

**Syscalls.** `StreamIsIntact`: the bytes the reader was given, those in its buffer, the
pipe and the writer's count are consecutive pieces of one stream (`Stream`), where a
failed throwing call ends the claim at its own end only. The lemmas say what
concatenating, dropping and filling a buffer do to consecutive numbers.
`MkdirIsHonest`: what exists has only directories above it (`Chain`), and a path that a call has
found missing still lacks a directory unless another process has made one (`Lacking`). On the way
back all above exists and the component at hand is no name or is not yet a directory (`Blocked`); so a
`mkdir` fails by itself, or at a file, at "." or "..", or at a directory made by a call that won the race,
and a call returns only below directories.

Only model-checked:

- `Progress`, `InitNotBlocked`, `NotLost` and `CallbackRuns`: liveness under
  fairness is out of the prover's reach.
- The four violations under Findings, which are counterexamples.

## Not modelled

- **Container** keeps a Buffer and a position: creating and copying it are the operations of
  `BufferManager`, and its lock protects only the taking of a reference, not what the caller
  does with it; **Logger** and **ProgressBar** are
  output; **Exception** and **Observer_I** have no behaviour of their own.
- Of **Syscalls**, the wrappers of a single call appear as failing steps where they
  are called; `getRandom` is the free choice of a key; `resched` and `initModule` are
  sequences of calls on the scheduler and the kernel's modules without a state the
  library keeps.
- Of **BitBuffer**, storage that it allocates itself, and the empty buffer, for which
  `m_numElements - 1` wraps.
- Memory contents of the buffers and the layout of log lines are data no property
  depends on.
- Static destruction order: `atexit` handlers of the managers run in reverse order of
  the first `getInstance()`, which depends on the program.

## Plan

1. `Mutex` under `BufferManager` as an explicit composition: the critical sections of
   `BufferManager` as steps between `lock()` and `unlock()`.
2. Further action properties that the present invariants carry: a name in the
   `MutexManager`'s table is written once as long as no two calls conflict, `mkdir_p` removes nothing.
3. `find` in a buffer larger than an int: which free regions it can miss, for each
   outcome of the wide shifts.
