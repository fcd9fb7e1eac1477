# A TLA+ model of the ArcMSR driver

ArcMSR is a kernel driver for Areca SATA RAID adapters (IOKit, Mac OS X). It
sits between the SCSI stack (`IOSCSIParallelInterfaceController`) and the
adapter's message unit, a page of registers shared over PCI. This directory
holds TLA+ modules that model the driver's state machines, TLC configurations
that check them on small instances, and TLAPS proofs for every value of their
constants.

All file names below without a directory are files of `src/` or of this
directory; line numbers are those of `src/`.

## 1. The system

### 1.1 Threads, and what serialises them

* **Client threads of the SCSI stack** call `ProcessParallelTask`.
* **Threads of user processes** call `open`, `close`, `send`, `recv` and the
  clears of `ArcMSRUserClient`. ArcTerminal, the only client in the
  repository, sends from one thread and receives from another.
* **The workloop thread** runs `HandleInterruptRequest` and the two timers'
  actions with the command gate closed.
* **A thread of the thread call pool** runs `asyncEventHandler`.
* **The adapter** changes registers and SRB memory whenever it likes.

The command gate is the only lock. The macros of ArcMSRUtils.h:111-190 run a
member function behind it, and the workloop holds it for a whole handler.
`commandSleep` gives it up and takes it again. What a thread does between two
passages of the gate interleaves with everything else, and the adapter
interleaves with every register access. The actions of the modules are cut
exactly there.

### 1.2 Components

| Component | State | Operations | Correct if | Module |
|---|---|---|---|---|
| **I/O path** (ArcMSRSCSI.cpp, tags and SRBs of ArcMSRController.cpp and ArcMSRControllerIO.cpp) | `freeSRB`, the SRB pool, the queue ports, the stack's outstanding tasks | `getTag`, `returnTag`, `ProcessParallelTask`, `postSRB`, `handlePostQueueInterrupt`, timeouts | no tag is lost or shared, each reply completes its own request with its own status, every request completes | `SRBEngine` |
| **RingBuffer** (ArcMSRUtils.cpp) | `head`, `tail`, `data` | `init`, `clear`, `avail`, `insert`, `remove` | it is a bounded byte queue | `RingBuffer`, `RingContents`, `RingQueue` |
| **Message queue** (ArcMSRMessageQueue.cpp, `send`/`recv`/clears of ArcMSRUserclient.cpp, `handleDoorbellInterrupt`) | two rings, `MQFlags`, the doorbells, `ioctl_wbuffer`, `ioctl_rbuffer`, sleeping threads, `outboundMQTimeout` | `send`, `recv`, clears, doorbell interrupt, timer | bytes arrive once and in order, none is lost, nobody sleeps for ever | `MessageQueue` |
| **Device rescan** (`deviceScanStub`, `handleMessageInterrupt`, `ArcMSREventSource`, `targetRescan`) | `deviceMap`, `deviceMapUpdate`, `actionMask`, `handlerRunning`, the timers | scan, compare, notify, rescan | the stack comes to have the units the adapter has | `Rescan` |
| **User client access** (ArcMSRUserclient.cpp, `setClientActive`) | `clientActive`, the provider's open count, `fProvider` | `open`, `close`, `clientClose`, calls of several threads, termination of the provider | at most one client is in, and the driver is never left locked | `UserClient` |
| **Lifecycle and message-0 commands** (`InitializeController` ... `TerminateController`, `CTL...`) | inbound and outbound message registers, interrupt mask, the pool and the timers | init, start, stop, terminate, polled commands | each command gets its own answer; after stop no interrupt and no scan | `Controller` |
| **SRB addresses** (`getSRBPhys`, `getSRBTag`, queue port words) | none | shifts and masks of 32-bit words | tag -> word -> tag is the identity for every tag of the pool | `SRBAddress` |
| Task management, power management, diagnostics, ArcMSRManagement.h, ArcTerminal | none that the driver shares | | | not modelled (section 7) |

How they interact: `HandleInterruptRequest` dispatches to the doorbell, post
queue and message handlers, one after another behind the gate. The I/O path
and the message queue each keep rings. The rescan uses the message unit's
buffer that `CTLgetConfig` used first. The user client calls into the message
queue, and shares nothing else with it. Apart from the gate and the interrupt
status register (in which each has a bit of its own) the parts share no state,
which is why they are separate modules. Two exceptions are modelled where they
bite: the message register, which the scan timer of `Rescan` and the polled
commands write (`Controller` has both), and the doorbells that a reload of the
driver finds in any state (`Reload` of `MessageQueue`).

### 1.3 What is hard here

Replies to requests that timed out; tags that come back after the completion
they belong to; an interrupt acknowledged before its queue is drained; doorbell
bits read, acknowledged and acted on in separate accesses while the adapter
rings again; threads that sleep inside the gate and are all woken together; a
ring filled to its last byte; a notification added while the handler decides it
is done; two device maps shared without a lock; a process that dies in the
middle of `open`; one interrupt bit that a poll and a handler both wait for;
registers that remember the previous instance of the driver. PROJECT.json lists
them under `hazards`, each at its line with the properties aimed at it.

## 2. Modules and how they correspond to the code

### SRBEngine

`srb[g]` is what `getSRBPtr(g)` points to. The module extends `SRBAddress`: a
reply in the outbound queue carries the tag that `ReplyTag` makes of the word
the adapter queues, which is the posted word less its flag. `freeSRB` is the sequence of tags in the ring, four bytes each; that the
ring keeps such a sequence is what RingBuffer shows. `ProcessParallelTask` is
cut into `GetTag`, `BuildSRB`, `SetTaskIdentifier` and `PostSRB`: the first and
last pass the gate. `GenSegments` is the memory cursor's calls of
`outputArcMSRSegment`; with no segment `sg_count` keeps the value of the tag's
previous user. `handlePostQueueInterrupt` is the loop `DropReply`,
`RecycleTag`, `CompleteParallelTask`+`FinishReply`, `QueueEmpty`; the completion
is a step of its own because it calls out of the driver, and with `Reentrant`
the stack submits another request from inside it. A request's `Release` is the
stack forgetting it: its controller task identifier no longer finds it.

The stack is external. It has at most `ReportMaximumTaskCount` requests
outstanding, and it may give up on one the adapter has (`HandleTimeout`,
which on the driver's side does nothing). The adapter is external: it answers
posted SRBs in any order, writes `device_status` only when it reports an error,
never changes an SRB's target and lun,
and may queue words that are no SRB's address (`BadWords`: addresses below the
pool, and the one just past it that `getSRBTag` accepts and `getSRBPtr`
refuses). An address inside the pool that is not an SRB's first byte is decoded
to the SRB it lies in; the adapter is assumed not to send one.

### TaskService

The abstract specification of the I/O path: what the SCSI stack may rely on,
with no tag, SRB, address or queue in it. A request that is wanted
(`request`) is refused or handed to the adapter as it was asked for (`jobs`);
the adapter's `answers` come in any order; each is reported once, as the
result of its own job (`Complete`, `report`), or discarded if the stack gave up
on the request meanwhile (`GiveUp`, `Discard`). Two clauses carry the weight:
`HandOver` needs one of `Slots` to be free, and `Refuse` needs something the
stack does not count to hold one, a job nobody wants any more or a completion
under way. `SRBEngine` implements it (`ImplementsService`). In the mapping a
word in the inbound queue is the job of the request whose tag it carries, with
the target, S/G list and size of frame that *the SRB's memory* holds (`Jobs`); a
queued reply is the answer that `getSRBTag`, `identOf` and `taskStatus` will
make of it (`Answers`), so a frame that was overwritten, a tag handed out
twice or a status read from the wrong SRB would be a step `TaskService` does not
have.

### SRBAddress

Tags, addresses and port words as arithmetic of fixed width. `Frames` is 2^27
in the driver; the runs use 16 with a pool at 128, which keeps the proportions
of the word: five flag bits above the address, five zero bits below it. That the
pool ends below the address space and that SRBs are a multiple of 32 bytes is
the module's assumption, because the driver checks neither: it takes
`request_size` from the adapter and asks for that alignment.

### RingBuffer, RingContents, RingQueue

`RingBuffer` has the array, the head and the tail and copies in two pieces like
the code. `RingContents` says what each operation does to the *contents*, as the
code is written: `Avail` is one too many, and an insertion that fills the array
leaves it empty. `RingQueue` is the abstract specification: a bounded byte queue
that refuses what does not fit and loses nothing. RingBuffer implements
RingContents always, and RingQueue only while the array is never filled to its
last byte.

### MessageQueue

Uses `RingContents` for both rings. Bytes are numbered in the order they are
sent, so order and loss can be read off the state. The five steps of the
doorbell interrupt are its register accesses. `inboundMQBufferInsert` and
`outboundMQBufferRemove` are one pass of their loops each; between two passes
the thread sleeps (`pc = "asleep"`) and `commandWakeup` (`Woken`) lets it try
again. Signals end a sleep too. The inbound and outbound doorbells are sets of
bits; the adapter follows the protocol of ArcMSRRegisters.h:139-154.
`Reload` is the driver terminated and loaded again, with no client left: new
rings, `MQFlags` as InitializeController sets them, and what CTLinit does about
the doorbells; `left` remembers which direction the old instance left unsettled.
`TimerOwners` is what the third parameter of `outboundMQWakeup` may turn out to
be: the timer passes two arguments, so it is whatever the register holds.

### Rescan

`CopyTarget` is one turn of the loop of `handleMessageInterrupt` and
`ScanTarget`, `TellStack`, `SaveTarget` one turn of `targetRescan`, because the
two loops share `deviceMap` and `deviceMapUpdate` without a lock. The adapter
writes the message buffer whenever it answers. Event source methods that close
the gate are one step each. `CreateTargetForID` may fail (`missing`); the
code saves the map all the same.

### UserClient

Every call begins with the check for inactivity (`Begin`) and then uses
`fProvider`: `open` goes on with `activate` (behind the gate) and
`openProvider`, `close` with `deactivate` and `closeProvider`, `send`, `recv`
and the clears are one `request` here. The threads of a client interleave.
`clientClose` runs on a thread of its own: it does what `close` does, sets
`fProvider` to NULL (`forget`) and then terminates; a call that comes between
finds NULL (`useNull`, after which nothing happens any more). The provider may
be terminated at any time (`TerminateProvider`). `provider` is IOService's open
state, which refuses a second open silently. `granted` remembers whose `open`
returned success, until that client gives the flag up. `overlapped` remembers
which connections had a call under way together with their `clientClose`, and
`openOverlapped` those of them where that call was an `open`: only an `open` can
set the flag, or open the provider, behind `clientClose`'s back. A `recv` that
sleeps while its process dies is in the first set and not in the second. A client's
name is used again only when nothing refers to the old object.

### Controller

`pc` is how far the superclass's thread is: init, the two calls of start, the
four of stop, terminate, and again. `poll` is the loop of CTLwaitMsgintReady,
whose read and acknowledgement are separate steps, as they are in
HandleInterruptRequest (`ReadStatus`, `AckStatus`). `msg0` is the inbound message
register and `working` the command the adapter is at; each command remembers on
whose behalf it was sent, which the driver does not. `intstatus` is reduced to
the message bit and one other. The module starts with an adapter in any state:
firmware booting, an old command under way, an old interrupt pending, anything
in the buffer, any mask. The queue depth is an unsigned word and `maxSRB` an
int, so `ParseConfig` converts it (`AsInt`; `IntLimit` is 2^31): a depth from
2^31 on is negative, and passes both the clamp and the test for zero. Assumed of what is outside: no interrupt is delivered
before CTLinit has masked them; the superclass calls TerminateController only
after StopController and only if InitializeController succeeded; a disabled
timer that is set does not fire; the workloop of an instance is gone before the
next is loaded.

### MC and proof modules

`MCSRBEngine`, `MCMessageQueue` and `MCUserClient` add the symmetry sets for TLC, and
`MCSRBEngine` the requests that are made; the others need none. Each module `X_proofs` extends the module `X` it proves about;
`SRBService_proofs` continues `SRBEngine_proofs`. In every module the
operators marked *Mutant* are plausible mistakes in the definition that
follows them; PROJECT.json says which property each must violate.

## 3. The runs

| Run | Shows | Bounds, and why they are enough |
|---|---|---|
| `SRBEngine_safety` | `TypeOK`, `NoTagLost`, `NoTagShared`, `CompletesItsOwner`, `MissMeansTimeout`, `PostedFrameFits`, `OverrunHasCause`, `ImplementsService` | 3 requests, 2 tags, so tags run out and are reused; two timeouts, enough to take every tag; three kinds of request (`FewRequests`): targets 11 and 18 (target 1 lun 3 and target 2 lun 2) with 2 segments, more than fit in a small frame of 1, and target 11 without data; two error codes that the handler reports differently, so that a status left by another request, or by nobody, is seen to be wrong; completions submit requests; no words that name no SRB (the liveness run and the theorems have them); SRBs of 64 bytes at 128 in words of 9 bits |
| `SRBEngine_liveness` | `ReplyFreesTag`, `RequestCompletes` | 2 requests, 2 tags, a bad word below the pool and one just past it that may come again and again, one timeout, completions that submit requests (`Reentrant`), so that a drain of the reply queue need not end |
| `RingBuffer_even` | `TypeOK`, `ImplementsContents`, `ImplementsQueue` | array of 7 bytes, blocks of 2 and 4, removals of 2, 4 and 6: as 2 and 7 are coprime, head and tail take every position, and the array is never exactly full |
| `MessageQueue_safety` | `InboundTurn`, `OutboundTurn`, `InOrder`, `SendersSleepWithCause`, `ReceiversSleepWithCause`, `BytesFlow` | 2 senders and 2 receivers, capacity 2 with messages and posts of 2, received a byte at a time (overflow, underflow, sleeping senders, and an outbound ring filled exactly by a post to what is left of the last one, occur), clears, any number of reloads, 4 numbered bytes per direction |
| `MessageQueue_liveness` | `TypeOK`, `NoByteLost`, `SendReturns`, `RecvReturns` | 1 sender, 1 receiver, byte numbers modulo 8 so that the run is endless; even lengths in an array of 5, messages of 4 received in halves |
| `MessageQueue_loss` | violates `NoByteLost` | capacity 3, messages of 1 and 3: 4 bytes fill the array |
| `MessageQueue_timer` | violates `RecvReturns` | 1 receiver, a timer that may not find the driver |
| `Rescan_converges` | `TypeOK`, `NotificationHandled`, `StackMatchesMap`, `OverlookedHasCause`, `Converges` | 2 targets with one unit each, 3 changes: enough for a unit that comes, goes and comes again around a rescan; one target that could not be created |
| `UserClient_lock` | `TypeOK`, `LockHasOwner`, `ProviderHasOwner`, `NullUseNeedsOverlap` | 2 clients of 2 threads, so a client's calls overlap each other, its `clientClose` and the other client's; clients and threads are interchangeable |
| `UserClient_exclusive` | violates `OneClientActive` | 2 clients of one thread: a second one active is enough |
| `Controller_safety` | `TypeOK`, `FalseAnswerHasCause`, `ConfigAnswerKept`, `DepthRespected`, `HandlerHasResources`, `StoppedIsQuiet`, `CallReturns` | 2 loads, so the second finds what the first left; queue depths 0, 3 and 5 with a limit of 2 and an `IntLimit` of 4: none, too many, and one that is negative as an int; 2 looks of a poll, 2 of the wait for the firmware |
| `Controller_polled` | violates `PolledAnswerKept` | 1 load |

Bounds that cap the model and not the driver: `MaxTimeouts`, `MaxChanges`,
`MaxMissing`, `MaxLoads`, `Numbers` without `Endless`, and one bad
reply in the queue at a time. Deadlock is checked in every run but those
of two modules: `Controller` stops when its loads are used up, and `UserClient` stops after a
panic, or with a terminated provider that a connection which is gone has left
open.

### What the failing runs say about the code

* **NoByteLost** (ArcMSRUtils.cpp:147). `avail` counts the spare byte, so an
  insertion can make head meet tail. Everything in the ring is forgotten.
* **RecvReturns** (ArcMSRMessageQueue.cpp:92-98). The timer's action expects an
  argument the timer does not pass.
* **OneClientActive** (ArcMSRUserclient.cpp:170). `close` clears the flag of whoever
  is active. In the trace one client has the driver; another, never let in,
  calls `close` and then `open`. Both are active now, and the second does not
  hold the provider: `IOService::open` refused it and line 152 does not look. A
  client whose own `open` overlaps its `clientClose` does not count in this
  property, so the trace shows this and nothing else.
* **PolledAnswerKept** (ArcMSRController.cpp:250, against the comment at
  ArcMSRControllerIO.cpp:277). StartController polls with interrupts enabled; the
  handler takes the bit, and start is 20 seconds late.

Some invariants of passing runs have an exception in them because the code does:

* `OverrunHasCause` ("XXX should never happen", ArcMSRSCSI.cpp:110). A timed-out
  request leaves its tag with the adapter, as it must, but gives the stack its
  task slot back; a request submitted from inside a completion finds the tag not
  returned yet, because line 267 completes before line 270. Nothing else leads
  to a rejected request: the late `returnTag` is invisible to other threads,
  because the workloop keeps the gate.
* `LockHasOwner`, `ProviderHasOwner` and `NullUseNeedsOverlap`. An `open` under
  way while `clientClose` runs can set the flag after it was cleared, or open
  the provider after it was closed, or use a NULL pointer; and once the provider
  is terminated `close` returns at line 166, so the provider stays open, against
  the comment at line 184, and its termination never completes. The first two
  make an exception of an `open` only: any other call may overlap.
* `FalseAnswerHasCause`, `DepthRespected` and `HandlerHasResources`. They say that an
  answer from before the load, the scan timer while stopping, a depth an int
  cannot hold, and a handler caught at work by StopController are the *only* causes
  of a false answer, a pool too large and a handler without resources.
* `BytesFlow`. A ring filled to its last byte is one of its named losses, so this
  property does not show that bug; `MessageQueue_loss` does.

Seen while modelling, and not the subject of a run: `clearWQBuffer` clears what
was received and `clearRQBuffer` what is to be sent (ArcMSRUserclient.cpp:280 and
292, against ArcMSRUserClientInterface.h:51-55); an SRB without data keeps the
S/G count of the tag's previous user (ArcMSRSCSI.cpp:171, against the comment at
line 63); a map that goes back to its old value while a target is rescanned is
overlooked until the next periodic scan compares again (ArcMSRSCSI.cpp:366
reads the new map, but ArcMSRControllerIO.cpp:240 compares with the old one;
`OverlookedHasCause` says that nothing else is overlooked);
after a reload both the driver (UNDERFLOW, ArcMSRController.cpp:125) and the
adapter may think it is their turn to use the inbound buffer, and an adapter
whose data was stalled at the stop is never told to go on; a scan's GET_CONFIG
can overwrite STOP_BGRB or FLUSH_CACHE or be taken for their answer, so
StopController may return with the cache not flushed; a message interrupt left
over from before the load can make CTLgetConfig read an old configuration;
`ARCMSR_STATE_MSG0_POSTING` (ArcMSRController.h:112), which looks made for this,
is not used; TerminateController waits for nobody.

## 4. Fairness

* The workloop runs its handlers to the end: weak fairness of the steps of a
  handler, each of which stays possible until it is taken.
* A thread that waits for the command gate gets it if the gate opens again and
  again (the gate is a recursive lock with a queue): strong fairness of the
  steps that need the gate. Steps outside it have weak fairness. That clients
  *start* anything is never assumed.
* `CompleteParallelTask` returns to the driver: strong fairness of `FinishReply`, which
  waits for the requests submitted from inside the completion.
* The adapter is assumed to answer only where a property cannot hold without
  it. `RequestCompletes` says so in its premise: `AnswerFairness`, and
  `DrainsEnd`, that every drain of the reply queue ends. The code does not see to
  the second: the loop at ArcMSRSCSI.cpp:199 holds the gate for as long as the
  queue has words. Without it the property is false. One request that is
  submitted again by each of its completions, and answered before the queue is
  found empty, keeps every other at the gate for ever; so does junk that keeps
  coming. Whether an adapter is ever that fast is not for this model to say.
  `MessageQueue` assumes it reads its doorbell, `Rescan` that it answers
  GET_CONFIG. `CallReturns` assumes only that the superclass's thread runs on. It is never assumed to post messages.
* `ReplyFreesTag` needs the driver's fairness only.
* `Rescan_converges`, `MessageQueue_liveness` and `MessageQueue_safety` set `TimerOwners` to the
  driver alone: they show what the code does when the timer's callback finds
  its owner. `MessageQueue_timer` shows what happens when it does not; for
  `deviceScanStub` the consequence is the same, the scans stop.
* `SendReturns` is checked with one sender. With several the driver wakes all
  and promises none of them anything.

## 5. What is proved

Each theorem holds for every value of the constants that satisfies the module's
named assumption (`SRBEngineAssumption`, `RingBufferAssumption`,
`MessageQueueAssumption`, `RescanAssumption`, `UserClientAssumption`,
`ControllerAssumption`, `SRBAddressAssumption`). Two theorems assume more of the
constants, in their statements: `QueueCorrect` and `OrderKept`. `NothingLost` has
a premise about the behaviour.

**SRBEngine** (`TypeCorrect`, `TagsConserved`, `TagsExclusive`,
`CompletionCorrect`, `LookupCorrect`). The properties are about where a tag can
be, and none is inductive by itself. The invariant `IInv` adds what each
request's program counter says of its slot in the stack (`StackInSync`: live
unless idle or abandoned), of its identifier (`IdentInSync`) and of its tag
(`HandlerHasTag`); that what is posted or queued names a request that is in
process or abandoned and has that tag (`EntriesOwned`), that no request is out
twice (`OutOnce`) and that one in process is out (`InProcessOut`); that an SRB
at the adapter has the target and lun of its request (`SRBsAddressed`), and
that a reply with the error flag has its own outcome in `device_status`
(`ErrorRecorded`), which needs `NoTagShared`: nobody else writes an SRB that is
out. The lemma `RingHasRoom` is a pigeonhole argument: a tag that is not free
leaves room in the ring, so the insertion `returnTag` does not check never
fails, which `TagsConserved` needs. The lookup theorem rests on the arithmetic
of flattened target numbers (division and remainder by eight). That the
adapter's reply leads back to its tag is `TagRoundTrip`.

**SRBEngine, the service** (`SRBService_proofs`: `FramesCorrect`,
`OverrunExplained`, `ServiceImplemented`). `FramesCorrect` follows a frame from
`BuildSRB` to its reply (`FrameBuilt`, `FramesFit`): it stays what its request
needs because by `IInv` nobody else has the tag. `OverrunExplained` is a counting
argument. The stack never has more requests out than there are tags
(`LiveBound`); if no tag is free, each is owned by a request, and if nobody was
given up on and the handler holds none those owners are distinct, live, and not
the one who asks: one more request than the stack allows.

`ServiceImplemented` is the refinement: every behaviour of `SRBEngine`, seen
through `Jobs`, `Answers` and `Report`, is one of `TaskService`. It needs the
invariants of the two theorems before it, `IInv`, and one more conjunct,
`Settled`: the stack has cleared a request it is done with, one it gave up on
is still with the adapter or in the reply queue, and a request submitted inside a
completion finds that completion still under way. There is one lemma per part of
the code, and each says which abstract step it is, or that it is none: that `PostSRB` is a `HandOver` is `FramesFit` and a count of the tags
that are out (`SlotLeft`: the poster's own is not among them); that
`CompleteParallelTask` is a `Complete` of an answer that was in the set, and
that the reply it consumes was the only one of its request, is `OutOnce` and
`EntriesOwned`; that a request turned away is a `Refuse` is `OverrunHasCause`
with `Settled`; that `BuildSRB`, `RecycleTag` of a completed tag and junk
replies change nothing is that nobody else's SRB is touched.

**SRBAddress** (`TagRoundTrip`, `StrayAddress`). Every SRB's address is 32 times a
number below 2^27 (`AddressAligned`), so neither shift loses a bit, the flags
stay above the address (`FlagsApart`), and dividing by the SRB size gives the tag
back (`TagOfAddress`). Outside the pool `getSRBTag` yields -1 or the one tag that
`getSRBPtr` refuses.

**RingBuffer** (`TypeCorrect`, `ContentsCorrect`). `contents` is rewritten
without remainders (`Held`, `Used`, `Wrap`): a sum of two indices wraps at most
once. Then the bytes an insertion writes are those that counting from the head
finds, it touches none that counting from the tail finds, and the copies of a
removal, in one piece or two, are the first bytes of the contents. Unlike the
run the theorem covers every size and block length, including the insertion that
fills the array. `QueueCorrect` is the refinement: if sizes and lengths are
multiples of a block longer than one byte, the contents never come within one
byte of filling the array (`MultiplesApart`), so every step is a step of
`RingQueue`. `InitializeController` makes such a ring of `freeSRB`, four bytes to
a tag (ArcMSRController.cpp:110); it is why `SRBEngine` may use a sequence.

**MessageQueue** (`TypeCorrect`, `InboundTurnKept`, `OutboundTurnKept`,
`SendersWakened`, `ReceiversWakened`, `OrderKept`, `StreamsFlow`,
`NothingLost`), for any number of clients and reloads. `Turns` says where each
direction's turn can be, one alternative excluding the others, and that an
interrupt acknowledges only bits that are still rung (`DoorbellRead`). A reload
may double the inbound turn, or lose the outbound one; `left` says when, and
the invariant promises no more then. `SendersSleepWithCause` is not inductive: a
sender that is refused must know that the driver does not have the turn,
because it has it only with an empty ring (`UnderflowEmpty`).

For the order, each direction rises from the last byte that arrived through the
buffer and the ring to the last one sent (`InRising`, `OutRising`); nothing but
`UnderflowEmpty` and `OutOnce` is needed for it, so it survives clears, reloads
and the exact fill. It is stated for byte numbers that do not start over
(`~Endless`), of which there may be any number.

`StreamsFlow` is an action property of every constant: a step that is not one
of four named losses takes bytes from the front of a stream, or appends new ones
to its end, or leaves it alone. The stream of a direction is the buffer, if it
is unread, followed by the ring, so the theorem is about what passes between the
two: `inboundMQWrite` and `outboundMQRead` move bytes across that
border, and it stays in place only if the buffer that is written was read before
and the one that is read was not. That is `Turns`; with `left` the inbound one may
fail, which is the loss `Overwrites`. The other lemmas are about sequences: how
a ring splits (`RingSplits`), that delivering what is in front and then
appending is again a flow (`Joined`, `Associates`), what a partial
insertion leaves (`InsertAppends`).

`NothingLost` builds on it, for any sizes, lengths and clients, and with numbers that
start over or not: in a behaviour where none of the named losses happens
(`[][~InboundLoss /\ ~OutboundLoss]_vars`: no clear, no reload, no ring filled to its last
byte), every byte is delivered or on its way in its place. A flow keeps a stream of
consecutive numbers consecutive (`FlowKeepsUnbroken`; that modulo `Numbers` is
`ModSuccessor`). Nothing in the code keeps the last byte of a ring free, since `send`
takes any length up to 4096 and the adapter posts what it likes:
`MessageQueue_loss` shows what happens then.

**Rescan** (`TypeCorrect`, `NotificationsHandled`, `StackInStep`,
`UpdatesNoticed`). Each of the first two invariants is inductive together with the type invariant. What the proof needs besides
is arithmetic: distinct units have distinct flattened numbers
(`NumbersDistinct`), so that telling the stack about one target leaves the
others alone (`TellChangesOneTarget`). `UpdatesNoticed` is the action property
`OverlookedHasCause`: a difference of the two maps at a target has, at every
step, a notification or a loop still before it that will find it (`Noticed`), until
the target is saved. Its invariant (`Followed`) is about the window between
the single read of `deviceMapUpdate[target]` and the save: what the interrupt
handler writes there meanwhile is compared with the old map, so either another
rescan is asked for or it *is* the old map. The last case is the one the code
overlooks.

**UserClient** (`TypeCorrect`, `LockOwned`, `ProviderOwned`, `NullUseExplained`).
The properties are about what a connection that is gone leaves behind. The
invariant says where a client's threads can be once `clientClose` has passed
each of its steps: no call of its own is under way while it runs unless it is in
`overlapped` (`CallOverlaps`), no `open` unless it is in `openOverlapped`, and none
begins after it. So once `deactivate` has passed, the flag is not this client's (`GivenUp`).

**Controller** (`TypeCorrect`, `FalseAnswersExplained`, `ConfigAnswerStays`,
`DepthIsRespected`, `ResourcesOutliveHandlers`, `StoppedStaysQuiet`). The
invariant follows the driver's life: `Phases` says what the interrupt mask, the
scan timer and the workloop can be at each place of it, `Resources` that the pool
exists wherever they can be active, `Mailbox` whose commands can be under way,
`Config` that what the poll of CTLinit has seen is in the buffer. What `TypeCorrect`
says of `maxSRB` is all the code gives: at most the limit, and negative for a depth
from 2^31 on. `StoppedIsQuiet`
is an action property and follows from `Phases`.

## 6. What is only model-checked

* Liveness (`ReplyFreesTag`, `RequestCompletes`, `SendReturns`, `RecvReturns`,
  `Converges`, `CallReturns`): fairness and ENABLED are out of the prover's
  reach.

Every other property of a passing run has a theorem.

The prover has no induction over data either. No proof here needs it: rings and
queues change by concatenation and by taking subsequences, and the pigeonhole
arguments cite the library's facts about injections.

## 7. What is not modelled

* Data: CDBs, sense bytes, addresses and lengths of segments, DMA after a
  timeout.
* Which allocation of InitializeController fails (one flag stands for all), and
  failures of memory descriptors on the I/O path.
* A thread still inside `targetRescan` when TerminateController releases the
  event source it runs on, and the message queue's timer after a stop: `Controller`
  has the interrupts and the scan timer, and `StoppedIsQuiet` is about these two.
* A timeout that strikes between SetTimeoutForTask (ArcMSRSCSI.cpp:145) and the
  post: timeouts are seconds long, and `HandleTimeout` excludes it.
* What a pool of a negative size would be (ArcMSRController.cpp:99-101).
* Deadlines of receivers that share the timer.
* SCSI task management and power management only answer; diagnostics,
  ArcTerminal's screen handling and the unused ArcMSRManagement.h have no state
  the driver shares.

## 8. Plan

The parts of section 1.2 that keep state are modelled, every safety property and
action property the runs check is proved, and so is the refinement of
`TaskService`. What is left:

1. A composition of `SRBEngine` with `RingBuffer` that replaces the sequence
   `freeSRB` by the bytes of the ring; `QueueCorrect` and `RingHasRoom` are the
   facts it needs.
2. The end of the rescan thread, in a composition of `Rescan` and `Controller`.
3. Replies whose address lies inside an SRB, which `SRBEngine` assumes the
   adapter does not send.
