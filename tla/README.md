# TLA+ specifications of the ipc_sendfile / ipc_receivefile programs

The repository holds four implementations of one idea: `ipc_sendfile` reads a
file and hands it, buffer by buffer, to `ipc_receivefile`, which writes a copy;
the two are launched independently, in any order, and meet under the name of an
IPC channel. This directory specifies what such a pair promises, models the
implementations as they are coded, checks the models with TLC and proves the
most important results with TLAPS.

* `src/C++_hands_on_programming_NEW` (called NEW): C++17, one handler class per
  IPC method and role, behind `CopyFileThroughIPC::launch()`. The main subject.
* `src/C++_hands_on_programming_RC` (RC): its predecessor, a file class and an
  IPC class related by virtual inheritance.
* `src/C_hands_on_programming_2` (C): two C programs for QNX.
* `src/Rust_hands_on_programming` (Rust): a queue library with stubs of the two
  programs.

## 1. Inventory

| Part | State | Operations | Interacts with |
|---|---|---|---|
| NEW transfer loop, `IpcCopyFile.cpp:199-243` | `fileSize`, the total and the last length | `launch`: connect, header, loop, verdict | one handler; `main` gets its exceptions |
| NEW shared memory, `IpcShm.cpp` | two named semaphores, a named buffer with `data_size` | `connect`, `transferHeader`, `transferData`, destructors | the other program, through the three objects and their names |
| NEW queue, `IpcQueue.cpp` | a named queue of 10 messages, `Rwaiting` and a thread that prints | the same | the other program, through the queue and its name |
| NEW pipe, `IpcPipe.cpp` | a FIFO, a stream with its state, `sigpipe_received`, a thread that opens and one that cancels it | the same, a signal handler | the other program, the two threads of `connect` |
| NEW files and header, `Tools.cpp:196-356` | the streams | `readFile`, `writeFile`, `fileSize`, header | the disk |
| NEW command line and names, `IpcCopyFile.cpp:18-160`, `Tools.cpp:22-188` | protocol, path, names of the channels | parsing, `correctingIPCName`, `compareFileNames`, `checkFilePath`, `enoughSpaceAvailable` | `launch` |
| NEW programs, `bin/*.cpp` | the path to clean up | catch, remove the copy, exit status | the user |
| RC: `ipcCopyFile.cpp`, `IpcShm.cpp`, `IpcQueue.cpp`, `IpcPipe.cpp` | as above, with other protocols | shm ends with an empty chunk; the receiver unlinks and creates its queue exclusively, the sender opens it twice; loops end on a sum of sizes | as above |
| C: `ipc_sendfile.c`, `ipc_receivefile.c`, `ipc_common_file.c` | QNX channel, queue, pipe, shared memory with a semaphore and a mutex | one function per method and role | as above |
| Rust: `queue.rs`, `header.rs`, `tools.rs`, `arg_handler.rs`, `file_handler.rs` | a queue handler, a path, a wheel to print | `create`, `open`, `send_data`, `receive_data`, drop | as above |

What makes these programs hard to test:

* **Two programs without a parent.** Each is launched when its user likes, may
  be killed at any instruction and runs no destructor then. The names of the
  channel outlive it.
* **Shared objects reached by name.** Who creates, who opens, who unlinks, and
  in which order, differs for every method; `O_CREAT` opens what is there.
* **Deadlines on every wait**, so that a program ends when the other is gone:
  each has its own, and they race with a late answer.
* **Data from two sources.** The header carries what `stat()` said, the buffers
  what `read` returned. A file may change in between.
* **The end of the transfer** is a buffer that is not full: an empty one when
  the length is a multiple of the buffer.
* **Threads**: one that prints while the main thread waits (queue, shared
  memory), two that cancel each other (pipe).

What makes each part correct: a receiver that reports success has written the
source, byte for byte; one that fails leaves no copy; the buffer of the shared
memory is used by one program at a time; the names do not outlive a transfer;
every program that was launched ends; two programs that overlap and that nothing
disturbs both succeed.

## 2. The modules

| Module | What it is |
|---|---|
| `FileCopy` | The abstract specification: what the user of a pair may rely on, whatever the method. |
| `CopyFileThroughIPC` | What all methods of NEW share: reading in buffers, the header, the condition of the loop and the verdict of `launch`; the kinds of disturbances. |
| `ShmSession`, `QueueSession`, `PipeSession` | NEW `--shm`, `--queue`, `--pipe`: both programs from launch to exit. |
| `...SessionInvariant` | The inductive invariant of each. |
| `CopyFileThroughIPC_proofs` | Lemmas about the source and its parts, for all proofs. |
| `...Session_proofs` | Proofs of the safety properties of each, and that it implements `FileCopy`. |
| `Programs` | NEW as a whole: the two programs launched with one of the three methods. |
| `RcCopyFile` | What the methods of RC share: the reads, the conditions of the loops, the length checked at the end. |
| `RcShmSession`, `RcQueueSession`, `RcPipeSession` | RC `--shm`, `--queue`, `--pipe`: both programs from launch to exit. |
| `RcShmSessionInvariant`, `RcQueueSessionInvariant`, `RcPipeSessionInvariant` | The inductive invariant of each. |
| `RcPrograms` | RC as a whole: the switch over the methods, disturbed and in calm weather. |
| `RcPrograms_proofs` | Proofs of the safety properties of RC, method by method and as a whole, and that it implements `FileCopy`. |
| `CProgram` | What the methods of C share: `findSize`, reading, `writing`, kills. |
| `CMessage`, `CQueue`, `CPipe`, `CShm` | The four methods of C. |
| `CPrograms`, `CPrograms_proofs` | C as a whole, and proofs of its safety properties. |
| `Arguments`, `Arguments_proofs` | The command lines of all four implementations, up to the launch of a session, and proofs for lines of any length. |
| `RustQueue`, `RustQueue_proofs` | The queue handler of Rust, and proofs about it. |
| `MCShmSession`, `MCQueueSession`, `MCPrograms`, `MCRcPrograms`, `MCArguments` | Channels left by earlier pairs, and command lines, for TLC. |

`ShmSession`, `QueueSession` and `PipeSession` EXTEND `CopyFileThroughIPC`, the
sessions of RC `RcCopyFile`, which EXTENDS it too. Each composes the loop with the
handlers of both sides and INSTANCEs `FileCopy` with a refinement mapping
(`Promise`, at its end). `Programs` and `RcPrograms` INSTANCE the three sessions of
their design over one state; `CPrograms` EXTENDS the four methods of C.
`FileCopy` has four parameters in which the implementations differ: `LeastSize`
(NEW refuses an empty file, RC copies it), `MayStopShort` (may a success mean
that only the announced bytes of a longer source were copied?), `MaxHeld` (the bytes
of the copy a killed receiver takes along) and `MaxLost` (the bytes that closing the
copy may lose after the verdict).

### How a file is represented

Byte number i of the source is the number i, so a copy is intact exactly when it
is the sequence 1, ..., size. Bytes of a header are negative and say which length
it announces (`HeaderByte`); 0 is a byte of neither. `Sizes` are the lengths a
source may have, `BufferSize` stands for the 4096 bytes of the program.

The receivers of NEW and RC write the copy with a stream. A whole buffer goes to
the file at once, but of a shorter piece the stream may hold every byte until it is
closed (`held`; in NEW a count of the last bytes of `out`, in RC with shared memory
the bytes behind `out`). Nobody looks at the result of closing it: with `error` any of
these bytes may be lost then (`ClosedCopies`), and a killed receiver takes them along
(`CopiesOfKilled`). NEW closes the file in the destructor of `Writer`
(`Tools.cpp:273-276`), after the verdict; RC closes it first and compares its length
with the header afterwards (`ipcCopyFile.cpp:267-271`, `IpcShm.cpp:366-370`), so that it
notices.

### What the surroundings may do

The constant `Disturbances` says which of these a run allows:

* `kill`: a launched program disappears between two steps, without destructors;
* `error`: a call that can fail fails, and the program throws;
* `late`: a deadline passes although the other program is alive. Without it a
  deadline passes only when the other program is not running;
* `resize`: the length `stat()` reports is any other one of `Sizes`;
* `clock`: reading the real-time clock fails in the one place where this does
  more than throw (`IpcQueue.cpp:138`);
* `full` (C): `fwrite` writes nothing and the program does not notice, because
  `writing` compares its result with -1.

`RcPrograms` and `CPrograms` have a variable `calm`: when it is true none of these
happens, and the session starts on the channels a pair that ended normally leaves.
So one state space answers both what holds in every weather and what is delivered
in a good one.

### ShmSession and the code

One step per call or access that another program can observe:

| `IpcShm.cpp` | Steps |
|---|---|
| sender `connect` | `SShmCreate`, `SSenderSemCreate`, `SReceiverSemCreate`, `SWaitPeer` |
| sender `transferHeader` | `SHeader`, `SHeaderSize`, `SPostHeader` |
| sender `transferData` | `SWaitTurn`, `SFill`, `SFillSize`, `SPost` |
| receiver `connect` | `RConnectReceiverSem`, `RConnectSenderSem`, `RConnectShm`, `RHello` |
| receiver `transferHeader` | `RWaitHeader`, `RCheckSize`, `RReadHeader`, `RAckHeader` |
| receiver `transferData` | `RWaitData`, `RTakeSize`, `RStore`, `RReset`, `RAck` |
| destructors | `SUnlink...`, `RUnlink...`: the shared memory first, then the semaphores, in the reverse order of the members; last `RCloseCopy` (`~Writer`) |
| `main` of the receiver | `RRemove` |

What `launch` does after a handler returns (refuse an empty file, go on, give a
verdict) belongs to the last step of that handler. The names of the channel are
the set `linked`; a name stands for one object. That is sound because when the
sender creates an object anew the receiver no longer uses the old one: the
conjunct `OneObject` of the invariant. `Leftovers` gives the channels a pair may
start on: any combination of names, values, length and contents that killed
programs can leave.

### QueueSession and the code

| `IpcQueue.cpp` | Steps |
|---|---|
| sender `connect` | `SOpen`, then `SCheck` (the messages are counted after the queue is open) |
| sender `transferHeader` | `SMeasure`, `SSendHeader` |
| sender `transferData` | `SFill`, `SSend` |
| receiver `connect` | `RCreate` |
| receiver `transferHeader` | `RReceiveHeader` |
| receiver `transferData` | `RReceive`, `RStore` |
| destructors | `SUnlink`, `RUnlink`, `RCloseCopy` (`~Writer`) |
| `main` of the receiver | `RRemove` |

`Put` and `Get` are `mq_timedsend` and `mq_timedreceive`: they block while the
queue is full or empty. `PutFails` and `GetFails` are their deadlines,
`SCallFails` and `RCallFails` their errors. The label `stuck` is the receiver
whose thread is never told to stop (`Rwaiting` stays true when `getTime` throws).
A name stands for one queue: only the receiver creates one, and when that makes a
new queue the sender has unlinked the old one and uses it no more (`OneQueue`).

### PipeSession and the code

| `IpcPipe.cpp` | Steps |
|---|---|
| sender constructor | `SLaunch` (the source is opened), `SMake` (`mkfifo`) |
| sender `connect` and `ThreadOpenPipeForWriting` | `SOpen`, `Meet`; `SOpenTimeout` is `ThreadTimer` |
| sender `transferHeader` | `SMeasure`, `SSendHeader` |
| sender `transferData` | `SFill`, `SSend` |
| receiver constructor | `RLaunch`, `RLook`, `RRefuse` |
| receiver `connect` and `ThreadOpenPipeForReading` | `ROpen`, `Meet`; `ROpenTimeout` |
| receiver `transferHeader` | `RReceiveHeader` |
| receiver `transferData` | `RReceive`, `RStore` |
| destructors | `SClose`, `SUnlink`, `RClose`, `RUnlink`, `RCloseCopy` (`~Writer`), `RUnlinkAgain` |
| `main` of the receiver | `RRemove` |

The receiver looks for the FIFO 3000 times, once in 10 ms, but its constructor throws
when it needed 600 attempts (`IpcPipe.cpp:189`): from about 6 seconds on, at the label
`tooLate`, it waits only to refuse the FIFO it finds (`RRefuse`).

`Meet` is the system's: `open` of a FIFO returns in both programs once both call
it. `pipe` holds what was written and not read; its bound `Capacity` stands for the
buffer of the system and that of the receiver's stream. `Write` blocks while there
is no room, `Broken` is SIGPIPE (the handler sets `sigpipe_received`, `sendData`
throws), `EndOfFile` what the receiver reads once no sender has the FIFO open.
`kept` is the last piece when it is shorter than a buffer: the stream may hold it
until the destructor closes it, after the verdict, and nobody looks at the result.
`open` of a name for writing creates a regular file when the name is gone;
`target` says what the sender writes to. A session starts with no name or with a
FIFO that nobody has open; one that starts on a regular file is left out.

### RcQueueSession and the code

| `IpcQueue.cpp`, `ipcCopyFile.cpp` of RC | Steps |
|---|---|
| `QueueSendFile` constructor | `SFind` (until the name can be opened), `SCheck` (the messages are counted), `SOpen` (the name is opened again, to write) |
| `Reader::syncFileWithIPC` | `SMeasure`, `SSendHeader` (which measures once more), `SFill`, `SSend` |
| `QueueReceiveFile` constructor | `RUnlinkOld`, `RCreate` (exclusive) |
| `Writer::syncFileWithIPC` | `ROpenFile`, `RReceiveHeader`, `RReceive`, `RStore` |
| destructors | `SUnlink`, `RUnlink` |
| `catch` in `senderMain`, `receiverMain` | `SRefuse`; `RRefuse` and `RRemove` |

Two queues can play a part: an old one (`old` is the number of its messages, which
nobody reads: the receiver unlinks it first, and the sender only counts them) and the
one the receiver creates. `name` says which of them has the name, `checked` and
`target` what the sender opened the first and the second time. `Apart` is a sender
that writes to the old one. A constructor that throws runs no destructor, so its
exceptions go to `SRefuse` and `RRefuse`, the later ones to `SConclude` and
`RConclude`. The sender's loop ends on the sum of what it has read; when the source
is shorter than it measured it sends empty messages until the queue is full and the
deadline passes.

### RcShmSession and the code

| `IpcShm.cpp` of RC | Steps |
|---|---|
| `ShmSendFile` constructor | `SShmCreate`, `SSenderSemCreate`, `SReceiverSemCreate` |
| `ShmSendFile::syncFileWithIPC` | `SWaitPeer`, `SHeader`, `SPostHeader`, then `SWaitTurn`, `SFill`, `SFillSize`, `SPost` until nothing is read |
| `ShmReceiveFile` constructor | `RConnectSenderSem`, `RConnectReceiverSem`, `RConnectShm` (one attempt) |
| `ShmReceiveFile::syncFileWithIPC` | `ROpenFile`, `RHello`, `RWaitHeader`, `RReadHeader`, `RAckHeader`, then `RWaitData`, `RTakeSize`, `RStore`, `RAck`; `GoesOn` is the condition of the loop, `RCloseAndCheck` what comes after it: the file is closed, then its length is compared |
| destructors | the sender's unlink the semaphores and the buffer, the receiver's `RUnlinkShm` only the buffer |

The receiver does not look at the result of its posts (`RPost`). The transfer goes on
after a piece that is not full, until an empty one, so that the stream of the copy may
hold bytes over several steps: `out` is what is in the file, `held` what the stream
has, `Stored` both. `Leftovers` gives the channel at the start, as for `ShmSession`.

In the queue and the pipe a piece that is not full is the last one, and the file is
closed and its length compared in the same step (`ClosedAfter`).

### RcPipeSession and the code

| `IpcPipe.cpp` of RC | Steps |
|---|---|
| `PipeSendFile` constructor | `SLaunch`, `SMake`, then `SOpen` and `Meet` (`OpenThread`), `STimer` and `SGiveUp` (`TimerThread`), `SCrash`, `SOpened` |
| `Reader::syncFileWithIPC`, `PipeSendFile::syncIPCAndBuffer` | `SMeasure`, `SSendHeader`, `SFill`, `SSend` |
| `PipeReceiveFile` constructor | `RLook` (twice a second), `ROpen` and `Meet`, without a deadline |
| `Writer::syncFileWithIPC`, `PipeReceiveFile::syncIPCAndBuffer` | `ROpenFile`, `RReceiveHeader`, `RReceive`, `RStore` |
| destructors | `SClose`, `SUnlink`, `RClose`, `RUnlink` |
| `catch` in `receiverMain` | `RRemove` |

The constructor starts `OpenThread` before it creates the timer (`IpcPipe.cpp:98-99`),
and `OpenThread` cancels the timer when `open` has returned or failed (lines 45-52).
Until `STimer` (the label `untimed`) `info.timer` holds anything: when a receiver is
already waiting at the FIFO `open` may return so early, and then either nothing is
cancelled (`Meet`) or the sender crashes (`SCrash`). A timer that was not cancelled only
delays the sender, which joins it. `pipe`, `kept`, `Meet`, `Broken` and `EndOfFile` are
as in `PipeSession`. A sender
whose timer fires closes what it may have opened and unlinks the name; a receiver
that finds no name leaves the channel alone.

### The C programs and the code

| Module | Code | Steps |
|---|---|---|
| `CProgram` | `findSize`, `writing`, `main` | `FindSize`, `Read`, `Write` (ignores what `fwrite` returns), `SKill`, `RKill` (which may lose what the stream of the copy holds: `lost`) |
| `CMessage` | `ipc_message` of both programs | the receiver attaches, opens, receives, reads, writes, replies; the sender locates, reads, sends and is blocked until the reply; the pulse of a client that is gone ends the copy |
| `CQueue` | `ipc_queue` of both programs | the receiver opens or creates; 30 seconds without a first message end it, one second without a next one ends the data (`QueuePause`) |
| `CPipe` | `ipc_pipe` of both programs | no header; the receiver reads until it gets a first byte, then until the end of the file; a read that fails gives -1 for ever (`spin`) |
| `CShm` | `ipc_shm` of both programs | the sender unlinks an old object and creates one, sets a flag, creates or opens the semaphore; both wait for, lock, use, unlock and post the same semaphore |

The length is an `int`: `AsInt` wraps at `2 * IntHalf`. In `CShm` a disturbed session
starts on what killed and failing senders leave. The old object has a flag, a text and
a mutex of its own, which a killed program may hold for ever (`"dead"`); the sender
unlinks it, but a receiver may have mapped it (`mapped`) before. The semaphore has no
`O_EXCL`: one that has the name keeps its value, which is `left`, one of `LeftTurns`
(`ipc_sendfile.c:376`). A sender that fails unlinks the object and leaves the semaphore
(`ShmUnlinkAndExit`). What a failing read leaves in the buffer is `Garbage`, and
`MaxStored` bounds how often the receiver stores it. Closing and unlinking a queue
(`QueueUnlink`) may fail: the receiver then ends with a failure and the name may stay.

### Arguments and the code

A token is a record of what the parsers look at: its text (less the current directory
or the slash in front), whether it begins with a
dash or a slash, where its last slash is and how long it is. `Init` chooses the
program, the role and a line. Each implementation has one action per round of its
loop (`NewOption`, `RcOption`, `COption`, `RustOption`), one for the end of the loop
and one for what `main` does then (`NewLaunch`, ...). `correctingIPCName`,
`FileFits` (`checkFilePath`), `SameName` (`compareFileNames`) and
`enoughSpaceAvailable` are operators, the last one with numbers modulo `Modulus`.
`Complete` puts the current directory in front of a name that does not begin with a
slash, as `compareFileNames` does. `FileFits` counts the slash as a character of the name
behind it, as `checkFilePath` of NEW and RC do; `PathRoom` is what either leaves for the
directory. `NewRefuses` and `RcLaunch` contain the handlers of exceptions that remove the
copy; RC gets there with every path it refuses, of which the system takes those that
satisfy `CanExist`. An action ends with
`exit`: `"launch"`, or how the program ends. Options are spelled out; that
`getopt_long` takes abbreviations is left out.

What is assumed of the constants: `CommandLinesAssumption` says that the lines consist
of tokens that agree with themselves (`Plausible`: what begins with a dash is one of the
options, a last slash is one of the characters, and one in front is the first) and are
not empty strings, since the programs use an empty path for one that was not given.
`ArgumentsAssumption` says that the default names fit with what a semaphore's name needs
beside them (`NAME_MAX` is at least `SemSuffix + 8`), that the current directory is
shorter than `PATH_MAX`, and that a buffer is at most half of what a `size_t` counts,
without which the sum of `enoughSpaceAvailable` in RC wraps; lengths are below that
half, as `off_t` is signed.

### RustQueue and the code

`create`, `open`, `send_data`, `receive_data` and `drop` of `queue.rs`, for any number
of handlers of one name. The calls that wait have two steps, the call and its return; in
between other handlers act, but a handler that waits is not dropped, because it is
borrowed. `Insert` is the order of a queue of the system: behind the messages of the
same and of higher priorities. `name` is the queue that has the name (0 for none),
`queue_` and `mode` are the fields of a handler. `sent`, `taken` and `dropped` are
history variables.

## 3. Properties and runs

| Run | Instance | Checks |
|---|---|---|
| `shm_disturbed` | buffer 2, lengths 0..5, all disturbances but `clock`, every channel without a message | `TypeOK`, `IInv`, `TurnTaking`, `ExactCopy`, `NamesUnlinked`, `Terminates`, `KeepsPromise` |
| `queue_disturbed` | buffer 2, capacity 2, lengths 0..8, all disturbances, no queue or an empty one | `TypeOK`, `IInv`, `ExactCopy`, `NameUnlinked`, `Terminates`, `KeepsPromise` |
| `pipe_disturbed` | buffer 2, capacity 3, lengths 0..9, all disturbances but `clock`, no name or a FIFO | `TypeOK`, `IInv`, `ExactCopy`, `NameUnlinked`, `Terminates`, `KeepsPromise` |
| `pipe_unopened` | buffer 2, capacity 2, lengths 0..3, no disturbance | `OpenedInBothSides` is violated |
| `timely` | NEW, each method: buffer 2, queue of 2, pipe of 5, lengths 0..12, no disturbance | `Delivered` |
| `old_message` | NEW, channels with messages, buffer 2, lengths 0..5 | `OldMessageCaught` is violated |
| `rc_disturbed` | RC, each method: buffer 2, queue of 2, pipe of 3, lengths 0, 1, 4, 7, all disturbances but `clock`, and none in calm weather; any names without a turn, queues with up to one old message, a FIFO | `TypeOK`, `TurnTaking`, `SessionInvariant`, `FifoOpened`, `ExactCopy`, `NamesUnlinked`, `Terminates`, `Delivered`, `KeepsPromise` |
| `rc_pipe_waits` | buffer 2, capacity 3, lengths 0..3, no disturbance | `ConnectingEnds` is violated |
| `c_disturbed` | C, each method: buffer 2, lengths 0, 1, 2, 4, 5 (5 is 2 GiB: `IntHalf`), queue of 2, pipe of 3, semaphores left with 0 or 1, at most 6 bytes stored from shared memory, `kill`, `error`, `full`, `late`, `resize`, and none in calm weather | `Acknowledged`, `CopyIsPrefix`, `OneTurn`, `Delivered` |
| `c_shm` | length 3, no disturbance | `ShmCopied` is violated |
| `arguments` | every line of up to 4 tokens of 15, `NAME_MAX` 12, `PATH_MAX` 20, a current directory of 4 characters, 3 more for a semaphore, buffer 2, sizes modulo 8, for both roles of the four implementations | `Understood`, `NamesUsable`, `FileSpared`, `SpaceChecked` |
| `rust` | 2 handlers, 2 priorities, queues of 2, 2 queues, 3 messages | `NamedQueueIsHeld`, `Together`, `TakenOnceInOrder` |

* `TurnTaking`: at most one program uses the buffer, and no turn is offered while one is
  taken. The accesses of the two programs never race.
* `ExactCopy`: when a receiver decides on success it has written the source, even if the
  file changed between `stat()` and the reads, the sender was killed, or the queue was
  unlinked under it. In NEW the decision comes before the file is closed: what is in the
  file when the program has ended may lack less than a buffer, and only if the disk
  fails. For a pipe and for RC it says less: the copy is the first bytes of the source,
  as many as the header announced. In a pipe a sender that is killed leaves the end of
  the file, and when the source has grown after `stat()` that end may come exactly where
  the header says. The queue of RC is told the length and looks for no end after it.
  With the shared memory of RC an empty piece ends the transfer, so that the announced
  bytes are all of the source, unless the header was wrong and closing the file has lost
  exactly what it was wrong by. In RC the statement is about the closed file.
* `NamesUnlinked`, `NameUnlinked`: the channel does not outlive a transfer, unless both
  programs are killed. In the shared memory of RC the semaphores stay when only the
  sender is killed.
* `SessionInvariant`: the inductive invariant of the RC session in use, which the proofs
  about it rest on.
* `FifoOpened`: in RC nobody unlinks the FIFO between `mkfifo` and `open`, so that what
  `pipe_unopened` shows of NEW cannot happen.
* `Terminates`: a launched program ends. The exceptions are stated in it: in NEW a
  receiver of a queue for which reading the clock fails waits for its thread (`stuck`);
  in RC a receiver may wait in `open` of a FIFO, and both programs go on for ever when
  the source became shorter after it was measured and the channel is a pipe.
* `Delivered`: two programs that overlap and that nothing disturbs both succeed: in NEW
  with a file that is not empty, in RC and C with any, but for C an empty file in a pipe
  and a file of 2 GiB or more. It does not speak of a receiver of a pipe of NEW that has
  waited for 6 seconds (`tooLate`), nor of a sender of a pipe of RC that has crashed
  over its timer. Of C's shared memory it says only that the programs end, once both
  have the semaphore (what it copies is `c_shm`).
* `KeepsPromise`: the session implements `FileCopy`. It says in particular that the copy
  only grows by the next bytes of the source, that a receiver that fails leaves no file,
  that a receiver that succeeds has been told how many bytes to write and has written
  them (`MaxLost` is what closing the file may take from them in NEW: nothing without
  `error`, otherwise less than a buffer), and that a sender that succeeds is ahead of
  the copy by at most one buffer (shared memory), the queue and one buffer (queue), or
  the pipe and the buffers of both programs (pipe). For the pipe `FileCopy` is
  instantiated with `MayStopShort` when the source may grow, and a sender that has
  written a regular file counts as one that failed, whatever it reports: that it reports
  a success is `pipe_unopened`. In RC a sender compares nothing at the end, so its
  success counts when the length it measured was right; with shared memory it waits for
  the answer to its last piece, and what the stream of the copy holds of it, less than a
  buffer, is then all that is not in the file. The promise is what the code gives, which
  is less than the documents say of killed programs and full disks (see below).
* `Acknowledged` (C, messages): a sender that succeeds knows of a whole copy, because
  the receiver replies after it has written. `CopyIsPrefix`: by message, queue and pipe
  nothing is stored that is not the next byte of the source, unless a write failed.
  `OneTurn`: a session of the shared memory adds at most one turn to those its semaphore
  was left with. A new semaphore, as after every pair that has ended normally, never
  gives two; one that a killed or failing sender has left may.
* `Understood`: what is launched is what the line says, read as a whole: the token after
  `--file` is its value, the others that look like options are options. `NamesUsable`: a
  queue or shared memory of NEW gets the name that was asked for, with a slash in front,
  whenever the system takes it and it has at most `NAME_MAX` characters; any other
  session has the default name, which the system takes, or the name that was asked for
  as it is: `/` alone, or one too long for the semaphores that are named after it
  (`getSemName`, `Tools.cpp:181-188`). The system refuses these later, in `connect`.
  `FileSpared`: a receiver that refuses its line removes no file, with two exceptions:
  in NEW one that has the name of the channel, both completed with the current
  directory; in RC one that is written with a directory and whose name has exactly
  `NAME_MAX` characters. `SpaceChecked`: unsigned subtraction never lets a sender start
  on a disk that is too full.
* `NamedQueueIsHeld`, `Together`, `TakenOnceInOrder`: Rust's handlers never leave a name
  without a holder, have the same queue until one of them is dropped, and take every
  message once, in order.

Why the bounds suffice: the protocols distinguish an empty file, one shorter
than a buffer, a multiple of the buffer and a remainder; the lengths contain all
of them with at least two full buffers and, for the queue and the pipe, more than they
can hold together with the buffers of the programs. The state graphs are finite
without any constraint: the bytes written are bounded by the source, by the length
announced in an old header, or by `MaxStored`. Four tokens are a method, its value,
`--file` and its value, or what is in the place of one of them. Two handlers of Rust
can create, open and drop behind each other's back; a third message fills a queue
that has refused or lost one.

**Fairness** is weak fairness of the steps of each program: the operating system
runs a program that can run. Nobody has to launch or to kill a program, and no
blocking call has to fail: `SWaitFails`, `RWaitFails`, `SCallFails`,
`RCallFails`, `SKill` and `RKill` have no fairness, so that no property holds
because an error came to its rescue. A wait has a fair step if it can return (the
object is there, the semaphore is positive, there is room or a message) or if its
deadline can pass: the code gives every wait one (`semConnect`, `semWait`,
`SendQueueHandler::connect`, `mq_timedsend`, `mq_timedreceive`). Without `late`
a deadline passes only when the other program is not running, so `Delivered`
assumes that no program is slower than the 30 seconds it is given; for the receiver of a
pipe of NEW these are 6 seconds, from its launch to that of the sender. In a pipe only
the search for the name and the opening have a deadline; a write or a read is fair
when there is room, data, SIGPIPE or the end of the file, so `Terminates` shows that
the programs let go of each other without one. `Meet` is weakly fair because the
system completes an `open` whose other end is being opened. The C programs are
strongly fair: with one semaphore for both, a program that waits is again and again
able to go on without being so for ever, and the kernel wakes the one that has waited
longest.

Deadlock is not checked in `c_disturbed` and `c_shm`: many calls of C have no
deadline, so a program whose partner is killed or never launched waits for ever.

### What disagrees with the documentation

* `Readme.md:74` of NEW, "IPC Channel already exists - if empty the programs will
  continue, if there is some message on it EXIT_FAILURE": a receiver takes the old
  messages of a queue for its file, and a pair can succeed on an old message in
  shared memory (`old_message`).
* `IpcPipe.cpp:106` of NEW prints "Pipe is opened in both sides." although the sender
  may have created a regular file: a receiver that gives up unlinks the FIFO after
  `mkfifo` and before `open` (`IpcPipe.cpp:73`). The sender then writes the source
  into that file, unlinks it and exits with success (`pipe_unopened`). The
  test of line 99 does not catch it: the stream is open.
* `Documentation/Error_Handling.md:36` of RC says that programs of which only one is
  launched "will try to connect between them for 30 seconds. After, the programs will
  end with EXIT_FAILURE". A receiver that finds a FIFO left by a killed pair opens it
  without a deadline (`IpcPipe.cpp:191`) and waits for ever (`rc_pipe_waits`).
Further disagreements have no run of their own; the properties are stated so that they
allow them, and the comments at their definitions say so.

* `Readme.md:73` of NEW, "Killing a program while running - EXIT_FAILURE for the other
  program", and `Documentation/Error_Handling.md:41-42` of RC, "The program will end with
  EXIT_FAILURE after 30 seconds". The survivor may succeed: a sender is done once its
  last bytes are in the channel (NEW: a last buffer in shared memory, up to a whole queue,
  what the pipe and the stream hold; RC: a queue and a pipe), and a receiver needs no more
  than those bytes. With a pipe the survivor notices at once and not after 30 seconds.
  This is `Complete` and `Accept` of `FileCopy`, which ask nothing of the other program.
* `Readme.md:76` of NEW, "Not enough space in the disk - EXIT_FAILURE". The space is
  compared before the transfer; when it runs out while the stream of the copy is closed
  the receiver has already decided on success, and nobody looks at the result
  (`Tools.cpp:273-276`). This is `RCloseCopy`.
* `Documentation/Error_Handling.md:51-54` of RC: with old messages in the queue
  "ipc_receivefile will throw only because ipc_sendfile won't connect". The receiver
  unlinks an old queue and creates a new one (`RUnlinkOld`, `RCreate`), and a sender
  that is launched after it sends to the new one: both succeed. A sender that was first
  does throw.
* The loop of the receiver of NEW's pipe waits for the FIFO for 30 seconds, but what it
  finds after 6 it refuses (`IpcPipe.cpp:189`, `RRefuse`), and its destructor unlinks the
  name of the sender.
* RC's thread that opens the FIFO may cancel a timer that does not exist yet
  (`IpcPipe.cpp:98-99` and 45-52, `SCrash`).
* `Documentation/Error_Handling.md` of RC and `ipcCopyFile.cpp:22-29`: a name of 255
  characters is accepted alone, and refused after a directory because the slash is
  counted; the receiver then removes the file of that name (`ipcCopyFile.cpp:425`,
  `FileSpared`).
* `Readme.md:66-68` of NEW and `printInstructions` (`Tools.cpp:102`) give `NAME_MAX` as the
  limit of the name of a channel. The name `/` passes every test, and the names of the two
  semaphores of a shared memory are longer than its own: both are refused by the system
  (`NamesUsable`).
* In C a semaphore that a killed or failing sender has left gives its turn to the next
  pair, in addition to the pair's own (`ipc_sendfile.c:376`, `OneTurn`).

The last disagreement is again shown by a run.

* In C with `--shm` one semaphore serves both directions: after its first post the
  receiver may take its own turn before the sender does, finds a length of zero, says
  "All data received." and exits with success on an empty copy (`c_shm`,
  `ipc_receivefile.c:483`).

## 4. Proofs

The theorems hold for every buffer size, set of lengths, set of disturbances and
set of left-over channels that satisfies the assumptions named in the modules
(`BufferSizeAssumption`, `SizesAssumption`, `DisturbancesAssumption`,
`LeftoversAssumption`, `CapacityAssumption`, `QueueLeftoversAssumption`,
`PipeLeftoversAssumption`, `RcProgramsAssumption`, `CAssumption`, `ShmAssumption`,
`RustQueueAssumption`, `ArgumentsAssumption`, `CommandLinesAssumption`).

| Theorem | Statement |
|---|---|
| `ShmSession_proofs`, `QueueSession_proofs`: `TypeCorrect` | `SafetySpec => []TypeOK`, on every channel |
| there: `InvariantHolds` | `Quiet => (SafetySpec => []IInv)` |
| there: `TurnsAreTaken`, `CopyIsExact`, `NamesAreUnlinked` or `NameIsUnlinked` | the safety properties, on a quiet channel |
| there: `SessionKeepsPromise` | `Quiet => (SafetySpec => KeepsPromise)` |
| `PipeSession_proofs`: the same four kinds | without `Quiet`: on every channel a session can start on |
| `RcPrograms_proofs`: `TypeCorrect` | `ChannelsKnown => (Spec => []TypeOK)` |
| there: `InvariantHolds` | `NoTurnLeft => (Spec => []SessionInvariant)` |
| there: `TurnsAreTaken`, `CopyIsExact`, `NamesAreUnlinked` | `NoTurnLeft => (Spec => []TurnTaking)`, and the same of `ExactCopy` and `NamesUnlinked` |
| there: `FifoIsOpened` | `Spec => []FifoOpened`, without a hypothesis |
| there: `PromiseIsKept` | `NoTurnLeft => (Spec => KeepsPromise)` |
| `CPrograms_proofs`: `CInvariantHolds` | `Spec => []CInvariant` |
| there: `CopyIsPrefixHolds`, `AcknowledgedHolds`, `OneTurnHolds` | `Spec => []CopyIsPrefix`, and the same of `Acknowledged` and `OneTurn` |
| `RustQueue_proofs`: `NameHasHolder`, `HandlersAreTogether`, `MessagesTakenOnceInOrder` | `Spec => []NamedQueueIsHeld`, and the same of `Together` and `TakenOnceInOrder` |
| `Arguments_proofs`: `ArgumentsInvariantHolds` | `Spec => []ArgumentsInvariant` |
| there: `UnderstoodHolds`, `NamesUsableHolds`, `FileSparedHolds`, `SpaceCheckedHolds` | `Spec => []Understood`, and the same of `NamesUsable`, `FileSpared` and `SpaceChecked` |

`Quiet` says that no semaphore of the channel is positive at the start, or that
the queue is empty. It is necessary: `old_message` shows behaviours without it.
`RcPrograms` assumes nothing of what a pair may find in shared memory, so that this is
a hypothesis: `ChannelsKnown` says that the left-overs are of the form killed programs
leave, `NoTurnLeft` that they hold no turn, as in the run. For the queue (with old
messages) and the pipe nothing is assumed beyond `RcProgramsAssumption`: a queue has
between none and all of the messages it can hold, a name stands for a FIFO if for
anything, and a pipe holds at least a buffer.

**Shared memory.** None of the safety properties is inductive. `TurnTaking` holds before
the receiver's hello only because there is no turn at all then, so `OneTurn` counts
turns against the receiver's position; that the sender passes `waitPeer` only after the
hello, and creates no semaphore after the receiver has posted one, are `InStep` and
`OneObject`. `ExactCopy` needs to know what the buffer holds and for whom: from the
moment the header is posted until it is read (`HeaderPhase`), and while a buffer of data
is loaded, offered, taken and stored (`DataPhase`): then the buffer holds the bytes that
follow those already stored, and a buffer that is not full ends the source. `Results`
turns the verdicts into `announced = size` and, until the file is closed, `Len(out) =
size`. `Held` bounds what the stream of the copy holds: nothing before the last piece,
and less than a buffer after it. That is why `ExactCopy` and the promise may say how
much closing it can lose. `NamesGone` says which names the destructors have removed. The
invariance proof has a lemma per group of actions and one step per conjunct that a group
can disturb. The refinement proof maps each step of the session to a step of `FileCopy`
or a stutter with the help of the invariant.

**Queue.** The sender is up to a queue ahead, so the invariant describes all the
messages on the way. `Chained`: each is a piece of the source, as long as
`readFile` makes it, that begins where the one before ends. `HeadFits`: the first
is the header, or begins where the receiver stands. `TailFits`: the last ends
where the sender goes on, and all are full buffers as long as it does. Storing a
piece therefore extends the copy by the next bytes of the source, and a piece that
is not full ends it, which gives `ExactCopy`. `Ahead` bounds the distance by the
capacity, which the refinement needs when the sender succeeds. `OneQueue` says that
a program never uses a queue the receiver is about to replace, `NothingSent` that
there is nothing to receive before the header was sent, `NameGone` who has unlinked
the queue. The proof has a lemma for each way the messages change (`HeaderPut`,
`BufferFilled`, `PiecePut`, `HeaderTaken`, `PieceTaken`, `PieceStored`) and two for
the steps that leave them alone (`SenderRests`, `ReceiverRests`).

**Pipe.** A pipe has no messages: what is on the way is one sequence of bytes. While
the two programs are connected it is the header, if that was not read, followed by
the source from where the receiver stands to where the sender is, less what the
stream keeps (`InTransit`). A sender that failed or was killed leaves a part of it,
but only the end can be missing, which is why the end of the file is safe. `OneName`
says what the name stands for and who has it open, `NothingSent` and `Produces` what
each program has before and while it transfers, `Ahead` how far the sender can be.

**RC.** `RcPrograms_proofs` has a section for each session and one that joins them.
Every session is an instance of its module over the state of `RcPrograms`, so that
its lemmas are about the formulas the run checks.

*Shared memory.* Posts of the receiver can fail without notice, so there may
be no turn left: `OneTurn` is an upper bound here. The transfer ends with an empty
piece, so the invariant says what an empty buffer means (`lastRead = 0` only at the
end of the source), and that a receiver that has stored an empty piece is done. The bytes
in the file and those in its stream together are the prefix of the source (`Stored`); the
stream holds some only when they are the end of the source (`Prefix`).

*Queue.* The sender may have found the old queue, looked at its messages, and opened
the name again when it stands for the new one, or opened it before the receiver unlinked
it: `TwoQueues` says which of the three (`name`, `checked`, `target`) may differ and
when. `InTransit` names every message of the new queue by the place it has: the header
first, then the piece that begins where the receiver stands, and so on, the empty ones
after the end of the source included, since a sender that measured too much goes on.
A sender that writes to the old queue is bounded by the messages in it. To be inductive
the invariant needs more than the properties ask for: that what the receiver has stored
is a multiple of the buffer as long as it receives, that a sender that opens the old
queue has found it empty, and that a receiver has a header only after the sender
has sent one.

*Pipe.* `InTransit` as for NEW, with the header as one buffer; what the stream keeps is
the end of the source and is lost when the programs part. `OneName` gives `FifoOpened`:
a receiver that gives up leaves the name alone, so that until the two have met only the
sender unlinks it. This half needs no hypothesis about the channel.

*The programs.* What a program does in calm weather it may do in any weather:
`ShmCalm`, `QueueCalm` and `PipeCalm` show, action by action, that a step of the
session without disturbances is one of the session with them (`size` is one of
`Sizes`, which a `stat()` without disturbance needs). So one induction covers both
values of `calm`, and `StepsAre` gives each method its own steps. The refinement is
proved for the method in use: the next-state relation of `FileCopy` holds of its
mapping in every step, and the methods do not change.

**Rust.** `NamedQueueIsHeld` is not inductive: `create` may give a handler a queue it
had no part in making. `HolderInv` adds that until a handler is dropped all queues in
use are the named one, and that the drop of any handler takes the name away.
`TakenOnceInOrder` needs the order of what is still in a queue: `Ordered` says that a
message comes before another one when its priority is higher, or the same and its
number lower, and that no taken message of a priority is younger than one of it that
waits. The lemmas about `Insert` describe the new sequence by its places, so that no
recursion over the messages is needed.

**C programs.** `CInvariant` has a part per method. For messages `Answering`: a receiver
works at a message only while its sender waits for the reply or has given up, so that the
sender that sees success has been answered after everything was written
(`StoredMessages`). For the queue the messages are pieces of the source without a gap:
there is a sequence of cuts, from the end of what is stored to the end of what was sent
(`QueuedPieces`), and every put and get names the cuts of the new queue. `TurnsGiven`
counts the turns of the one semaphore, whoever has them, beside those that were left.

**Command lines.** A line is understood as a whole, the programs read it token by token.
The two meet in `ValueNext`: token i + 1 is the value of `--file` exactly when token i is
`--file` and no value itself, which is the parity `IsValue` counts. With it the loop
invariant says that the file is the value that was passed last, the protocol the method
that was passed last, and that the next token is not a value (`ReadAt`). At the end of
the loop the tokens that were passed are all of them, and `Understood` follows; that NEW
and RC stop early only at lines that are not well-formed is the other half. A greatest
element, of the last value or method, exists because intervals that begin at an element
are well-founded (`GreatestExists`). `ChannelInv` says the same of the channel of NEW: it
is what the corrections make (`Chosen`) of the token behind the method. `NamesUsable`
follows from it and from a comparison of the corrections with what the system takes.
`FileSpared` rests on `FileInv`: the path RC refuses is a token of the line.

Every safety property a passing run checks is also a theorem. Only model-checked are the
liveness properties (`Terminates`, `Delivered`): they need fairness, and what is ENABLED
is out of the reach of the prover. `Programs` (NEW as a whole) is checked for
`Delivered` alone; the safety of its three sessions is proved in their modules. What the
four violated properties show is a behaviour of the model, found by TLC. On channels of
NEW that hold old messages type correctness is proved and one property refuted
(`old_message`); nothing else is claimed there.

## 5. Plan

1. *Done*: NEW, its three methods, their composition and their proofs.
2. *Done*: RC, its three methods and their composition, and proofs of all its safety
   properties.
3. *Done*: C, its four methods; the command lines; the queue of Rust.
4. Left: `ShmLaunches`, sessions that follow or overlap one another under one name,
   with the identity of the objects behind a name: destructors of an old pair
   and objects of the new one (`IpcShm.cpp:11`).
5. *Done*: proofs about C, the command lines and the messages of Rust's queue.

## 6. Not modelled

* Successive or overlapping pairs under one name: a session is one pair on a channel
  that earlier pairs left.
* A pipe session that starts on a regular file of that name; two programs that are
  given different methods.
* In C: old messages in a queue, and messages of other QNX programs. Rust's handlers that
  are never dropped because their program was killed.
* In RC: a turn left in a semaphore (`IpcShm.cpp:275`); the runs start without one.
* Short spellings and abbreviations of options; access rights; printing, the wheel
  and its thread beyond the wait of the destructor; the wording of errors; the
  conversion of the header to bytes beyond the fact that it can be read back.
* Rust's `header.rs`, `file_handler.rs` and the functions of `tools.rs` that only tests
  call: no program uses them.
* The tests and the build files.

Six hazards have no property: a clock that fails in a wait of NEW's queue
(`IpcQueue.cpp:138`, modelled as `stuck`, which `Terminates` excepts), a second
session under the same name (`IpcShm.cpp:11`), the first byte an empty file never
sends (`ipc_receivefile.c:385`, which `Delivered` excepts), a length of 2 GiB and
more (`ipc_sendfile.c:104`, the same), a turn left in a semaphore of RC
(`IpcShm.cpp:275`, not modelled), and a message of Rust that is refused for its
priority, which `TakenOnceInOrder` counts as taken (`queue.rs:103`).
