# Verification of the serial port library, of Serial over Ethernet and of the com0com setup

This directory keeps TLA+ models of the programs of this repository, the TLC runs that check them on small instances, and
theorems about them that TLAPS checks for every value of the constants. The models are translated from the source; where
a comment of the source and its code disagree, the model follows the code and a run shows the disagreement.

    tlasany M.tla                       parse
    tlc -config X.cfg MCM.tla           check a run (the table below names module and cfg)
    tlapm M_proofs.tla                  check the proofs of a module

`PROJECT.json` is the machine-readable index: components, runs, the mutant that each property has to refute, the lines
every definition stands for, findings, hazards and theorems.

## 1. Inventory

The repository has a serial port library in C++ (`src/SerialPortAccess`), its Java binding (`src/JSerialPortAccess`),
a terminal (`src/TerminalSerialAccess`) and *Serial over Ethernet* (`src/SerialOverEthernetTCP`, "SoE"), which joins two
serial ports of two computers over TCP. SoE and the terminal use the library; SoE also uses `netsocket`, a submodule whose
source is not part of the repository. `src/Com0Com` holds the Windows program `setup` of com0com, the driver of pairs of linked virtual
ports (the driver itself is there as a binary only): half of the repository's code, sequential, but made of long sequences of calls that each may
fail, that a user may cancel or repeat, and whose effects outlive the process.

| Component | State it keeps | Operations | What makes it correct |
|---|---|---|---|
| Link handler, `soelinkhandler.cpp`, `soeconnection.hpp` | socket, `localPort`, `m_localPort`, `remoteReturn`, `m_remoteReturn`, two condition variables, two threads | `openLocalPort`, `closeLocalPort`, `setLocalConfig`, `openRemotePort`, `setRemoteConfig`, `shutdown`, the loops of the RX and TX thread, the destructor | The open handle of the device is never lost; a port that opens is read; a request that is confirmed has been done; a caller of a remote method gets its answer or its timeout; threads end after the socket is closed, so that the destructor returns |
| Protocol, `soeprotocoll.cpp` | none of its own | one `process…` and `send…` function per package | each request is answered once, by the result of the local call |
| Framing, `transmitPackage`, `handleClientRX` | `m_socketTX`, a receive buffer of 512 bytes | header and payload sent under the mutex; header and payload received in two loops | packages arrive whole, once and in order; the buffer is not overrun; the loop ends with the connection |
| SoE process, `soemain.cpp` | list of handlers, its mutex and condition variable | `createConnectionHandler`, `cleanupDeadConnectionHandlers`, `linkRemotePort`, accept loop, wait of a client | each handler is deleted once, after its threads ended; a client process ends after its last link |
| SoE command line, `soecli.cpp` | none | `interpretFlags`, `mainCPP` | each flag reaches the configuration it names |
| Serial port, Linux, `serial_port_lin.cpp` | descriptor, poll sets with one eventfd each, three timeouts, a shared `termios` | open, close, configuration, timeouts, read, consecutive read, write | a read without time limit returns bytes; `closePort` releases a blocked reader; timeouts and device agree |
| Serial port, Windows, `serial_port_win.cpp` | a `HANDLE` and its `COMMTIMEOUTS` | the same | the same |
| JNI binding, `serial_port_jni.cpp`; Java `SerialPort` | a pointer held in a Java object | one native function per method | no use after `dispose` |
| Java streams, `SerialPortInputStream/OutputStream.java`, `SerialPort.java` | a buffer and a position in each stream; the port both use | `read`, `write`, `flush`, `close`, `readData`, `writeData` | every byte once, in order; a port lost to the writer ends the wait of the reader |
| Terminal, `serialportterminal.cpp` | `shouldTerminate`, the port | input loop, reception thread | the reception thread ends when the input does |
| com0com, COM port arbitration, `comdb.cpp` | the bits of ComDB (shared with every installer of the machine), setup's own log in the registry | `ComDbSync`, `ComDbClaim`, `ComDbRelease` | setup claims the numbers its ports use and no others, and never gives back a number of somebody else, wherever it is stopped |
| com0com, pairs of ports, `setup.cpp`, `devutils.cpp`, `portnum.cpp` | bus devices and their numbers, port names in the registry, names given by the Ports class, friendly names | `install`, `change`, `remove` | names are unique and claimed; a failed installation leaves no device; every command ends in a sync |
| com0com, driver, `setup.cpp`, `devutils.cpp`, `inffile.cpp` | devices enabled and disabled, INF files of Windows, service, keys, files, a stack of disabled devices | `reload`, `update`, `disable all`, `enable all`, `preinstall`, `uninstall`, `infclean` | an installed device keeps its driver; what setup disabled it enables again, and nothing else; a silent command ends |
| com0com, parameters, `params.cpp` | values of a port in the registry; an object with masks of explicit and changed values | load, parse, save, list | what is saved is what was asked for; the listing reproduces the port |
| com0com, messages and utilities, `msg.cpp`, `utils.cpp` | silent mode, console | dialogs, lists, masks | part of the callers |
| Native loader, systemd unit, com0com driver | – | file handling, service start, binary | out of scope |

How they interact: the TX thread of a handler blocks in `SerialPort::readBytes` and sends what it gets with
`transmitPackage`; the RX thread receives packages and, as their handler, opens, closes, configures and writes the same
port, answers with `transmitPackage`, and wakes the thread that waits in `openRemotePort`. The main thread creates handlers,
performs the handshake of a client and later deletes handlers. `shutdown` can be run by any of the three threads. Shared
state is therefore reached by up to three threads, and the library below takes no lock at all.

The hard behaviours are: tests of `localPort` without its mutex; notifications sent without the mutex of the predicate;
`wait_for` without a predicate; a socket closed while another thread is in `receive`; a peer that disappears in the middle of a package;
short reads; three threads sending on one socket with less room than a package; `close` of a descriptor that another
thread polls; an event that outlives the session it belongs to. In `setup`: a crash between a change of ComDB and the log of it; a database that lets
anybody release anything; parameters saved for a command that is refused later; loops that start over with what they had collected; failures
between a state change and its bookkeeping; steps of an uninstallation of which any may be the last. `PROJECT.json` lists the hazards with their lines.

## 2. Modules

| Module | Stands for | State |
|---|---|---|
| `SOELinkHandler` | one handler and the threads RX, TX, main | members of `SOELinkHandler` (`localPort`, the state of each port object it can make, the mutexes, `remoteReturn`, wait sets), the own socket with its mutex, whether the connection is up, closed by the peer or lost, and for each thread a program counter, a return label and a result |
| `PortClaim` | what `serial_port.hpp` promises of `openPort`/`closePort`: one claim of the device at a time | the set of claims |
| `SOEFrames` | one direction of a connection, byte by byte: `transmitPackage` of several threads, the receive loop | the bytes on the wire, the frame each sender transmits, receive buffer, what was given to `processPackage`, and how much of it before the first short payload |
| `PackageChannel` | what the framing promises: packages delivered whole, once, in order | packages sent and delivered |
| `SerialPortLin` | one port object of the Linux library with an owner thread and a reader thread | descriptor, poll set, eventfd, stored timeout, VMIN of the shared `termios` and of the device, bytes received |
| `SOEConnections` | the process around the handlers, `soemain.cpp`: main thread, list of handlers, wait of a client | where the main thread is, the list and what a cleanup has left to check, whether the sleeping main thread was notified, and of each handler its memory, its socket and where its two threads are |
| `SerialStreams` | the Java streams over one port, a reading and a writing thread | whether port and device are there, buffer and position of each stream, the call each thread is in, what has been read, accepted and sent |
| `ComDb` | `ComDbSync` step by step, beside the Ports class installer and other programs | owner of each number, the log, the names of the ports, the progress of the sync; `torn`, the numbers a failure has hit |
| `Com0comPairs` | the commands `install`, `change`, `remove`; instantiates `ComDb` for the sync and the claims, with `used` the names of installed ports | bus devices per number, `PortName` per port, the name the Ports class gave, friendly names, the command with its progress |
| `Com0comDriver` | the commands on all devices and on the driver | state of each device, devices that run on until a reboot, INF files, files, registered keys, the command with its stack of disabled devices; `lost` and `unseen`, what it has lost sight of |
| `PortParams` | the parameters of one port: object, string, registry | values in the registry, the object being saved; as history what was in use before and what was asked for |
| `MC…` | constants and symmetry for TLC | |
| `…_proofs` | theorems and proofs | |

`SOELinkHandler` uses packages as single steps, which `SOEFrames` justifies up to the first payload that is received in part, and port objects with a blocking read, of which
`SerialPortLin` is the detail. `SOEConnections` keeps of a handler only what its owner sees, of which `SOELinkHandler` is the detail; a native
read or write of `SerialStreams` is one step, of which `SerialPortLin` is the detail. `Com0comPairs` runs `ComDb` for the sync that ends each command and is
checked and proved to be an implementation of it (`NamesFollowComDb`), hence what is proved of `ComDb` holds of the commands; `Com0comDriver` and `PortParams` are the detail of "the driver is updated" and "the parameters are saved" there.

### Correspondence, `SOELinkHandler`

A label of a program counter names the statement a thread is at: `close.check` is the unlocked test of line 78, `close.lock` the
acquisition of line 79, `close.body` lines 80-83. A step is what lies between two points where another thread can
interfere. In particular:

- The test `localPort != 0 && localPort->isOpen()` loads the pointer twice. It is one step: a pointer that becomes null between the two
  loads leads to the same end as one that becomes null after the test, which the model has (`UnlockedNullCall`, `LockedNullCall`).
- `localPort.reset(..)` and `openPort()` are one step under `m_localPort` (`OpenPort`). `unique_ptr::release` in `closeLocalPort` gives the
  object up without deleting it: its handle is "closed", its memory stays.
- `shutdown` writes `remoteReturn` without its mutex, which is a data race; both orders of the writes are behaviours. A new handler has an
  arbitrary `remoteReturn`, since the constructor gives it no value.
- A condition variable is a wait set. A thread joins it as it gives the mutex up, leaves it by a notification, spuriously, or (for
  `wait_for`) at the timeout, and takes the mutex again in a later step.
- A receive of the header that is cut short or announces too much ends the link (`RxHeaderArrives`). A payload that fails
  does not (`RxStale`): the buffer is dispatched with what it holds.
- The peer is honest: it answers what it was asked, at most once (`PeerSends`). `closeRemotePort` has no caller and is left out.
- The connection is "up", "closed" once the end of the peer has come in, or "lost" when the peer or the network is gone without a word. Nothing more arrives then; what had been buffered counts as received before. A
  call on a closed connection or on the own closed socket returns (`Reported`); on a lost one `receive` and `send` may block for ever, because the socket has no timeouts (`setTimeouts(0, 0)`), or fail.
- `send` blocks with `m_socketTX` held (`send.socket`) until the connection takes the package or the socket call fails. `writeBytes` blocks in the device without limit (`write.writing`), because
  `setTimeouts(-1, 0, -1)` sets the write timeout to -1 (`serial_port_lin.cpp:413-419`), and `closePort` does not end it.

### Correspondence, `SOEFrames`

A byte is `<<frame, position>>`; a header stands for the length of its frame only if all its bytes are those of one frame
in order, and for any length otherwise. The buffer keeps its bytes from package to package, as the array of the code does. `receive` returns what was asked for or
any part of it. A payload loop that ends because the socket was closed still gives the buffer to `processPackage` (`PayloadAbandoned`, line 224), with the payload of an earlier package: `stale` counts these. `whole` is how
many packages were processed before a payload first came in parts (`short`). The identifier of a header has no effect: on a mismatch the code prints a message and `break`s from the loop
over the four bytes only (line 203). `processPackage` returns here; what it does is `SOELinkHandler`. A package may be longer
than the buffer of the receiver (a long port name in an open request): the header is refused there.

### Correspondence, `SerialPortLin`

Each access of a member that another thread may write and each system call is a step. `poll` is three: the test of the timeout, the call
with the descriptor of that moment, the return. The descriptor number and the device are kept apart: `comPortHandle` is the
member, `tty` what the kernel has open. A `poll` of a closed descriptor ends at once with POLLNVAL, which the code takes for
input; before the first open the poll set is uninitialised, so either outcome is possible. Timeouts have no duration; a finite one may end at any
moment. `close` does not end a `read` that has begun. The device stays attached, no signal interrupts a call, and nobody else reads it.
`setTimeouts` is four steps (`SetGet`, `SetTimeout`, `SetMin`, `SetApply`): the reader uses the same `termios` and reads the timeout between them.

### Correspondence, `SOEConnections`

The main thread makes handlers (`CreateConnectionHandler`, in `linkRemotePort` or after an accept), looks at each handler of the list (`CheckIsAlive`), waits for its
threads and deletes it (`Delete`). The predicate of the client's wait is two steps, the cleanup and the look at the size (`WaitPredicate`), and the
sleep is a third (`WaitBlock`), since `onDeath` takes no mutex and can fall between any of them. Only the main thread takes `m_clientConnections`, so the model has
no lock. `shutdown` of a handler's thread is split at the close of the socket and at `onDeath`; both threads may have found the socket open. A thread need not leave its loop
after the socket was closed: it may sleep for ever (finding 1) or wait in a write to the device. A server whose
sockets cannot be bound, or whose server socket fails, leaves `main`, and its threads end with the process.

### Correspondence, `SerialStreams`

A method that finds what it wants in its buffer is one step. Otherwise the call goes through `isOpen()` (`FillOpen`, `WriteOpen`) and the native method (`ReadData`, `WriteData`) as
separate steps, between which the other thread can close the port. The native read gives any number of bytes up to the buffer, or none (a timeout, an error and a
closed port look the same); the native write takes any number. `writeData` closes the port if none was taken. `available` and the turns of `read(b, off, len)` are the calls
`"available"` and `"more"`; bytes are signed, as in the `byte[]` the native method makes. The streams are used by one thread each, as their unsynchronised methods require.
`unread` stays as it is when the port is closed; the program does not open it again.

### Correspondence, `ComDb`

Each call that changes ComDB or the log is a step, since setup can be stopped after any: the two loads (`LoadComNames`, `LoadComDbLocal`), a claim or a release of one number, `SaveComDbLocal`
after it. A number claimed already is refused without a word (`comdb.cpp:170`), a release is not. The result of `SaveComDbLocal` is ignored by the code,
so a failed save goes on; a log that cannot be read is, after "continue", an empty one. Numbers hit by such a failure or by a crash in front of the save are collected in `torn`, which the properties
except: they are the smallest set that makes the properties true, not an excuse for more.

### Correspondence, `Com0comPairs`

A command line is one action (`Main`), and each of the calls that change state is a step: `AllocPortNum`, one turn per port of the loop that loads, validates and saves parameters,
the registration of the device, its number, the driver, the roll-back of `TryInstallDevice`, friendly names, the three steps of `UpdateRealPortName`, the removal of buses and ports, and at the
end `ComDbSync`. A name that is in use is put to the user, who may insist: such a name is in `excused`. Setup is single-threaded, but the Ports class installer (`ClassInstall`) and
other programs act between any two steps, and a crash leaves the registry as it is. Parameters stay in the registry when a pair is removed, so that the next pair with the number starts from them.

### Correspondence, `Com0comDriver`

`DisableDevice` has five outcomes (found disabled, disabled, refused and enabled again, failed before the change, lost after it), each an action for the next device of the
enumeration; "try again" enumerates anew with the stack of before (`devutils.cpp:521`). Answers are those of `ShowMsg`: any button of a user, none in silent mode, where each caller treats the 0 in its own
way. `lost` has the devices and INF files that setup itself loses sight of: disabled before `DisableDevice` returns without a push (`:459`), not enabled again, or not named by `SetupCopyOEMInf` (`setup.cpp:1618`). Of the devices
disabled before that return some run on until the reboot, so that they hold the driver as well (`DisableLost`). `unseen` has the devices that an uninstallation passed over in silence because their hardware id could not be read (`devutils.cpp:195-204`, `PassedOver`). An
installed pair is one step (`InstallPair`), because its detail is `Com0comPairs`. A device that is disabled but runs until the reboot is not `IsDisabled`, as in the code; a later reload
therefore enables it again, and `was` calls it "pending".

### Correspondence, `PortParams`

A text is what the setters read of it (a flag, sign and pin, decimal digits), a command line a sequence of items. `maskExplicit` and `maskChanged` are sets; an absent value is 0 in the object and the driver's
default in use. `SaveDw` writes one value per step; a save that fails, or setup being stopped, leaves the rest.
Strings have a length: setup refuses a parameters string of 200 characters or more (`params.cpp:754-757`) and cuts a listing at 199 (`setup.cpp:792`; `Fill` yields FALSE, which no caller looks at). `Room` is what is left of the 199 beside the parameters that are not in the instance. The limit on the length of a
name is left out. `RealPortName` is not a value of this key and is in `Com0comPairs`.

## 3. Runs

| Run | Module, cfg | Shows | Distinct states |
|---|---|---|---|
| `link` | `MCSOELinkHandler`, `Link.cfg` | `NoOrphanedOpenPort`: no object is abandoned while it holds the device; `OpenNeverMissed`: the TX thread never sleeps beside an open port nobody is about to announce; `CallerNotAbandoned`: a sleeping caller has an answer to come; `ConfirmedOpenIsOpen`; `ClaimsOneAtATime`: refinement of `PortClaim`; `RxStops`: after the socket is closed the RX thread ends, or is inside a write to the device; `OpenPortIsServed` and `HandshakeReturns`, with a peer that takes what is sent; `ClosedPeerEndsLink`: a close between two packages ends the link, with a device that takes what is written | 232,169 |
| `link_alive` | `LinkAlive.cfg` | violation of `AliveWhileOperational` | |
| `link_destructor` | `LinkDestructor.cfg` | violation of `DestructorReturns` | |
| `link_release` | `LinkRelease.cfg` | violation of `PortNotUsedAfterRelease` | |
| `frames_whole` | `MCSOEFrames`, `FramesWhole.cfg` | `BufferNotOverrun`, `OneStalePackage`: besides whole payloads one buffer at most is processed, the last; refinement of `PackageChannel` (`PackagesInOrder`); `PackagesDelivered`, `ReceiverStops` | 406,660 |
| `port_sessions` | `MCSerialPortLin`, `PortSessions.cfg` | `FirstSessionBlocks`: until the first close a read without limit returns bytes; `WaitsInPoll`: a reader that polled is not stuck in `read`; `CloseReleasesReader` | 794,144 |
| `connections` | `MCSOEConnections`, `Connections.cfg` | `ClientEndsAfterItsLinks`: a client process deletes every handler it made before it ends; `DeathSeenBySleeper`: a link that dies while the client sleeps is found and deleted, unless the destructor waits for a thread that does not leave its loop | 12,251 |
| `streams` | `MCSerialStreams`, `Streams.cfg` | `InputInOrder` and `OutputInOrder`: every byte once and in order; `LostPortFreesReader`: a write to a lost device ends the read in progress | 140,888 |
| `comdb` | `MCComDb`, `ComDb.cfg` | `LogExact`: the log has what setup claimed, also after a crash; `OthersKeepTheirs`: a sync takes no number from anybody else; `SyncAgrees`: a sync that ends has made ComDB agree with the names | 196,859 |
| `setup_pairs` | `MCCom0comPairs`, `Pairs.cfg` | `NamesAreLogged`: after each command the names in use are claimed; `NamesAreUnique`; `RealNamesAreClaimed`: a name given by the Ports class is claimed before and until it is used; `DevicesAreWhole`: no half installed or twin device; `NamesFollowComDb`: refinement of `ComDb` | 2,145,071 |
| `setup_driver` | `MCCom0comDriver`, `Driver.cfg` | `DevicesKeepDriver`: an installed device that no uninstallation has passed over has its INF file, files and service; `OffStaysOff`, `ActiveRestored`: what was disabled or enabled before a command is so after it; `LoadedDriverStays`; `SilentCommandsEnd` | 1,677,928 |
| `params` | `MCPortParams`, `Params.cfg` | `SavedAsAsked`; `NoThirdValue`: a save that stops leaves old and new values only; `ListReplays`: a listing that is not cut is a string that is accepted, changes nothing here and reproduces the port elsewhere | 353,340 |

Four more configurations are kept for reference, outside the index of `PROJECT.json`: `FramesShort.cfg`, `LinkShutdown.cfg`, `PortReopen.cfg` and `ConnectionsExit.cfg` show the violations 4 to 7 of section 4.
`TypeOK` of each module is part of its inductive invariant and proved with it (section 5).

Deadlock is not checked in the runs of SoE and of the library: a link that has died, a connection that has been lost, a process that has ended and a port nobody opens again rightly stop. What must not stop is
stated as a liveness property. It is checked in the four runs of setup, which can always take another command.

**Bounds.** *Link*: three port objects bound the number of opens. A server keeps one in reserve so that a stale open request
still finds one. Two are one being replaced and one replacing it, a third one repeats; nothing depends on more. *Frames*: two senders, three packages (short, as long as the buffer allows, and one
too long), three frames and two bytes of room, less than any frame, so that the sender blocks in the middle of each and the receiver loop turns over with old bytes in its
buffer; `receive` may return a part at every call. *Port*: two opens, hence a whole life and a reopening; two descriptors, so that a reused number and a new one both occur; timeouts
below zero, zero, and 25700 ms, which exceeds the byte the code stores; one byte in the device, since only "none" and "some" differ. *Connections*: two
handlers, the fewest of which one can die while the other is checked or deleted. *Streams*: three bytes each way and buffers of two, so that an array is shorter than the buffer, as long or longer, a buffer
fills in the middle of a call and one byte is above 127; `MaxSent` bounds the calls that send again what a failed flush has kept. *ComDb*: three numbers, so that a claim, a release and a number left alone meet in one sync; failures and crashes are not
bounded. *Pairs*: two pairs and two numbers, with three ports that ask for the same name and one the Ports class may name; one crash or failure that setup passes over
(`MaxFaults`), which is enough to leave something behind for the commands that follow, whose number is not bounded; up to two devices with a number (`MaxTwins`). *Driver*: two buses, one port, one foreign INF file that only matches by its class; one failure setup
passes over. *Params*: one parameter of each type and a second pin, whose default is negated, strings of up to two items (the same parameter twice is where the masks matter) and the string that resets all; three digits of probability and 16 bits instead of eight and 32; one text of
30 digits, and room for 199 characters and for 46, which is what the longest items of the parameters outside the instance leave, so that strings are refused and listings cut at every item.

**Fairness.** *Link*: strong fairness for the code of each thread (`RunRx`, `RunTx`, `RunMain`): the operating system runs each thread, a
`wait_for` ends at its timeout, a mutex that becomes free again and again is granted, and a call of the socket returns once either end was closed, which the joins of the destructor count on; `open`, `close` and `tcsetattr` of a device return. Nothing makes
a read deliver, a write to the device finish, or a live or lost connection take what is sent: a property that depends on it has it as its premise, `DeviceTakes` (again and again no thread is inside a write) or `PeerTakes` (again and again nobody sends), and `RxStops` excepts a thread inside
a write instead. Weak fairness is not enough: a TX
thread that polls for `m_localPort` may find it taken at every attempt, which is a starvation that real mutexes do not produce. *Frames*: weak
fairness of the receive loop and of sends in progress; TCP delivers as long as the connection is not lost. *Port*: weak fairness of
calls in progress. *Connections*: weak fairness of the main thread, except that nobody has to connect, and of a thread inside `shutdown`. Nothing makes a thread leave
its loop after the socket was closed, so `DeathSeenBySleeper` excepts a destructor that waits for one (`WaitsForLoop`). *Streams*: weak fairness of calls in progress; a native read is only certain to return after the port
was closed (`CloseReleasesReader`), a native write returns at its timeout. *Driver*: weak fairness of the running command, with no
answer of a user assumed: a call returns, and setup goes on with the next. Nothing is assumed of the packages a peer sends, spurious wake-ups, the order in which callers act or the moment at which dead handlers are deleted.
`crashed` in the liveness properties of the link stands for the process having died of `link_release`.

**Each property can fail.** `PROJECT.json` names for each property a mutated definition (`…Silent`, `…Unlocked`, `…KeepsHandle`…, defined just before
the original) that a plausible slip in that code would be, with which TLC refutes the property.

## 4. Findings

1. `link_destructor` – `shutdown` notifies `cv_openLocalPort` without `m_localPort` (`soelinkhandler.cpp:47`). The notification can fall between the predicate of
   the TX thread and its sleep; the destructor then joins a thread that does not wake (`soemain.hpp:44` promises a proper shutdown), with `m_clientConnections` held.
2. `link_release` – `localPort` is tested without the mutex and followed after another thread released it (`:78`, `:86`, `:143`, `:168`), against `soeconnection.hpp:147`.
3. `link_alive` – a peer that closes its end in the middle of a payload is never noticed: the loop repeats the failing `receive` as long as the own socket object is open (`soelinkhandler.cpp:217-222`), so `isAlive` stays true on a
   connection that is no longer operational (`soeconnection.hpp:95`). `ClosedPeerEndsLink` is the part that holds, a close between packages.

Shown by the configurations outside the index:

4. `FramesShort.cfg`, `PayloadIsWhole` – a payload received in part is continued at the start of the buffer and with the full length (`soelinkhandler.cpp:218`), against the comment of line 215.
5. `LinkShutdown.cfg`, `PortReleasedByShutdown` – after `shutdown` by another thread the payload loop ends and the old buffer is processed: an open request opens the port of the dead link again (`:217-224`), against `soeconnection.hpp:75`.
6. `PortReopen.cfg`, `NegativeTimeoutBlocks` – the eventfd that `closePort` signals is never read; after a reopen `poll` always returns at once and a read without time limit returns nothing (`serial_port_lin.cpp:278`), against `serial_port.hpp:91`.
7. `ConnectionsExit.cfg`, `ClientTerminates` – `onDeath` notifies without `m_clientConnections` (`soemain.cpp:35`): a last link that dies between the predicate of the client and its sleep leaves the process waiting for ever, against `soemain.cpp:106`.

Noted without a run:

- A connection that is lost without a word is noticed neither between packages nor inside one, because the socket has no timeouts; `send` may then block for ever with `m_socketTX` held (`soelinkhandler.cpp:246-252`), and the handshake of a client with it, whose own timeout
  covers the wait for the answer only.
- `writeBytes` of the link waits for the device without limit (`serial_port_lin.cpp:413-419`) and no `closePort` releases it: a device that takes nothing holds the RX thread, and the destructor that joins it.
- `setTimeouts(300, …)` reads back as 3 (`serial_port_lin.cpp:344`; `Test.java:83-88` expects 300), so `readBytesConsecutive` restores a shorter timeout than it found (`:404`); `setConfig` returns 1, true, when
  `tcsetattr` fails (`:209`); `getConfig` decodes the data bits of the caller's argument (`:238`).
- `read()` of the input stream widens a byte with its sign, so that 255 is -1, the end of the stream (`SerialPortInputStream.java:44`). The bytes that a `read(b, off, len)` has copied when an exception ends it are lost to the count of the caller;
  `InputInOrder` therefore speaks of an open port.
- A flush that was written in part keeps the whole buffer and sends its start again at the next call (`SerialPortOutputStream.java:41`); `OutputInOrder` ends at the first exception.
- A write that takes nothing within its timeout closes a port whose device is alive (`SerialPort.java:336`).
- com0com: `Save` reports success when a value other than the name could not be written, because `err` is not assigned (`params.cpp:729`; `NoThirdValue` is what remains). A device disabled with "continue, then reboot" is enabled by a
  reload before that reboot (`devutils.cpp:416`). A cancel during `update` ends one class of devices only; the command goes on with the next (`setup.cpp:1066`). A listing of more than 199 characters is cut, inside an item too, and shown as if it were whole, since no caller looks at the FALSE of `FillParametersStr`
  (`setup.cpp:792`). A device whose hardware id cannot be read is passed over by an uninstallation in silence, and loses its driver (`devutils.cpp:195-204`). A failure of `ChangeState(DICS_ENABLE)` after a refused stop leaves a device disabled that nothing enables
  (`devutils.cpp:459`). After "continue" an unreadable log counts as empty, so numbers claimed before are never given back (`comdb.cpp:279`); they are in `torn`.

## 5. Proofs

All theorems are about `Spec`, without fairness. Assumptions are those the modules state (`NoPortAssumption`, `FramesAssumption`, `PortAssumption`, `HandlersAssumption`, `StreamsAssumption`, `NumAssumption`, `NameAssumption`, `DriverAssumption`, `ParamsAssumption`); they only say what kind of value a
constant is (of a text: that it consists of decimal digits, or has the one or two elements that its parser reads; of a default pin: that it is a pin) and which sets of names are disjoint, and TLC evaluates them in the runs.

**`SOELinkHandler_proofs`** (804 obligations; any set of port objects): `TypeCorrect`, `NoOrphan`, `OpenIsNeverMissed`, `CallerIsAnswered`, `ConfirmedOpen`, and
`ImplementsPortClaim`, the refinement. None of the properties is inductive. The invariant `IInv` adds to the types: where
each thread can be (`Places`: only RX runs package handlers, a thread holds a mutex exactly between its lock and unlock labels), what `m_localPort` protects (`PortInv`: only the object in `localPort` is open; the TX thread joins the wait set
only having seen a closed port under the mutex), and the account of answers (`AnswerInv`). Lemmas treat the steps one action at a
time; the refinement needs `PortInv` for the step that opens: no other object holds the device.

**`SOEFrames_proofs`** (991 obligations; any senders, packages, lengths, capacity): `TypeCorrect`, `BufferIsKept` (whatever `receive` returns and whatever bytes are taken for a header),
`OneStale`, and `DeliversInOrder`, the refinement of `PackageChannel` by the packages processed up to the first short payload. `FramesShort.cfg` shows that the refinement does not go on after it. The
invariant `FramesInv` says: the wire is the concatenation of the frames so far, the last one perhaps incomplete and owned by the holder
of `m_socketTX` (`WireInv`, `SenderInv`); and the receiver stands at a frame boundary plus what the current call has got, its buffer holding just those bytes, as long as no payload came in parts (`ReceiverInv`). It
is what a mutex per package buys: without it (`TransmitUnlocked`) two frames mix and TLC refutes the refinement.

**`SerialPortLin_proofs`** (281 obligations; any descriptors and timeouts): `TypeCorrect` (what is stored is -1 or fits a byte), `BlocksInFirstSession`, `NoWaitInRead`. The
invariant speaks of the time before the first close: no event has been signalled, the poll set holds the open descriptor before any thread can find a timeout below zero (`ObjectInv`,
`TimeoutInv`), and a reader that has polled it has bytes that nobody else takes (`ReaderInv`). `PortReopen.cfg` shows that nothing of the kind holds after a close.

**`SOEConnections_proofs`** (113 obligations; any set of handlers): `TypeCorrect`, `ClientEndsClean`. The invariant adds that the handlers made and not deleted are
those of the list (`ListInv`), that the handler being deleted is not looked at again, that only a server
accepts, and that a client ends with an empty list (`MainInv`).

**`SerialStreams_proofs`** (1,146 obligations; any data, any buffer sizes above zero): `TypeCorrect`, `ReadsInOrder`, `WritesInOrder`. Both order properties are equations between concatenations, inductive once the state of the call is
known: a call that has copied bytes has emptied the buffer, so `got` comes before the buffer (`ReaderInv`); an argument is written past an empty output buffer only (`WriterInv`). Lemmas about
sequences (`Split`, `SignedSplit`, `Assoc`) carry the rest.

**`ComDb_proofs`** (202 obligations; any set of numbers): `TypeCorrect`, `LogIsExact`, `OthersUntouched`, `SyncReaches`. `LogExact` is not inductive: what is written is the mask in
memory. `IInv` adds that the mask is exact while the loop runs (`MaskExact`), that the loop works with the names of the ports (`NamesCurrent`) and that the numbers it has passed agree or were skipped (`Passed`); the action
properties follow from it. By the refinement they carry over to the commands (`SyncInCommands` below).

**`Com0comPairs_proofs`** (3,748 obligations, about 1,470 of them on `PortParams`; any pairs, numbers and names asked for, any bound on failures): `TypeCorrect`, `ImplementsComDb`, `SyncInCommands`, `NamesLogged`, `NamesUnique`, `RealNamesClaimed`, `WholeDevices`. The refinement comes
first: every step of a command is a step of `ComDb` or changes nothing of it, so the invariant of `ComDb_proofs`, instantiated with the names of installed ports for `used`, holds here, and so do its theorems. None of the four
properties is inductive, since each speaks of what the last command left. `IInv` adds what a command may rely on at each point:
`SettledInv`, that the COM numbers of installed ports are claimed until a command changes names (it is broken by `Rename`, and comes back with the end of a sync, by the lemma `DoneAgrees` of `ComDb_proofs`); `InstallInv`, that the names of the pair
being installed fit in with those of the others, from the question that asks for each name to the device that is registered; `UniqueInv`, for the same of installed ports; `RealInv`, that the number `UpdateRealPortName` has claimed and not yet written, or has
still to release, is claimed by the Ports class; and `WholeInv`, how many devices a pair has at each step of an installation and its rollback. The names a user, a failed call or a crash has let through are in `excused` and `torn`, and stay there. TLC was run with `IInv` before it was proved.

The last part of that module is about `PortParams`: `ParamsTypeCorrect`, `ParamsSaved`, `ParamsOldOrNew`, `ParamsReplayed`, all properties of the run (any list of parameters, any texts, any width of a number, lines of any length: `MaxItems` is any number).
The definitions of `PortParams` have names of their own, so that one module can speak of both. The recursive functions of the model (digits, items of a line, items of a listing) are the difficulty: that such a function exists (`Recursion`) and what holds of its
values (`Upto`) both follow from the least number at which it would fail (`Least`), which takes the place of an induction rule. Three arguments stand on that:

- Saving (`ParseFacts`, `WantFacts`, `SavingInv`). A parameter the object does not mark as changed still holds what was loaded for it, `Agrees`. So when `SetBit` does not mark a value as given because the object holds the same already, the driver uses this value in
  any case, since a zero that stands for an absent value is a value of the parameter only where it is the default (`DefaultFacts`). `SavingInv` carries this through the saving of the values, one after the other.
- Texts (`ValueFacts`, `TextFacts`). What a setter accepts is in `Valid`, and a number in `Valid` is listed as a text that is read as this number: taking digits off the end and putting them back are inverse (`LeftOfDecimal`, `DecimalOfDigits`), with the shortest text of an
  unsigned number (`UnsignedText`) as with a probability that has lost the zeros at its end (`ProbabilityText`).
- Listing (`FillFacts`, `ListItemFacts`). The items of a list are those of the parameters listed, and each asks for the value in use: for the port itself it changes nothing (`ListChangesNothing`), and a port without parameters is the same after it (`ListRestores`). Both are about a listing that fits, for any room and any length of a name: that the whole
  of it fits is what makes the parser accept it. For this
  the registry must hold values in `Valid` only, which is the part of `ParamsInv` that no property says.

**`Com0comDriver_proofs`** (1,179 obligations; any devices and INF files, any bound on failures): `TypeCorrect`, `DriverStays`, `DisabledStay`, `EnabledAgain`, `LoadedStays`, that is all
properties of the run but the liveness one. `DevicesKeepDriver` is not inductive: a step that deletes the service or the files must know what its command has done before. `IInv` says what the command may rely on at each point: its loops
see installed devices only and the second loop of an uninstallation has seen all but those it passed over (`LoopInv`), so no other device is left when the service, the keys and the files go (`GoneInv`), and in silent mode none of them holds the driver (`StuckInv`); the stack holds what was
enabled and is not, and nothing that was disabled for good (`StackInv`, `WasInv`); `infclean` keeps the own INF files it has recognised (`CleanInv`). TLC was run with `IInv` before it was proved.

Only model-checked: the liveness properties (`RxStops`, `OpenPortIsServed`, `HandshakeReturns`, `ClosedPeerEndsLink`, `PackagesDelivered`, `ReceiverStops`,
`CloseReleasesReader`, `DeathSeenBySleeper`, `LostPortFreesReader`, `SilentCommandsEnd`), which are out of the prover's reach, and the violations. Every invariant and every action property of a passing run is a theorem.

## 6. Plan

Done: link handler (first, since all threads meet there), framing, the port object, the process and the Java streams, each with its proofs; the com0com setup (arbitration, pairs, driver, parameters), with proofs too. Next, in this order:

1. `SOELink`: client and server end with both directions of bounded buffers and the serial devices, composed of the package level of the two handlers. Questions: can all
   threads wait on each other (`soelinkhandler.cpp:151`, `:252`); is each request answered by its own answer, also after a timeout (`:105`); does serial data arrive in order.
   Abstract specification: two reliable byte streams between two devices.
2. `SerialPortLin`: `writeBytes` with its fall through to a second wait, `readBytesConsecutive` restoring what it found.
3. `SOECommandLine`, `interpretFlags` and `mainCPP` as operators, against a reference that reads each flag by name (`soecli.cpp:43`).
4. `Terminal`: the two loops and the end of the input over `SerialPortLin`.
5. `SerialStreams` with a reopened port, and with the end of the stream as `read()` reports it.

Abstract specifications: `PortClaim` and `PackageChannel` (done), the two byte streams of `SOELink`, and a byte pipe that `SerialStreams` refines until the first failure. Theorems planned: order of data
and matching of answers in `SOELink` on top of `PackageChannel`. Where a new run asks a deeper question than an old one, it takes its place.

## 7. Not modelled

- `netsocket` (a submodule without source here) is modelled by how `soelinkhandler.cpp` uses it: reliable, ordered, bounded; `close` ends a `receive` in progress.
- The Windows library: thin calls of Win32, whose overlapped I/O is not described in the repository.
- JNI and the native loader: one function per method without state; file and class loading.
- Baud rates, parity and other line settings: data that no property tells apart.
- The systemd unit and the driver of com0com, of which the repository has the binary.
- com0com setup: `list`, `busynames`, `listfnames` and `help`, which only read; option parsing and the console window; waiting for pending installations (`WaitNoPendingInstallEvents`), which only delays;
  `RestartDevices`, by which a port whose other parameters changed sees them; friendly names of single ports; the sections of an INF file and the reading of lines from it (`inffile.cpp` up to line 255); the limit on the length of a port name.
- The text methods and configuration objects of the Java `SerialPort`: conversions through C strings, and fields that no property tells apart.
