# Verification of JNIEnver

TLA+ models of the application's own code, their TLC runs, and theorems checked by
the TLA+ proof system. `PROJECT.json` lists components, runs, mutants, the source
lines behind every definition, hazards, findings and theorems.

## The system

JNIEnver is an Android application that exercises the Java Native Interface. Its own
code is the Java package `com.youngtr.jnievner` and the C and C++ files directly
under `src/app/src/main/cpp` and in its directories `signal`, `ptracer` and `xdl`;
`cpp/mbedtls` is a vendored copy of Mbed TLS 3.1.0, of which the application calls AES-CBC
and nothing else; its DTLS handshake is modelled because it is in the repository and is
by far the hardest protocol there. In the table, `cpp/` stands for
`src/app/src/main/cpp/`.

| component | state | operations | what is hard | what makes it correct |
|---|---|---|---|---|
| crash signals, `cpp/signal/xcc_signal.c` | the kernel's dispositions, the table `signal_crash_infos`, the alternate stack | `register_signal2`, `crash_signal_handler`, `signal_crash_unregister`, `testCrash` | signals on any thread at any time, also during registration; a registration per created activity; failing system calls | every signal goes back to its own previous owner, and a crash still crashes |
| stack walk, `cpp/signal/xcc_unwind.c` | a frame counter | `unwind_get`, its callback | the counter counts only frames without symbol | the walk ends |
| second crash handler and ptrace demo, `cpp/ptracer/ptracer.c` | one saved disposition for seven signals; a traced child | `initCrashHandler`, `crash_handler_more`, `test1` | one record for many signals; failing `fork` and `exec` | as for crash signals; no child is left behind |
| dynamic linker access, `cpp/xdl/xdl.c` | a handle that fills itself on first use | `xdl_open`, `xdl_sym`, `xdl_close`, two listings | first calls that overlap, libraries that go away, incomplete libraries, hash chains without bound | the right address or NULL, inside the tables, memory owned by the handle |
| stream compression, `cpp/zlib_util.c` | two FILEs, two buffers of CHUNK bytes, a `z_stream` | `def`, `inf` | nested loops over full and empty buffers, short files, damaged streams, any call failing | Z_OK means all of it, nothing wrong ever gets into the file, the stream is freed |
| string compression demo, `cpp/zlib_example.c` | one global FILE | `init_file`, `compress_stream`, `uncompress_stream`, `write_stream` | use before or without a successful `init_file`, lengths never written | round trip |
| JNI surface, `cpp/native-lib.cpp` | static AES key and IV, open files | the native methods of `MainActivity` and `DLActivity`, `JNI_OnLoad` | IV changed in place, files left open, position of files opened with `ab+` | round trips; no growth of resources |
| content provider, `IPCProvider.java` | table `students`, registered cursors | `query`, `insert`, `delete`, `update`, `getType` | a write and its announcement are two steps; clients that choose row ids | no cursor stays stale, URIs keep their meaning |
| DTLS handshake, `cpp/mbedtls/library/ssl_*.c` | per endpoint: state, flight and timer, message counters, epochs, message buffer, hash | the steps of both handshakes, `mbedtls_ssl_read_record`, `mbedtls_ssl_flight_transmit`, the reassembly, the anti-replay window | lost, repeated and reordered records; early messages; timeouts racing answers; the end of the last flight; a bit mask over overlapping fragments | no legal order of records makes a side fail, retransmission ends the handshake or gives up, both sides hash the same |
| activities, `Person`, `IPCService` | a name, a view binding | `onCreate`, listeners, accessors | none of their own | - |

How they interact. `MainActivity.onCreate` runs on the main thread, once per created
activity, and calls the native methods one after the other; `stringFromJNI` calls
`register_signal2`. Nothing ever unregisters except the handler. A button calls
`testBacktrace`, that is `test_unwind`; the calls of `testCrash`, `initFile`,
`compress`, `zlib` and `getStream` are there but commented out. `DLActivity` calls
`dlopen` and has its calls of `xdl.c` commented out. The provider is reached through
a `ContentResolver` by threads of the application. The components share no data, only
the process: a signal stops any of them at any instruction, which is why the signal
model lets every thread be anywhere.

## Modules

| module | models | role |
|---|---|---|
| `CrashSignal` | `xcc_signal.c` | state machine, properties and inductive invariant |
| `CrashSignalProofs` | | theorems about it and about `CrashMore` |
| `CrashMore` | `initCrashHandler`, `crash_handler_more` | extends `CrashSignal`: both handlers in one process |
| `TraceChild` | `test1` of `ptracer.c` | parent and traced children |
| `Unwind` | `xcc_unwind.c`, `unwind_backtrace` of `ptracer.c` | both stack walks |
| `SymbolTable` | | abstract: what a symbol lookup promises |
| `XdlLookup` | `xdl_dynsym_find_symbol_use_gnu_hash` | one step per table read; implements `SymbolTable` |
| `XdlMaps` | `xdl_iterate_by_maps` | the listing, with threads that map and unmap meanwhile |
| `GnuHash` | `xdl_gnu_hash` | the hash on 32-bit words |
| `XdlHandle` | `xdl_open`, `xdl_sym`, `xdl_close` | handles, threads, libraries that come and go |
| `XdlProofs` | | theorems about `XdlHandle`, `XdlMaps` and `XdlLookup`, with the step part of its refinement |
| `Stdio`, `ZFormat` | external | output FILEs with buffer and error flag; compressed streams |
| `Filter` | | abstract: what a caller of `def` or `inf` relies on |
| `ZlibDef`, `ZlibInf` | `def`, `inf` | state machines; both implement `Filter` |
| `ZlibLemmas` | | lemmas about files, prefixes and streams |
| `ZlibDefProofs`, `ZlibInfProofs` | | theorems about `def` and `inf`, and the refinements |
| `DemoFiles` | `zlib_example.c`, the native methods on files | files, their positions and failures, on top of `Filter` |
| `IPCProvider` | `IPCProvider.java` | provider, its clients and their cursors |
| `AppProofs` | | theorems about it and about `DemoFiles` |
| `AesCbc` | the AES-CBC calls of `native-lib.cpp`, `mbedtls_aes_crypt_cbc` | state machine over an abstract block cipher |
| `DtlsHandshake` | `ssl_msg.c`, `ssl_tls.c`, `ssl_cli.c`, `ssl_srv.c` | a client, a server and the network between them |
| `DtlsFragments` | `ssl_msg.c`: fragmentation, reassembly | one flight, from its sender into the buffer of its receiver |
| `DtlsReplay` | `ssl_msg.c`: anti-replay, change of epoch | the 64-bit window of a receiver |
| `DtlsProofs` | | theorems about `DtlsHandshake` |
| `MbedtlsProofs` | | theorems about `AesCbc`, `DtlsReplay` and `DtlsFragments` |
| `MC...` | | instances for TLC; `MCDemos` runs the small parts that share nothing |

### CrashSignal

`disp` is the kernel's table, `oldact` the field of `signal_crash_infos`, `reg` the program
counter of `register_signal`, `hnd` that of `crash_signal_handler` on each thread.
`sigaction` is two steps, the kernel swaps (`Install`) and then reports the old action into
the table (`Store`), since a signal on another thread can come between them. The handler's
loop is a step per entry (`Unregister`), `sigaction` may fail in both loops (`InstallFails`,
`UnregisterFails`). `Resume` is what happens when a handler returns: after a fault the
instruction faults again, a thread that was sent the signal goes on, and `abort()` (`Abort`,
libc's, external) gives SIGABRT its default action and raises it once more. That second
SIGABRT never reaches the owner the handler has put back, although the table hooks SIGABRT:
`Restored` and `PassedOn` exempt exactly it. The kernel's part is external and follows the
flags the code passes. `testCrash` stores through NULL, which the compiler may also turn
into a trap: `NullStore` is the set of signals that may come.

### CrashMore

`CrashMore` adds the second handler to the kernel and the threads of `CrashSignal`. Its one
saved action is `act_old`, its loop over the signals `setup` (`InstallMore`, `StoreMore`),
the handler on a thread `more`. Any step of one handler may come between two steps of the
other. `sigaction` may fail for the signals in `Faulty`, and nobody looks
(`InstallMoreFails`, `RestoreMoreFails`); `hasty` remembers that the saved action was used
before it was there, or not saved. SIGINT and SIGQUIT, which the first handler never
touches, and SIGKILL, which cannot be caught, are not slots.

### TraceChild, Unwind, DemoFiles, XdlMaps

`TraceChild`: `wait` takes any child that has stopped or ended (`Reports`); `fork`,
`ptrace` and `execl` may fail, and a child whose `execl` failed goes on in the
application's code (`astray`). `Unwind`: a stack is a function from a frame to the next one,
damaged stacks have loops; `dladdr` knows some of the frames. `DemoFiles`: files are
sequences of units, each FILE has its position, what `fflush` could not write is kept;
`def` and `inf` do what `Filter` allows. `XdlMaps`: stdio's buffer holds some lines of
`/proc/self/maps` while other threads map and unmap (`Change`), so the walk sees a memory
that is partly gone; `stable` are the areas there all the time. `AreNext` says which lines
the kernel may give next: the areas from one address on, in order, as far as they go.

### DtlsHandshake

`ssl` holds the two contexts, field by field as in `mbedtls_ssl_context` and
`mbedtls_ssl_handshake_params`; `net` is the set of records on their way: what is read stays
there to come again, in any order, until `Lose` takes all of it. A step of an endpoint is
one step of `mbedtls_ssl_handshake`: `Parse...` and `Write...` are the states of the
client's and the server's machine; `ReadKept`, `ReadBufferedMessage`, `ReadBufferedRecord`
and `Receive` are the places `mbedtls_ssl_read_record` gets a record from, in the code's
order; `HandleMessage` decides as `mbedtls_ssl_handle_message_type` and
`mbedtls_ssl_prepare_handshake_record` do: pass on, buffer, ask for the flight again, drop.
`TimerExpires` is the timeout of `mbedtls_ssl_fetch_input`. A configuration says whether
cookies, resumption, tickets and client authentication are on, whether the endpoints give up
(`patient`) and how many sessions the server may begin.

A hash is the sequence of the messages that went into it, keys are the session they come
from; decryption with keys of another epoch or session fails. One record per datagram and
no fragments, which are in `DtlsFragments`. Repeated records reach the handshake, as with
anti-replay off, which allows more than with it. `MBEDTLS_ERR_SSL_WANT_WRITE`, alerts from
outside and renegotiation are left out. The timer is the one of
`mbedtls_ssl_set_timer_cb`: `retransmit_timeout` is 0 in a fresh context, so a server that
has written nothing yet never runs out of time, and `mbedtls_ssl_flight_transmit` never
meets a flight that is not there.

### DtlsFragments, DtlsReplay

`DtlsFragments` cuts a flight as the MTU allows, which may be another one in each
transmission (`SendFragment`, `FlushOutput`, `Resend`), and puts it together in the slots of
the receiver (`BufferMessage`, `LoadBufferedMessage`, `UpdateHandshakeStatus`). `BitmaskSet`
is `ssl_bitmask_set` with its three parts on the bits of bytes; `bytes` is what really has
come. `MakeSpace` frees the later slots for the message awaited; `Held` adds up what the
slots take of the buffer; `error` is set when a slot gets no memory or the message awaited
no room. `DtlsReplay` has `in_window` as the set of its bits, cut off at 64
(`ReplayUpdate`), one record of the next epoch kept until `ParseChangeCipherSpec`, and a
reset; what is left of a datagram is read before the record that was kept, so this one may
come late and be dropped as a replay; `delivered` counts what was passed on.

### XdlLookup, XdlHandle

`XdlLookup` keeps the tables of one library, as a linker writes them (`WellFormed`,
external), and walks them: bloom filter, bucket, chain. `XdlHandle` abstracts the tables to
the set of fields that are set, and has what surrounds a lookup: the list of loaded
libraries (`Dlopen`, `Dlclose`, external), the name match (`Open`), the allocations and the
clean-up when the second one fails (`Allocate`, `CopyName`, `CopyNameFails`, with `heap` the
blocks handed out and `mem` the pointers to them), the flag `dynsym_try_load` (`SymClaim`),
the load one dynamic entry at a time (`LoadEntry`), the check (`LoadCheck`) and the lookup
(`Find`) on several threads. Reading through an unset field or unmapped memory sets
`undefined` and stops the model.

### ZlibDef, ZlibInf

The program counter goes around the two nested loops. A compressed file is a sequence
of units: data units with the bytes they complete, an end unit with the checksum
(modelled by the data itself), units that cannot be decoded, and the request for a
dictionary. zlib's functions follow the contract in `zlib.h`, in small steps that may
come in any order: input taken (`Take`, `Decode`), output given (`Give`, `GiveEnd`,
`DecodeEnd`), return (`DeflateReturns`, `InflateReturns`). A call that makes no progress
may return Z_BUF_ERROR. `Stdio` lets every `fread`, `fwrite` and `fflush` fail, and
`fwrite` leave its data in a buffer.

### IPCProvider

`table` and `sequence` are the database; `job` says which thread has changed it and not
yet called `notifyChange`; a cursor is registered by `Query`, reads in `Fill`, is told by
`Notify` and read again in `Refresh`. `Restart` is the death of the process. SQLite and
the notification service are external: transactions are atomic, AUTOINCREMENT goes above
every id ever inserted, a notice for a URI reaches the observers above and below it. Notices
compare URIs by their text, SQL the ids in them by their value, and `#` of the
`UriMatcher` takes any digits, so `students/01` and `students/1` are one row and two URIs
(`digits`); `students/0` is one too. A selection is "name = a OR name = b", or, with
`closes`, "name = a) OR (name = b", which opens the parentheses the code puts around it.
Content values may lack a column (`Absent`) or hold a null; `missed` remembers which
cursor a row was changed for by a call that announces another URI, or none. Every
cursor depends on the table alone and not on other cursors, so one is enough.

### AesCbc

`Start`, `Setup` and `Turn` are what `getPersons` and `mbedtls_aes_test` do around the
two calls of `mbedtls_aes_crypt_cbc`; `EncryptBlock` and `DecryptBlock` are the bodies
of its loops. `iv` holds the vector of each function: that of `getPersons` is static and
stays as the last call left it. The functions' two literals are generalised to any text
of `N` blocks, AES to any pair of functions that undo one another (`CipherAssumption`).
`rounds` is the direction the round keys in the context are for; run the other way they
give something else (`Mixed`). Both functions run on the main thread, `mbedtls_aes_test`
once, when the library is loaded. Allocation failures of the JVM in `getPersons` (which
leave an exception pending) and `mbedtls_aes_free`, which `getPersons` does not call and
which frees nothing, are left out.

## Runs

| run | question | bounds, and why they are enough |
|---|---|---|
| `CrashSignal` | do dispositions stay in order under every interleaving? | 2 threads, 3 table entries, 2 registrations, 2 sent signals, any number of faults and of `abort()` (the first entry): first, middle and last entry, nested and overlapping handlers, a second registration |
| `CrashSignalTwice` | does `testCrash` crash after two registrations? **violated** | two registrations |
| `CrashMore` | what do the two handlers do to each other? | 3 signals, 2 registrations around 1 `initCrashHandler`, 2 threads: either order, both in between, a signal that nobody can set or restore, an `abort()`; no signals from outside, as a fault on any thread does the same |
| `XdlLookup` | is the answer right for every library a linker may write? | every subset of five names, one of them twice; two pairs of names with equal or nearly equal hashes; 1-3 buckets, 1-2 bloom words, with and without imports |
| `XdlHandle` | memory, definedness and answers of handles; does every call return? | 2 threads, 2 heap blocks (what one handle takes), 2 loads over time, five kinds of libraries: complete, only `.hash`, no string table, no dynamic section, at address 0 |
| `ZlibDef` | does `def` implement `Filter`, hold its assertions, free its stream, return? | CHUNK 2, files of 0 to 5 different bytes: empty, less than, exactly and more than one and two chunks |
| `ZlibInf` | the same for `inf`, and is every sound stream accepted? | CHUNK 2; units that decode to nothing, less, exactly and more than the buffer; cut short everywhere, damaged in every place, with garbage or a second stream behind |
| `IPCProvider` | is every change announced, also with ids that clients choose? | 2 threads, 3 writes: two writers between one another's steps and a reader between them; 2 ids, which run out; ids 0 and 2 may be chosen by clients: below 1, and in competition with SQLite's; each id with and without zeros in front; selections that stay in their parentheses and one that leaves them |
| `IPCProviderFailed` | does an insert that says it failed leave the table alone? **violated** | the same with 3 ids |
| `AesCbc` | is the chain right, and does the text come back, in every call? | blocks of 2 bits, every text of 3 blocks (first, middle, last), any number of calls |
| `Demos` | the small parts, one at a time | `test1` called 3 times; every stack of 4 frames with a limit of 2; 4 open files, texts of 1 and 2 units, a file of 3; 6 areas of memory, a buffer of 2 lines, 2 changes; sequence numbers 0, 1, 63, 64, 65 (both sides of the window's edge) in epochs 0 and 1; messages of 9, 0 and 11 bytes (no byte, more than one byte of the mask, the long ones not together in the buffer of 36), MTUs for no, 5 and all bytes of a message |
| `Dtls` | can the network make a handshake fail, hang or go two ways? | 18 configurations of cookies, resumption, tickets, client authentication, patience and a second session; 4 slots for early messages; giving up after 2 timeouts: every flight of every handshake lost, repeated and overtaken |

`CHECK_DEADLOCK FALSE` is set where the modelled code really ends or a bound is used up:
the process dies, a function returns, the environment's steps are spent.

Every property of a passing run has a mutant: a variant of one definition, with a
plausible bug, under which TLC finds the property violated. The variants stand next to
what they replace and are used by nothing else.

### Findings

* `TestCrashCrashes`: a second registration (rotating the screen creates the activity
  again) stores the handler as its own predecessor. A crash then restores the handler
  by the handler and faults for ever; the process hangs where `xcc_signal.c:52` says
  "crash!".
* `FailedAddsNothing`: `insert` takes a row id above 0 for success. A client that sets
  `_id` to 0 adds a row, gets "Failed to add a record", and no cursor is told.

Not violations of anything the project states, but shown by the exceptions the properties
have to make: `xdl_open` returns an uninitialised variable when no library matches,
`xdl_sym` is undefined on libraries without `.gnu.hash`, after `dlclose`, or when two first
calls overlap (`UndefinedOnlyIf`); `def` returns Z_OK when the last `fflush` fails
(`Filter!Outcome`); a delete or an update of `students/01` is announced under that text and
never reaches a cursor on `students/1`, nor does an update that changes an id tell anybody
under the new one (`FreshUnlessMissed`); a selection that closes the code's parenthesis
reaches rows that the URI does not name (`OnlyAddressed`); a child of `test1` left stopped
keeps a later call waiting for ever (`Test1Returns`); two crash handlers that have displaced
each other never let a fault end the process (`CrashesUnlessKnotted`); an `abort()` ends the
process without the owner of SIGABRT (`PassedOn`); the native method `zlib` lets `inf` read
behind what `def` has just written, `native-lib.cpp:280` (`DemoFiles` has the positions;
nothing is claimed of them); a delayed ClientHello whose cookie is still valid resets a
server that has finished its handshake, `ssl_msg.c:3083` (`OneSession`); with an MTU that
leaves no room for a byte of a message `mbedtls_ssl_flight_transmit` loops without end
(`AllArrive`, which also exempts a receiver without memory).

## Fairness

* `CrashSignal`: a thread that is in `register_signal`'s loop or has a signal to take is
  scheduled again and again. Nothing is assumed of faults, sent signals, or a failing
  `sigaction`.
* `XdlLookup`, `XdlHandle`: a thread inside `xdl_sym` keeps running. Clients need not call.
* `ZlibDef`, `ZlibInf`: the one thread keeps running; all loops are the code's own.
* `IPCProvider`: after the write the same method calls `notifyChange` (`Notify`), and a
  client that was told reads again (`Fill`, `Refresh`). Writers, closing and restarts are
  not fair.
* `CrashMore`: as `CrashSignal`, for both handlers.
* `TraceChild`: the caller and its children are scheduled; a copy of the application that
  went astray need not do anything. `Unwind`: the walk goes on.
* `DtlsHandshake`: an endpoint takes the steps it can take by itself, and its timer
  expires (weak). Only for `Completes`, in the patient configurations, does the network
  let a record through that is sent again and again (strong fairness of `Receive` and
  `ParseClientHello`); `GivesUp` needs nothing of the network.
* `DtlsFragments`: the flight is sent again until it is answered, and of the message
  awaited something not yet seen comes through in the end.

## Proofs

For every value of the constants that satisfies the named assumptions of the modules:

* `CrashSignalProofs`. `Typing`; `NeverCrossWired` (an entry displaces and restores its own
  signal's disposition, whatever nests, overlaps or fails: inductive together with the
  types); `StackBeforeHandlers`; `RecordsInOrder`, `AllRestored`, `AllPassedOn`. `Restored`
  and `PassedOn` are not inductive: at the moment the handler returns nothing in the state
  says that the records it used were right. The invariant is `CleanTable`: while nothing is
  spoiled, an installed handler has its predecessor on record or on the way to the record
  (`DisplacedOnRecord`; `Owned` takes in the SIGABRT that an `abort()` has reset, which only
  happens once all records are complete), the loop of the registration has saved what is
  behind it (`FilledSoFar`), the records are complete before a handler can run
  (`CompleteForHandlers`), and a handler has restored what is behind it (`RestoredSoFar`).
  One lemma per part of the program shows that its steps keep it.
* `XdlProofs` about `XdlLookup`. `StaysInside`, `MissesNothing`, `LookupCorrect`: from `WellFormed`,
  the walk is always at or before every definition of the name, in the chain that holds
  it, so an end mark or a clear bloom bit means that there is none, and the walk meets a
  mark before it leaves the tables. `StepsImplement`: initial states map to initial
  states of `SymbolTable`, and steps to steps or stutters.

* `CrashSignalProofs` about `CrashMore`. `MoreTyping`; `StrangerIsSegvs` (a signal gets at
  most the owner of SIGSEGV in place of its own); `SegvReachesOwner`: a SIGSEGV that
  ends the process was given to its original owner, also when the two handlers have
  displaced each other, for then it never ends. The invariant follows every place
  where a disposition is kept (the kernel's table, the records of both handlers, what a
  system call has fetched and not yet stored) and says whose it may be.
* `XdlProofs` about `XdlHandle`. `HandleOwnsMemory` (`PointersInOrder`), `DefinedForCarefulClients`,
  `AnswersAreRight`, `OpenMissesNone`, `TypeCorrect`. That no block is lost follows from
  what holds in the middle of `xdl_open`: the heap then is the structure alone, if it has
  been allocated. Definedness is not inductive: the
  checks of a call look at fields that an overlapping call may be filling in.
  `LoadedSoFar` says which fields each running load has set so far, and that fields only
  come; so in a library that has all tables no check fails even when loads overlap, and
  what is undefined is due to the library or to a flag seen too early.
* `XdlProofs` about `XdlMaps`. `MapsSkipNone`, from `GonePast`: an area that was there all
  the time and lies before the next line to come has been shown, is in the buffer, or is
  the line at hand.
* `AppProofs` about `DemoFiles`. `TextsStayInOrder` (`TextsInOrder`), which is not inductive:
  it needs that an undisturbed FILE stands at the end of the file.
* `AppProofs` about `IPCProvider`. `TypeCorrect`; `IdsStayFresh` (`NextIdIsFresh`);
  `CursorsAreFresh` (`FreshUnlessMissed`); `OthersUntouched` (`OnlyAddressed`). The
  invariant: open cursors and announcing calls have URIs of the provider, and every id
  handed out is at most the sequence. A cursor that the announcement of a writer does not
  reach shows none of the rows that the writer has changed, or has missed them; a selection
  that does not close the parenthesis selects only rows under the URI of the call.
* `ZlibDefProofs`, `ZlibInfProofs`. `NeverAborts` (the assertions of `zlib_util.c` hold),
  `AcceptsSound` (a sound stream is accepted), and `ImplementsFilter` for each: initial
  states map to initial states of `Filter` and steps to steps or stutters, for any bytes,
  any file and any CHUNK. For `def` the invariant divides the source into what is in the
  output, in zlib and in the input buffer; for `inf` it says that the units decoded so far
  are a prefix of the source and what they decode to is the file, the output buffer and
  what zlib still holds.
* `MbedtlsProofs` about `AesCbc`. `DecryptsTheText`, `EncryptsTheChain`,
  `BothWaysToTheEnd`, `TypeCorrect`, from the assumptions that decryption undoes
  encryption and exclusive or undoes itself. Neither property is inductive; the invariant
  adds that the vector of the running loop is the block before the current one (`Loop`),
  and which blocks have been written in which phase (`Written`). `RoundTrip` needs
  `Chained`: only because the ciphertext is the chain from the vector written down does
  decryption, which starts at the same vector, give the text.
* `MbedtlsProofs` about `DtlsReplay`. `ReplayTypeCorrect`, `DeliversOnce`, `RefusesNone`, for
  any set of sequence numbers and epochs. The inductive invariant says what the window
  means: bit n is set exactly if the record n below the top of this epoch was passed on,
  nothing of a later epoch or above the top was, and of the kept record nothing yet.
* `MbedtlsProofs` about `DtlsFragments`. `FragmentsTypeCorrect`, `BufferedIsWhole`, for
  messages of any length, any MTUs, slots and buffer. `BitmaskSetAdds`: whatever bits of
  whatever bytes a fragment begins and ends with, `ssl_bitmask_set` sets exactly its own.
  `Whole` says nothing of a message that is not complete; `Reassembling` says that the mask
  of a slot is at all times the set of the bytes that have come, and that each slot is for
  the message at its distance from the one awaited. The lemmas about `Held` add up the
  sizes when a slot is filled, when slots are freed and when they move up.

* `DtlsProofs` about `DtlsHandshake`. `HandshakeTypeCorrect`, `HandshakeNeverFails`
  (`NeverFails`), for any configurations, buffer and number of timeouts. That neither side
  fails follows from where both are: the configuration fixes the handshake, message by
  message (`Transcript`). `FirstSession` says, for each side, that its numbers, its epochs and
  its hash are those of its state (`Place`); that its flight is of messages it writes in this
  handshake, is there whenever it may be asked for, and holds Finished exactly if the epoch
  has changed (`FlightInv`); that what it buffers, remembers or kept is what the other may
  have written (`Early`, `Remembered`); that the network holds nothing else; and that
  nothing but hellos is under way until the server has answered (`EarlyInv`). So a message with
  the number awaited is the one that the state expects (`ClientExpects`, `ServerExpects`) and
  a Finished holds the hash of the one who reads it. One lemma for each step shows
  that it keeps `FirstSession` (`...Keeps`). `NextOnward`: the server never goes back to an earlier
  session, so what holds of the first is enough.

  `HandshakeIsOne` (`OneHandshake`): that the hashes agree is `Place` of both sides; that
  neither is over before the other has come to its end needs to be known of a Finished
  wherever it may be. `OneInv` says, in the first session, that nobody holds a Finished of a
  side that has not written one, nor is past it (`Answered`); once a delayed
  ClientHello has started another session, where nothing is said any more of places, that
  the client is past its Finished, that whatever it sends again is of epoch 0 or under the
  key of the first session, and that the server therefore is given no Finished (`Late`). For
  this the steps are described by their effect: one that reads, times out or wraps up
  (`StepsTo`, from `ParseTakes` for each state and message up to `ReadEffect`) and one that writes
  (`Writes`). `LateStarts`: a ClientHello with a cookie is taken only by a server whose handshake is
  over, and then `Answered` gives all that `Late` says of the client.

  `NothingIsForgotten` (`NothingForgotten`), from `KeptInv`, which says of the first session
  how long a flight is kept. A flight that is there holds every message from its first
  number on (`Whole`), so one that the peer waits for is in it, or was never written; who
  reads has a timer that is set (`Timed`); the side that writes last has read, when it comes
  to that, the message before its flight, and so knows what asks for it again (`Asked`); it
  gives the flight up only when the other side's handshake is over, which application data
  tells (`Needed`); and the server has a cookie only from the client (`Cookies`), so that
  both count from the same number. `KeptIs` puts this beside the places of both sides. A
  step is then one to a context that is fit to be the next (`Fit`): one that a read carries
  on (`Carried`) or whose flight it ends (`Ended`), one whose flight has grown from its
  first number on (`Grows`), or one whose handshake is freed with the other side's leave
  (`FreeFit`).

`StackBeforeHandlers`, `CleanTable`, `MissesNothing` and `BothWaysToTheEnd` are proved and
not checked by a run.

The provers cannot instantiate a theorem that takes an operator, which the library's
induction theorems do. Where a proof needs induction (what a sequence of units decodes to,
what slots add up to) it takes a least counterexample: a set of natural numbers that is
not empty has a least member (`LeastNat`), as `<` is well-founded on them.

Model-checked only: `TraceChild` and `Unwind`, whose
properties are liveness; all other liveness properties and the fairness part of the
refinements, which are out of the prover's reach; and the hash function on strings,
compared with the reference formula for the names of the instance.

## Not modelled

* Mbed TLS but for the CBC loop and the DTLS handshake. It is some 125 000 of the
  repository's 127 000 lines of implementation, mostly ciphers, hashes, big numbers, curves,
  ASN.1 and X.509: arithmetic and parsing in a straight line, on numbers far too large for
  TLC and without the interleavings a model is for. The map can therefore cover only a
  small share of all lines; it covers nearly all of the application's own code. Of
  the handshake, TLS over streams, renegotiation, the alerts of the peer, other key
  exchanges than RSA, connection ids, the session cache and the rotation of ticket keys.
* The JVM, SQLite, the kernel, the dynamic linker, zlib and stdio appear as far as the
  code uses them.
* `xdl_iterate_by_link`: prints what the linker knows, in one call into it, and keeps nothing.
* JNI accesses to fields, methods and objects: each is one call into the JVM, in a
  straight line on one thread.
* `onUpgrade`, sort order, projection and MIME types of the provider.
* `Person`, `IPCService`, the activities, resources and build files.

## Plan

What is left, in order of importance:

1. An abstract directory of students that `IPCProvider` implements.
2. Renegotiation and alerts in `DtlsHandshake`, several records in a datagram; the
   session cache and the rotation of ticket keys.
