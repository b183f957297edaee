# A TLA+ verification of FFS

FFS ("Fast Flexible Serialization") encodes C structures into self-describing
binary records. A record carries a short *format ID*; the description it names
lives in a *format server* or, for self-serving contexts and files, next to the
data. A receiver that meets an unknown ID asks for its description and converts
the record to its own layout. Everything rests on two promises: an ID names one
description for ever and whoever meets it can get it; and a record that is
encoded, carried or filed, and decoded says what it said in the sender's memory.

The modules here model the parts of the repository that keep these promises:
the format server with its threads, checkpoint file and master; the client's
link to it; format contexts and the representation of formats; encoding,
decoding and the choice of a target; record files; and the I/O loops below them.

## Inventory

| Component | Source | State | Operations | Module |
|---|---|---|---|---|
| format list and request handlers | `fm/progs/server.c` | `fs->lists[0]`, `server_format_count`, `fs->lock` | `find_format`, `fetch_format`, requests `f` `P` `g` `D` | `FormatServer`, abstractly `FormatRegistry` |
| connections and threads | `fm/progs/server.c` | `fs->ports`, `timestamp`, `portCount`, descriptors | poll, accept, the two timeouts, close, forced close | `ServerConnections` |
| checkpoint and restart | `fm/progs/server.c` | the list, the restart file | `dump_formats_to_file`, `read_formats_from_file` | `RestartFile` |
| proxy to a master | `fm/progs/server.c` | `proxy_context_to_master`, `pending_unregistered` | connect, push, push all, get, poll | `ProxyServer` |
| client link | `fm/server_acts.c`, `fm/fm_formats.c` | `server_fd`, `server_pid`, `self_server` | establish, handshake, register, get | `ServerLink` |
| format context | `fm/fm_formats.c` | `format_list` | `register_data_format`, `load_external_format_FMcontext` | `FormatDefs`, `FMContext` |
| format representation | `fm/fm_formats.c`, `fm_internal.h` | none | build, expand, `add_format_to_iofile` | `FormatRep` |
| encoding | `ffs/ffs.c` | encode buffer, iovec, addresses seen | `FFSencode`, `FFSencode_vector`, `FFSencode_no_leaf_copy` | `Encode` |
| decoding, conversion | `ffs/ffs.c`, `ffs/ffs_conv.c` | the message, how far it is converted | `FFSdecode`, `FFSdecode_in_place`, `FFSdecode_to_buffer` | `Decode` |
| type handles, evolution | `ffs/ffs.c`, `ffs/evol.c` | `handle_list`, status, conversion | set target, ask for the target, decode, establish a conversion | `TypeHandles` |
| record files | `ffs/ffs_file.c` | position, look-ahead, index | open, write, append, read, seek, close | `FFSFile`, abstractly `RecordStream` |
| socket and file I/O | `fm/unix_io.c` | none | read, write, readv, writev loops | `VectorIO` |
| generated conversions, cod | `ffs/ffs_gen.c`, `ffs_marshal.c`, `cod/` | machine code | | not modelled |
| XML, dump, get, HTTP, programs | `fm/`, `ffs/` | none | text | not modelled |

**How the parts interact.** An application registers a format in its
`FMContext`; on a cache miss the context gives it an ID itself or establishes a
TCP connection and sends `f`, and a handler thread of the server answers `I`
with the ID. A receiver sends `g` with an ID and gets the representation, which
it expands into a format of its own context. A proxy server forwards new formats
to its master with `P`, which is not answered. `format_cmd` sends `c` commands
to checkpoint and reload the list. In the server, a main thread accepts and
times out connections with `fs->lock` held except in `select`; every connection
has a handler thread that takes the lock for the work on the list and to close
itself. An encoded record goes out as a vector through the I/O loops, over a
connection of the application's or into a file with its format before it; the
receiver's `FFSContext` keeps a type handle per incoming format with the target
chosen for it and the conversion to it.

**What is hard.** Handler threads share the list and the port table with the
main thread; descriptor numbers are reused by the kernel while a thread still
holds them; the server closes connections, crashes and restarts while a client
is anywhere in a request; a dump runs without the lock; a master comes and goes
in the middle of a push. Choices are cached and must be undone when a target is
added. Lengths and offsets are kept in halves, relative to several origins, and
padded in several places. Encoding and in-place decoding walk shared and cyclic
data. Files reserve their index blocks before they fill them, and writers die.
`PROJECT.json` lists each of these hazards at its line.

## Modules

### FormatRegistry and FormatServer

`FormatRegistry` is what a client may expect: a set of (ID, representation)
pairs that only grows, no ID twice, and each call taking effect at one instant.

`FormatServer` is the code: a list, a lock, and handler threads.

| Model | Code |
|---|---|
| `list`, `server_format_count`, `lock` | `fs->lists[0]`, `server_format_count`, `fs->lock` |
| `pc[c]`, `req[c]`, `resp[c]`, `last[c]` | where the handler of connection `c` is, and its locals |
| `Receive`, `Hangup`, `AcquireLock`, `ReleaseLock`, `Reply*` | `format_server_handle_data`, cases `f`, `P`, `g`, `D` |
| `SearchHit`, `SearchMiss`, `AppendFormat` | the loop and the append of `find_format` |
| `NewIDs` | its switch on the ID version |
| `format_eq`, `VersionOf`, `GetRequest` | `format_eq`, `version_of_format_ID`, the length `server_get_format` sends |

Search and append are separate steps, so nothing but the lock keeps two
registrations apart. `AppendFormat` cuts the list behind `last`, as
`last->next = new` does. Representations are opaque values with two hash words;
an ID keeps its version, the four bytes that `version_of_format_ID` looks at,
and the rest. Version 0 IDs are heap addresses with the first byte cleared;
`SharedIDs` says whether two blocks can differ in that byte alone (they can on a
64-bit little-endian machine, where it is the low byte).

`Registry == INSTANCE FormatRegistry WITH ...` maps the list to its set and a
thread's position to the phase of its call: an operation takes effect at
`SearchHit`, at `AppendFormat`, or at a `SearchMiss` of a fetch.

### ServerConnections

The main thread and the handlers around `fs->ports`. `fdOwner` is the kernel's
table, `ports` the server's, `sock[c]` the number a handler goes on using. A
forced close (`FSClient_force_close`) clears the port, shuts the connection
down and closes the number without telling the handler, whose join returns at
once because the thread is detached; the handler later runs `FSClient_close` on
the same number. `FSClient_close` is two steps, under the lock and the `close`
after it, as the source says ("moved close outside of the mutex because
sometimes it blocks"). `server_read_header` closes a descriptor on its own when
the handshake fails; where it could read nothing the magic number is
uninitialised, so both outcomes are possible. Requests have no content here.

### ServerLink

One `FMContext` and one server that may close the connection, crash, and start
again with a new pid and without formats. `establish_server_connection` is
`UseLink` (select finds the descriptor valid), or `Connect`, `ConnectFails`,
`Handshake`, `HandshakeBroken` and `BrokenPipe`; its callers are `Register`,
`Get` and `AllowSelf` with their second attempt (`Refused`) and their retries
(`ReadFailed`). Two facts of the code decide most of what happens: `server_fd`
is set before the pid is compared and never reset, and a connection closed by
the server is readable, so it counts as alive. A format and its ID are one
value. A write to a closed connection may succeed and be lost. `FdLost` is an
application that closes descriptors it does not know, the only way to a second
connection.

### RestartFile

The list as linked nodes and the file as a sequence of units: ID, length, rest
of the representation. `DumpWrite` writes one unit, so a crash, a write error
(`DumpFails`) or a registration can fall between any two. `LinkRecord` is the
code's linking from its own `last` pointer. `rep_len` models the missing
`ntohs`. `held` remembers what the list held when the dump began and `saved` the
same once the dump is complete: the list moves on meanwhile, since no lock is
held, and `SavedRestored` compares a restarted server with `saved`, not with the
file. The operator is assumed to give one command at a time.

### ProxyServer

A server that is the proxy of a master, and the master as its environment. All
of it runs with the proxy's lock held, so an operation on the connection is one
step, written as a set of outcomes: `Push` is `register_format_to_master` on an
open connection, `register_all_to_master` the push of the whole list after
connecting, cut short anywhere, `try_master_connect` the two with the wait of
300 seconds. `Register` and `Get` are the proxy branches of `find_format`, and
`Poll` the retry in the main loop. `channel` is what was written and not yet read.
The master may drop an idle connection, die, lose its formats and start again,
also in the middle of a push (`MaxFaults` times). The code's one safeguard is
that any failure closes the connection and any connection begins by pushing the
whole list; `MasterInStep` shows that it suffices while a connection stands.
What it does not give: after a push that failed in the middle nothing is
pending, and `register_all_to_master` clears the count whatever became of its
pushes, so the main loop does not try again, and the master lacks the formats
until the next registration or question comes. `PendingRetried` therefore says
what a count above 0 leads to as long as the master does not fail once more: in
the end it knows every format of the proxy.

### FormatDefs, FormatRep and FMContext

`FormatDefs` is what `register_data_format` computes from a structure list:
fields sorted by offset, the record's length, the `variant` and `recursive`
flags in the order the code finds them out, and `topo_order_subformats`, whose
order decides the bytes of the representation. `Formats` is << >> for a list
that is refused.

`FormatRep` lays a format out and reads it back. A representation keeps what its
bytes say: the order an integer was written in, texts and blocks at their byte
offsets, lengths and the start of the options in two 16-bit halves. Read in the
wrong order, or at an offset where nothing starts, it gives `Garbage`. Contents
of texts are their values, `TextLen` their lengths, so the layout is exact and a
name of 70000 characters costs nothing. The formats read back are looked up in
one another as the code does it (`field_subformats`): a subformat finds itself
and the other subformats, not the super format, and where a field's format is
not found the rest of the type information is whatever was in memory
(`var_list`).

`FMContext` composes the two: contexts on machines of either byte order register
lists (`RegisterHit`, `RegisterNew`) and load formats of each other by ID and
representation. A registration may be answered with a loaded format, which is
where the two ways to compute a format meet. `generate_format3_server_ID` and
`search_compatible_formats` keep the widths of the source.

### Encode and Decode

`Encode` is the body of the three encoding routines: the temporary buffer, the
vector of its pieces, padding counted to a piece or put in between, the list of
addresses already encoded, and `handle_subfield` as a stack of calls to be made.
Memory is a set of blocks, values at offsets. `Message` puts the vector together.

`Decode` takes the message to a receiver of either byte order with a layout of
its own: the plan (`create_conversion`), and the interpreter that carries it out
in place (`new_convert_field`), with `cur_offset`, the mark by which it knows
what is converted already. Every value knows whether its bytes are as sent or
native, so a second swap shows. The generated code that replaces the interpreter
on most platforms is not modelled.

Correctness is one relation: `Reached` follows memory and message (or message
and result) in step, wherever the data leads.

### TypeHandles

The handles of an `FFSContext`: per incoming format a status, a conversion and a
target. `FFSset_fixed_target` resets the choices of formats of the same name;
`FromEncode` is the lookup and, where the status allows, the choice of
`FFS_determine_conversion`: an exact match, or the nearest by
`FMformat_cmp_diff`, directly or through the older formats it declares. Formats
are one record deep. `crashed` is the endless comparison described below.

### RecordStream and FFSFile

`RecordStream` is what programs are promised: an append-only stream of comments,
formats and data records with a cursor. `FFSFile` is the code. A file is a
sequence of cells, one per record or index block; a reserved index block is a
hole until it is filled. `f` is `struct _FFSFile` with the position, the
look-ahead, the index block being filled and those read. Operators named after C
functions work on `[d, g]`, the file and the structure. Sessions open, append,
write, read by any of the calls, seek, ask for the attributes of the last read
(`FFSattrs_from_last_read`, an action of its own, so that look-aheads come
between) and close.

- `WriteFails`: the write of a record may fail with part of it in the file or
  with nothing. The program may carry on: the descriptor stands behind the
  fragment, the index item of the record, if it has one, stays in its block, and
  the next record is written behind it. A failed write of an index block is
  passed over, as in the code, and its place keeps what it held; a partial write
  of those 256 bytes is not modelled. `spoilt` is the first position left in
  disorder. One such failure is followed per behaviour.
- `Crash` ends a writer between two calls or anywhere inside one, with a torn
  record, comment or format, an index block begun, or a format without data.
- A reader that takes a fragment together with what was written behind it reads
  bytes as records; it is "astray" and not followed further. In `RecordStream`
  `kept` is how many records the promise still covers after a failed write:
  those before it. What a call reports behind them is left open.

`f.last` (the record last read) and `clean` (every writer closed the file) are
history for the properties. `Uses` names the things programs do that the code
does not survive; the run allows appending to indexed files, and the section on
disagreements says what the others lead to.

### VectorIO

The five loops of `unix_io.c` around a byte stream. A step is one system call
with the bookkeeping after it; the system moves as many bytes as it likes, fails
or closes. Bytes are numbered, so `BytesInPlace` is about the bytes themselves.
`Sums` is the running sum of the block lengths, `Holding` the block a byte falls
into, and `Advance` what the loops make of the vector after a partial transfer.

## Runs

Run a configuration with `tlc -config X.cfg M`. Deadlock checking is off where
the system may stop: clients, programs and operators may do nothing more, and
the bounds on requests, time or operations end every bounded model.

| Run | Bounds | Shows |
|---|---|---|
| `server` | two threads, two formats, two pushed pairs, three requests | `IdDeterminesRep`, `OneEntryPerRep`, `CountMatchesList`, `ReplyMatchesRequest`, `AppendOnly`, `AnswersIssued`, `ImplementsRegistry`; with fairness `EveryRequestServed` |
| `conn` | two clients, one descriptor, two timeouts, a slow handshake | `PortsNotDangling`; with fairness `MainReturns`, `NoDescriptorLeak` |
| `link` | two formats, two operations, two server processes, two connections | `ReplyToThisCall`, `HeldIsServed`; with fairness `GetReturns` |
| `restart` | three formats, two crashes, four nodes, big-endian | `EntriesIntact`, `SavedRestored` |
| `proxy` | three formats, three faults of the master | `MasterInStep`, `PendingOnlyAlone`; with fairness `PendingRetried` |
| `file` | two formats, six cells, three data records, two index blocks of 92 bytes read, one failed write | `IndexExact`, `AttrsInStep`, `CallsReturn`, `KeepsRecords` |
| `codec` | six formats, memories of up to five blocks, receivers of both byte orders | `PiecesFit`, `SameData`, `BlocksApart`, `OnceEach`, `DecodedRight` |
| `handles` | five formats, three of them targets and three incoming, four with a handle at a time | `DecisionCurrent`, `ChosenIsNearest`, `DecodesAsReported` |
| `vector_io` | vectors of up to three blocks, five bytes each way | `BytesInPlace`, `WriteResultTrue`, `ReadResultTrue`; with fairness `CallsReturn` |
| `context` | three contexts, two byte orders, four lists, two formats each | `OneMeaning`, `IDsAgree`, `RegisteredAsGiven` |

The type invariants are part of the first two runs. `ServerLink`, `RestartFile`,
`ProxyServer`, `FFSFile`, `Decode`, `TypeHandles` and `VectorIO` define one too,
which holds in the instances of their runs.

- `IdDeterminesRep`, `OneEntryPerRep`, `CountMatchesList`, `AppendOnly`: however
  registrations and pushes interleave, the list stays a function from IDs to
  representations, without duplicates, and grows only at its end.
- `ReplyMatchesRequest`, `AnswersIssued`: a reply belongs to its request, and an
  ID that was handed out can be fetched by anybody from then on.
- `ImplementsRegistry`: all of it together refines `FormatRegistry`.
- `PortsNotDangling`: the main thread can use what it finds in `fs->ports`.
- `MainReturns`, `NoDescriptorLeak`: closing by force does not block, and the
  descriptor of a client that left is given back.
- `ReplyToThisCall`: no reply to an earlier, retried request is taken for the
  answer to this one. `HeldIsServed`: a format counts as registered only if the
  server it was registered with knows it. `GetReturns`: retrieval ends.
- `EntriesIntact`: a truncated dump never yields a format made of parts of
  others. `SavedRestored`: everything the list held when the last
  completed dump began is restored, whatever was registered while it ran.
- `MasterInStep`: while a connection stands at both ends, the master knows every
  format of the proxy or has it on its way. `PendingOnlyAlone`,
  `PendingRetried`: formats are pending only without a connection, and then the
  master is tried until it knows them all, unless it fails again.
- `KeepsRecords`: the file refines `RecordStream`: nothing that happens loses,
  repeats or changes a record, whatever mix of calls reads it; after a failed
  write this covers the records before it, with a failed index block those
  before the place of the block. `IndexExact`: the index of a closed file is
  complete across full blocks and appends, if no write failed.
- `AttrsInStep`: `FFSread_attr`, and `FFSattrs_from_last_read` until a further
  data record is passed or looked at, give the attributes the record was written
  with. It is about readers that take every data record, from the start or after
  a seek to record 0, and not behind a failed write. Each of the exclusions is a
  place where the code gives another record's attributes: records without a
  target are not counted, `FFSseek` sets the count to 0 whatever it sought, a
  look-ahead counts the record it has only looked at, and a failed write leaves
  an index item too many.
- `CallsReturn`: a call loops for ever only on a file that ends inside a comment
  or a format, or to which a write failed, and never on data, an index block or
  its place cut off by a crash.
- `PiecesFit`, `SameData`, `BlocksApart`, `OnceEach`: the message in pieces adds
  up, says what memory says, keeps shared blocks shared and the others apart,
  and encoding cyclic data ends. `DecodedRight`: the receiver has the same data
  in its own layout, every value converted once.
- `DecisionCurrent`, `ChosenIsNearest`, `DecodesAsReported`: a cached choice is
  the one that would be made now, it is the nearest, and a record becomes what
  the program was told it would.
- `BytesInPlace`, `WriteResultTrue`, `ReadResultTrue`, `CallsReturn`: no byte is
  lost, repeated or misplaced, and results and returns are true.
- `OneMeaning`: an ID has the same layout and byte order wherever it is looked
  up. `IDsAgree`: like machines give equal IDs to equal descriptions, whatever
  the order they are listed in. `RegisteredAsGiven`: a registration is answered
  with the layout it asked for, also by a loaded format.

**Bounds.** Two threads are enough for any conflict over the list, since the
lock admits one; three requests let one thread register, the other register the
same format in another version or by push, and a fetch follow. `MaxFormats` and
`MaxRequests` are below 2^16, so `format_identifier` does not wrap in a run; the
theorems cover every length up to 2^16, which is where `BoundAssumption` ends
(version 1 IDs do repeat beyond it). One descriptor for two clients makes every
connection compete for the number; `MaxTime` = 3 with a timeout of 1 lets one
sweep set the reference time and a later one close. Two pids and two
connections give one restart and one reconnection. Three formats let one be
registered behind a dump's node and another before it is through; two crashes let a file
written before the first be read after it and cut short before the second.
Three faults let the master be lost before, in and after a push of the whole
list. An index block of 92 bytes (256 in the code) holds one or two items, so
three records fill several blocks, and six cells leave room for an append behind
them. Three nodes with two links each give every way two blocks can share a
third, with all cycles; the arrays have zero to three elements. Four handles
are an incoming format and three targets that compete for it, or two of each, and
one format is both, registered or loaded first. Five bytes in blocks
of at most three cut every vector in every place. Two formats per context let
each hold one of its own and one of another's, and `far`, a name of 70000
characters, makes lengths and offsets exceed 16 bits. The largest runs are
`file`, 510 thousand states in two and a half minutes; `restart`, 311 thousand;
`codec`, 220 thousand; and `context`, 90 thousand in about a minute.

**Fairness.** A handler thread that can run does (`WF` of its steps), and the
main thread likewise; a POSIX mutex without contention is granted. Nothing is
assumed of clients, of the clock, or of the server's decision to close. In
`ServerLink` the calling thread runs and the server handles what it received on
an open connection. In `ProxyServer` the main loop polls for ever and time
passes; that a dead master is started again and reads what it is sent is assumed
of its operator, without which nothing can be pushed. In `VectorIO` the system
goes on moving bytes for a call that waits for it; nothing is assumed of
failures.

### Where the code and its documents disagree

Each of these two runs checks one sentence of the repository, and TLC finds an
execution of the code that contradicts it.

| Run | Sentence | What happens |
|---|---|---|
| `conn_cross` (`RepliesToAsker`) | the application's read returns the token for its request | a handler outlives a forced close and serves whoever got its descriptor number |
| `codec_root` (`RootKept`) | "pointers which originally targeted the same block will still point to the same block" (`doc/manual_body.tex:391`) | the record itself is remembered at its offset in the message, all other blocks at theirs after the header: a pointer back to the record leads elsewhere |

The modules state further properties that the code does not have. They are
definitions without a run of their own; to see a counterexample, check the
definition with the configuration of the module's run, changed as said here.

| Definition | Where | What happens |
|---|---|---|
| `AnswersIssued` of `FormatServer`, with a `Hash1` of 0 | `fm_formats.c:4061`; `format_server.tex:97` | an ID whose first hash word is 0 reads as version 0, 8 of its 12 bytes are sent, and it is unknown |
| `OnlyIdleTimedOut` of `ServerConnections`, with `Slow` = {} and two descriptors | `server.c:2211`; `format_server.tex:115` | `timestamp` is the time of accept; handler threads never renew it, so busy connections are timed out |
| `RestartedServerRefused` of `ServerLink` | `fm_formats.c:3178`; `server_acts.c:363` | the second attempt finds `server_fd` set and uses the restarted server |
| `RegisterReturns` of `ServerLink` | `fm_formats.c:3170`; `format_server.tex:77` | a registration on a connection the server closed is retried on the dead descriptor for ever |
| `KnownStaysKnown` of `RestartFile` | `server.c:562`; `format_server.tex:213` | the first format a running server reloads replaces its list |
| `SavedRestored` of `RestartFile`, with `LittleEndian` = TRUE and `Reload` = FALSE | `server.c:533`; `format_server.tex:190` | the length in the file is read without `ntohs` |
| `AnswerNotFreed` of `ProxyServer` | `server.c:902`, comment at 900 | "the local version" that is freed is the record the master's answer was put into and that is returned |
| `ClosedIsReadable` of `FFSFile`, with `Uses` = {"append", "plain"} | `ffs_file.c:1332` | appending to a file without an index reserves a block that is never filled; readers exit at the hole |
| `AttrsOfRecordRead` of `FFSFile`, refuted after a seek | `ffs_file.c:1297` | `FFSseek` sets the number of the data record to 0 and returns 0, where the comment says `data_item`: attributes read afterwards are another record's |
| `DecodedInAnyOrder` of `Decode` | `ffs_conv.c:1382`; `manual_body.tex:195` | where the receiver has its pointers in another order, a block behind the mark is taken for converted |
| `DecodedRight` without `StridesFit` | `ffs_conv.c:1481` | in-line arrays of pointers are walked in steps of the field size, the size of what is pointed to |
| `EachOnce` of `FMContext` | `fm_formats.c:1387` | the search compares the low 16 bits of one length with the whole of the other: formats of 64 kilobytes and more are registered anew each time |
| `FlagsAlike` of `FMContext` | `fm_formats.c:3603` | flags of a loaded format are worked out first to last, of a registered one last to first: a registration answered with a loaded format may lack `recursive`, and shared blocks are then sent once per pointer |

Smaller observations made while modelling:

- *Server.* On a 64-bit little-endian machine the "top byte" that `find_format`
  clears in a version 0 ID is the low byte of an address, so neighbouring blocks
  share an ID (`SharedIDs` = TRUE). `portCount` is decremented twice for a
  connection closed by force, and counts a connection twice when a failed
  handshake left its port in the table.
- *Context.* `server_register_format` sends the low 16 bits of the length
  (`fm_formats.c:3198`), so representations of 64 kilobytes need IDs a context
  issues itself. A field of a subformat that refers back to the super format
  registers, but a context that loads the format rejects the field and ignores
  that it did ("Format rejected", `fm_formats.c:3685` with 1160-1177 and 3630),
  so the loaded format says nothing reliable of it and of the fields behind it
  (`BackReferenceLost` in `MCFMContext`). A list refused after its subformats
  were put in order frees them twice. `new_FMFormat` leaves `orig_struct_list`
  of a loaded format unset, which `FMlookup_format` reads.
- *Files.* `written_to_file` is indexed by the format's index in its own context
  (`ffs_file.c:1017`), so formats of several contexts can hide each other
  (`Uses` "mixed"). After a failed write a fragment stays in the file, with the
  next record behind it, and the reader swallows both (`unix_io.c:255-261`,
  `ffs_file.c:940-957`); in an indexed file the numbers of `FFSseek` and the
  attributes are one off from there. A reader of a file that ends inside a
  comment or a format loops for ever: `FFSread_format` (998-1009) and
  `FFSread_comment` (1201-1205) report the short read but leave the look-ahead
  in place, and `FFSconsume_next_item` (1025-1054) returns 1. Opening for append
  a file where the write of an index block failed may loop for ever too
  (1336-1354). Reading or extending ("damaged") a file that a writer did not
  close may exit with CORRUPT FFSFILE. After a successful and an unsuccessful
  seek `FFSseek` returns 0 alike (1299); the model tells them apart for the
  properties. Opening a missing
  file with mode "a" returns NULL; closing an indexed file into which nothing was
  written dereferences NULL; "ai" on a file without an index numbers from 0.
- *Codec.* `recursive` depends on the order of the structure list; the overlap
  check counts a static array as one element; `find_field_for_conv`
  (`ffs_conv.c:183`) may read past the list.
- *Handles.* `FFSset_fixed_target` resets by name and resets the status only, so
  a program that decodes without asking again gets the old layout, and an
  incoming format whose older versions have another name keeps its choice. A
  conversion that could not be created leaves the status at `conversion_set`.
  Loaded formats with two common substructures are compared without end
  (`evol.c:197` with `fm_formats.c:3685`). Substructures without a counterpart
  count as no difference (the TODO at `evol.c:195`).
- *I/O.* Lengths are `int`; `writev` treats EINTR as an error, the others retry;
  `timeout_read` may return -1 after it consumed bytes.

## Proofs

`FormatServer_proofs` proves, for any sets of clients, representations and
pushed pairs and any bounds, the type invariant and `IdDeterminesRep`,
`OneEntryPerRep`, `CountMatchesList`, `ReplyMatchesRequest`, `AppendOnly` and
`AnswersIssued`. None of them is inductive alone. The argument, in `IndInv`:

- a thread is in `search`, `append` or `unlock` exactly while it holds the lock
  (`LockInv`);
- so what a thread learned from its search, that nothing matches and where the
  list ends, still holds when it appends (`AppendInv`), and the append drops
  nothing;
- every entry's ID has one of four origins (`Origin`): an address, this server's
  running number, the hash of the representation, or a push; the origins are
  disjoint, and each is unique within itself (`ListInv`), so a new entry never
  repeats an ID (`UniqueIDs`);
- what was found or handed out is in the list (`AnswerInv`) and belongs to the
  request (`ReplyInv`).

On top of it the module proves the refinement, `Spec => ImplementsRegistry`: no
interleaving of the handler threads can be told from a registry in which every
operation is one atomic step. Reading a request is `Invoke`, a reply, a failed
reply or the unlock after a push is `Return`, and the step that settles a call is
`Register`, `Push`, `Get` or `Dump`; every other step leaves the registry as it
is (`StepIsServed`). Each of the settling steps rests on a part of `IndInv`: a
fetch that finds one format has found all of that ID (`UniqueIDs`); one that runs
off the list asked for an ID no format has, as an ID in the list shows the
version it was made with (`ListedVersion`); a pushed ID that is already listed
names the same representation (`PushMatch`); a new ID is free (`NewIDFresh`).

Assumptions: the two hash words together are injective (`HashAssumption`); at
most 2^16 formats (`BoundAssumption`); proxies push IDs made from the hash or
carrying their own address (`PushedAssumption`); and, in the theorems that need
them, no first hash word of zero and no shared version 0 IDs, without which TLC
finds counterexamples. The remaining constants are unrelated null values.

`ServerConnections_proofs` proves the type invariant and `PortsNotDangling` for
any number of clients and descriptors. The latter is inductive as it stands,
once it is seen that the port at `f` always belongs to a thread whose `sock` is
`f`: a handler that clears the port of its number either clears its own or that
of another live client, and never leaves itself in the table. The other
direction, a live client that is no longer in the table, does happen after a
forced close, and is what `conn_cross` shows.

`ProxyServer_proofs` proves the type invariant, `MasterInStep` and
`PendingOnlyAlone` for any finite set of formats and any number of faults. The
three together are inductive. The work is in the operations on the connection,
which are sets of outcomes: whatever a push, or the push of the whole list cut
short anywhere, leaves behind is either without a connection or complete.

`ServerLink_proofs` proves the type invariant, `ReplyToThisCall` and
`HeldIsServed` for any formats and any number of calls, connections and
restarts. `LinkInv` says what the properties do not: outside a call nothing is
in flight on any connection, and within one only its request or the answer to
it (`Quiet`), because a call is given up only on a connection that has ended; an
open connection leads to the process that runs now, and process numbers do not
come back (`PidsOK`), so a positive answer is still true when it is read
(`AnswerTrue`). Assumed: an operation connects at most once (`LinkAssumption`
bounds the connections by the operations), and the process number read from
an uninitialised reply is not one of a server.

`RestartFile_proofs` proves `EntriesIntact` and `SavedRestored` for any formats
and sizes, and any number of crashes, registrations and broken-off dumps, on a
big-endian server. On little-endian hosts the length read is not the length
written, since the code leaves out `ntohs`, and TLC refutes `SavedRestored` there
(see the table above). `RestartInv` has three parts. `FileInv`: the file is a
sequence of records of which at most the last is unfinished, and that only in
the record a dump is writing (`FileOK`, `DumpOK`); a reader stands where a
record starts (`ReadOK`), so it never takes the middle of one for a header; and
a starting server's list is what has been read so far, linked in one piece
(`StartOK`). `Forward`: next leads to nodes allocated later. `HeldOK`: while
a dump runs, everything the list held when it began is in the file or still
ahead of the dump's node. The last is what the missing lock puts at risk. It is
kept because what following next from a node visits only grows while a dump runs
(`FromGrows`): a registration links its node behind one that has no next
(`TailIsLast`), and a dump and a reload are never at work together.

`FMContext_proofs` proves `OneMeaning`, `IDsAgree` and `RegisteredAsGiven` for
any number of contexts, lists and formats, whatever is registered and loaded in
whatever order. `ContextInv`: every entry of every context is the format of some
list laid out on some machine, under the ID of that representation, and a
registration returned the entry with its list's representation. The theorems
rest on the injectivity of the hash and on two facts about the layout code,
stated as hypotheses: `RoundTrip` (a representation expands, on a machine of
either byte order, to the layout it was made from) for the first and the last,
`RepFollowsMeaning` (it does not depend on the order a list is written in) for
`IDsAgree`. They are statements about recursive computations on data, which the
prover does not reach, and conditions on the lists in use: `RoundTrip` is false
where a subformat names the super format, which TLC evaluates for such a list
(`BackReferenceLost` in `MCFMContext`). Of the lists of the `context` run both are
true, and the run's properties fail if they are not: its mutants break the one
and the other.

`TypeHandles_proofs` proves the type invariant, `DecodesAsReported`,
`DecisionCurrent` and `ChosenIsNearest` for any formats, targets and order of
calls. A handle that
reports its own format and has no conversion satisfies the first and would
violate it after `establish_conversion`; the invariant `HandleInv` says that a
decided handle has its conversion whenever one can be made. `CurrentInv` says
that handles belong to formats of the context and that every decided one holds
the choice (`Choice`) that its format leads to among the targets set now. It is
kept because the choice does not see targets of another name (`ChoiceSame`): a
step either resets the handle, or adds to the context only formats that are no
targets of that name (`SameTargets`). Indices of targets move when one is
added, so results are compared by the target they stand for (`Named`). That the
choice is the nearest (`ChoiceNearest`) is then a fact about the two loops
alone: after every turn the result stems from a comparison that was made, and is
no worse than any made so far (`ScanNearest`, `OlderNearest`). The loops are
recursive functions; that they have the values their definitions say
(`Iterates`) and what holds after each turn (`Upwards`) are proved by taking a
least counterexample. Assumed: a format has finitely many fields, and its older
formats are formats.

`VectorIO_proofs` proves `BytesInPlace`, `WriteResultTrue` and `ReadResultTrue`
for any set of vectors, empty blocks included, and however the system cuts the
calls. `IOInv`: what is left of a call's vector is contiguous and begins where
the bytes moved so far end; the blocks gone from a writing vector are no longer
than the bytes moved, and the ends of the others are where they were (`Gone`,
which is what makes the count of `writev` true); memory is filled without a gap
up to where the reader stands, and the stream continues from there. `AdvanceFacts` is
the heart of it: the bookkeeping after a partial transfer keeps all of this.
Sums of lengths are a recursive function; the lemmas about it (`SumsDefined`,
`SumsGrow`, `SumsShifted`) are proved by taking a least counterexample.

Only model-checked: liveness (`EveryRequestServed`, `MainReturns`,
`NoDescriptorLeak`, `GetReturns`, `PendingRetried`, `CallsReturn` of
`VectorIO`), which is outside the prover's reach; the refinement
`KeepsRecords`; `IndexExact`, `AttrsInStep` and
`CallsReturn` of `FFSFile`. `Encode`
and `Decode` follow the structure of types with a recursive operator, which the
prover does not take, so they stay with TLC, as do the two facts about
representations.

## Not modelled

About two fifths of the repository's lines are parsers and lexers generated by
bison and flex, checked in for two platforms (`cod/pregen_source`). The compiler
they belong to (`cod/cg.c`, `cod/cod.y`), `ffs_gen.c` and `ffs_marshal.c`
produce machine code through an external library; what that code computes is
beyond a state machine of this kind, and what it is meant to compute for a
conversion is in `Decode`. XML, dumping, field access and the HTTP client are
text conversion without state. `lookup3.c` is a third-party hash, replaced by
constant functions. `nt_io.c` and `null_io.c` are the same interface on other
systems.

Of the modelled parts: the server's single-threaded mode, its statistics, the
host list and the domain check; the client's name lookup, fallback host and
authenticated header; lifetimes of formats and contexts, master contexts and the
parsing of type strings; representations of versions 0 and 1 and of machines
with other pointer sizes; fixed encode buffers; conversions that change the size
of a field, transpose arrays, change floating point formats or fill in defaults.
The server modules take a message as a unit; `VectorIO` is where it is cut into
pieces.

## Plan

1. Proofs: the properties of `FFSFile`.
2. Conversions that change the size of fields in `Decode`; the lifetimes of
   formats in `FMContext`.
