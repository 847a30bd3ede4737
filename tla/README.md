# Specification and proofs of the NETCONF server

TLA+ modules, TLC configurations and TLAPS proofs for the C program in `src/`:
a small NETCONF server over TLS (`networking/`), the parser that turns a request
into a key/value array and the array into a reply (`parsing/`), the data
structures both use, and the test framework its tests run under (`Unity/`).

Run a configuration with `tlc -config Session.cfg MCNetconfServer.tla`, check
the proofs of a module with `tlapm NetconfServerProofs.tla`. `PROJECT.json` ties
each run to its configuration, each definition to the lines it models, each
theorem to its property and each property to a mutation of the code that breaks
it.

## 1. The system

| part | code | state | operations |
|---|---|---|---|
| server loop | `networking/network.c` 43-324 | control point, listening and client socket, one TLS context, `buf`, `device`, `msg_num` | start-up, `reset:`, accept, handshake, read, dispatch on the result of a write, close_notify, `exit:` |
| writing replies | `network.c` 15-41 | none | `write_to_client`: reply as `sprintf` format, `mbedtls_ssl_write`, result `RESET`, `EXIT` or 0 |
| process entry | `netconfd.c` | none | `main` calls the loop and returns 0 |
| framing and parsing | `parsing/parse.c` 5-27 | none | `parse_xml`: cut at the first `]]>]]>`, `xmlReadMemory` |
| request interpretation | `parse.c` 39-53, 151-170 | the array | `process_xml`, `traverse_xml`, `extract_xml` |
| replies | `parse.c` 55-149, `network.h` 34-134 | the device | `create_xml_reply`, `create_netconf_response_4`, `int_to_str` |
| key/value array | `parsing/DataStructures/KeyValuePairArray.c` | struct with `data`, `size`, `capacity`, `request_type` | init, set type, add, look up, free |
| device | `parsing/module/abcc.c` | `IP_ADDRESS` | `init_abcc`, `set_IP_ADDRESS` |
| hash map | `parsing/DataStructures/hashmap.c` | buckets of chained entries | create, put, get, free; **no file of the program calls it** |
| unit tests | `tests/unitTests.c` | — | calls on the array, nine tests under Unity |
| test runner | `Unity/unity.c` 497-569, 2117-2257, `unity_internals.h` 492-543, 762-847 | `struct UNITY_STORAGE_T`: counters, flags, details, `AbortFrame` | `UnityBegin`, `RUN_TEST` (setUp, test, tearDown), fail, ignore, message, pass, `UnityEnd` |
| assertions | `unity.c` 80-325, 572-895, 1380-1864, `unity_internals.h` 423-495, 853-1032, `unity.h` 117-680 | none | the assertion macros and functions, what a failure prints |
| Makefile | build | — | — |

How they interact. The server is one thread. It accepts one connection at a
time; while it serves it, others wait in the kernel's backlog. For every
successful `mbedtls_ssl_read` it parses the buffer, fills a fresh array from the
document, computes a reply (which may change the device), writes the reply,
frees the array and reads again. All calls are synchronous; the shared state is
what the stack frame of `mbed_ssl_server` holds across backward `goto`s: one TLS
context for all connections, one buffer, one device, one counter.

What is hard about it:

- *Reuse across sessions.* `ssl`, `client_fd`, `device`, `msg_num` and `buf`
  live in one frame and are entered again by `goto reset`. Each must be renewed
  on **every** path (read error, failed handshake, write reset, close) and no
  path may skip the socket's release.
- *Interleaving with clients.* They connect, send, close and vanish at any
  point: in the backlog, during the handshake, between a request and its reply.
- *Framing.* A TCP/TLS stream is taken message by message at record boundaries.
- *Two ways out.* `exit:` releases everything; a parse failure returns from the
  middle of the loop. Writing 0 bytes counts as an error that ends the server.
- *Boundaries.* A signed char counts messages; an `unsigned char` carries a
  capacity; the array refuses the eleventh pair and the caller ignores it.
- *Ownership.* Who frees which block of the array, of a refused pair, of a reply
  that is sometimes a literal and sometimes allocated.
- *Blocking.* No call has a timeout: what is eventually done depends on clients.
- *Allocation.* Any `malloc` or `strdup` may return NULL; few results are looked
  at, and a NULL stored by one call is met by a later one.
- *Recursion over a tree.* `traverse_xml` decides in which order, and whether,
  the elements of a request reach an array with room for ten.
- *longjmp.* A failing assertion leaves setUp, a test or tearDown by a jump to
  whichever frame was set last, with the flags and counters as they are.
- *Integer types.* Unity carries every number in one signed 64-bit type and
  casts, extends and compares it back as the type a macro's name says.

The properties each part needs follow from this; section 4 lists those that are
checked and `PROJECT.json` ("hazards") all the places they come from, with the
ones not covered yet.

## 2. Modules

```
NetconfRequest            operators: one request -> array, reply, address
  |-- NetconfService      abstract service (one session at a time, a journal)
  |-- NetconfServer       the server and its clients;  Service == INSTANCE NetconfService
  |     |-- MCNetconfServer            constants for TLC
  |     `-- NetconfServerProofs        the operators of NetconfRequest, types, TLS context,
  |           |                        connections, sessions, NetconfServer => NetconfService
  |           `-- NetconfFramingProofs     order of what is executed, framed messages
  `-- RequestMemory       heap of the read loop;  A == INSTANCE KeyValuePairArray
        |-- MCRequestMemory
        `-- RequestMemoryProofs        blocks, tree walk, leak;
                                       P == INSTANCE KeyValuePairArrayProofs
XmlTree                   the libxml2 tree, its document order; used by RequestMemory
KeyValuePairArray         the array with its heap
  |-- MCKeyValuePairArray
  `-- KeyValuePairArrayProofs
StringMap                 abstract map from keys to values
HashMap                   buckets, chains and blocks;  M == INSTANCE StringMap
  |-- MCHashMap
  `-- HashMapProofs       entries, blocks, and HashMap => StringMap
UnityRunner               tests, sections, longjmp, counters, exit status
  `-- UnityRunnerProofs
UnityPrint                the numbers of Unity and how they are printed
  `-- UnityMacros         what each assertion macro calls, with which casts
        `-- UnityAssert   one assertion, step by step
              |-- MCUnityAssert
              `-- UnityAssertProofs    casts, bits, bytes, verdicts, places, bounds, texts
PositionProofs            positions, sequences, division and powers of two:
                          lemmas the proofs share
```

### NetconfRequest

The stateless core of `parse.c`. A document is its root's name and its
descendant elements in document order, each with a name and a text.
`ProcessXml` is the array after `process_xml`; `CreateXmlReply` follows the
order of tests in `create_xml_reply` (where `get_key` returning 0 means *found*);
`NewAddress` is what happens to the device; `NextId` is `++msg_num` on a char;
`Sprintf` is what a reply goes through on its way out: it is used as a format,
and an address passes through `xmlNewChild`, so a text with `%` or `&` is not
delivered as stored. Replies are abstracted to their kind, message-id and
address. A root other than `hello` and `rpc` is kept as it is: the test in
`process_xml` (parse.c:45) needs the name to equal both at once and never holds.

### NetconfServer

`pc` is the statement `mbed_ssl_server` executes next: `startup`, `reset`,
`accept`, `handshake`, `read`, `handle`, `write`, `close`, `exit`, `returned`,
then `exited` or `terminated`. One action per statement and outcome:

| action | code | notes |
|---|---|---|
| `StartupCall`, `StartupFails` | 71-163 | eight calls; after the fifth (`bind`) clients can connect |
| `Reset` | 165-176 | closes the client socket and renews the TLS context |
| `Accept`, `AcceptFails` | 178-190 | takes the head of the backlog; a failure ends the server |
| `Handshake`, `HandshakeFails` | 192-209 | a context that still holds a handshake returns 0 at once; then `msg_num` and the device are initialised |
| `ReadRecord`, `ReadEnd` | 210-241 | a read returns pieces of one record, at most `BufSize` of them |
| `HandleRequest`, `ParseFailure` | 243-263 | parse, fill, choose the reply, set the device |
| `WriteReply`, `WriteReset`, `WriteFails` | 15-41, 264-281 | the counter advances in each; 0 bytes written leads to `exit` |
| `CloseNotify` | 284-297 | success and failure both go to `reset` |
| `Exit`, `ReturnFromMain` | 299-322, `netconfd.c` | the kernel resets what the process held |

`MBEDTLS_ERR_SSL_WANT_READ/WRITE` repeats the call: a stuttering step.

Clients, TCP and mbedTLS are external and modelled from how `network.c` uses
them. A client goes from `new` over `queued` (in the backlog) and `up` to
`closed` (it closed), `dead` (it vanished) or `dropped` (the server let it go).
A message is cut into pieces, `size` pieces of body and two of delimiter, so
that a record may hold part of a message, one message or several, and may split
the delimiter; `WholeMessages` restricts clients to one message per record.
`Faults` names the library calls that may fail with no peer at fault. `sent` and
`journal` are history variables: what a client sent, and what the server executed
in the session; `written` is what the server has written on each connection.

### NetconfService

What the server promises, without sockets, buffers or framing: one client is
served at a time; each request executed appends to the session's journal and
makes a reply due that is a function of that journal alone; the reply is
delivered before the next request is executed; a session may end and the service
may stop at any moment, losing the pending reply. `ImplementsService` is this
specification under the refinement mapping `running <- pc \notin Ended`,
`session <- conn`, `journal` and `pending` only inside a session.

### KeyValuePairArray

Each call with the heap blocks it allocates and frees. A block is a number that
is never given out twice, so a stale pointer is one outside `heap`; a field no
call has set (`request_type` after `init_key_value_array`) is a choice between
NULL and garbage. Every `malloc` and `strdup` may return NULL (`Allocations`);
what the code then does with it is in the action, up to the dereference that ends
the process (`crashed`): a NULL key is met by the next look-up that walks past it
(`MeetsNull`), an array without data by the first pair stored. `ArrayNext` is an
owner that makes the calls in any order, and does what the unit tests do beside
them: `ReleaseByHand` frees the accepted pairs, or `data`, and drops the array
(unitTests.c:57-62, 79-82, 104-107, 132), `FreeRefused` frees a refused pair (61-62). It does
not use an array after freeing it. Two of these leak: a second
`set_request_type` overwrites the pointer to the first name without freeing it
(KeyValuePairArray.c:36), and an owner that frees by hand leaves the rest of the
array's blocks. The history variable `lost` holds those blocks, and
`BlocksAccounted` says that no other one goes astray.

### XmlTree and RequestMemory

`RequestMemory` runs the calls of one pass of the read loop after another on the
same array and adds the document, the number string, the reply and the device's
address. The document is a tree of elements, texts and other nodes (`XmlTree`);
`traverse_xml` walks it with an explicit `stack`, one entry for the loop variable
of each activation (`TraverseXml` goes down, `Return` steps the caller to the
next sibling), and `extract_xml` takes each element. That the array ends up as
`NetconfRequest` computes it from the elements in document order is the property
`ArrayHoldsRequest`, which ties the two models together. `CreateReply` has the
four allocations of `int_to_str`, `create_netconf_response_4` and
`set_IP_ADDRESS` and what is dereferenced on the way.

### HashMap

`put` is two actions, for the key found and not found; the table is a chain per
bucket with the blocks each entry takes. Which bucket a key falls into is a
constant function: what the map promises may not depend on the hash. `Djb2` is
the hash of the code. `ImplementsMap` is the abstract map of `StringMap` under
the mapping that looks each key up in its chain; a missing key answers -1, which
is also a value that may be stored, as in the code.

### UnityRunner

`pc` says which section runs: `setUp`, `body`, `tearDown`, or the runner itself.
A section executes up to `MaxStatements` statements, each one of: a condition that
holds, an assertion that holds, a failing one, ignore, message, pass, setting a
detail. `Abort` is the longjmp: it continues behind the `TEST_PROTECT` that set
`AbortFrame` last, so a failure in setUp or the body enters tearDown and a
failure in tearDown concludes the test. `verdict` and `verdicts` are history
variables: what the first failing or ignoring statement of each test says.

### UnityPrint, UnityMacros and UnityAssert

One use of one macro, from the call to the verdict. `UnityMacros` has an operator
per family of macros with the casts of each type; `CallOf` expands a use of a
macro to the function called. `UnityAssert` has an action for each function
without a loop and one for each iteration of the loops over elements, bytes and
chars. An array is its bytes behind a pointer, loaded by length and sign as the
code does (`Load`), so a type that is read with the wrong width or extension
differs. `UnityPrint` gives the text a value is printed as, the sequence of the
char codes put out. In a string, an ANSI escape (`InEscape`: from an ESC with a
`[` behind it to its `m`) is put out as it is; one that a NUL ends gets an `m`
that is counted as one of the string's, so that `UnityPrint` goes on behind the
NUL (`PrintAt`, `PrintEnd`), and where the array has no other NUL the text ends
in whatever the memory behind it is printed as (`Beyond`). `UnityPrintLen`
(`PrintLen`) has no such branch. What a macro
promises (`Holds`, `FirstPlace`) is defined from its arguments alone, on the
mathematical values of the type in the macro's name. Which uses there are is the
constant `Macros`; `IsUse` says what the C types of the arguments allow: any
number where the macro casts it, bytes of an element's length in an array (`INT`
and `UINT` arrays are not cast, so their elements are ints: `Fits`), an array
with as many elements as the test asks for, or NULL, and strings that end.

## 3. Bounds and fairness

Constants are small for TLC and arbitrary in the proofs:

- two clients (`c1`, `c2`, symmetric where no liveness is checked): one served,
  one waiting, gone or next, which is what the interplay of sessions needs;
- `MaxCapacity = 3` for 10, with one document (`LateEdit`) whose address is the
  fourth element; `CharMax = 1` for 127, so the counter has the values -2..1 and
  wraps after the second message of a session;
- `BufSize = 4` pieces: an edit (2 + 2 pieces) just fits, two messages do not;
- `MaxMessages` per connection: 2;
- documents: `hello`, a `get`, edits of the running datastore with an address
  that is copied and one that `sprintf` garbles, a late edit, an edit of another
  datastore, and an operation the server does not know (`lock`);
- array runs: a limit of 2 pairs, at most 9 allocations (`MaxBlocks`: an array
  filled, with a pair refused and the request type set twice), and capacities
  0, 2, 3 and 257 (within, above the limit, and cut to 1 by `unsigned char`);
  up to two allocations fail where keys and values are typed;
- memory run: the trees of `MCRequestMemory`, with nested, empty, commented and
  late elements, in the sessions and requests `MaxSessions` and `MaxRequests`
  allow (two of each), and one allocation that fails;
- hash map: four keys, two to each of two buckets, so that chains of one and two
  entries occur beside each other, and -1 among the values; one of the keys has
  chars that C reads as negative; 12 blocks (`MaxBlocks`);
- test runner: three tests of at most two statements per section
  (`MaxTests`, `MaxStatements`) and three exit statuses (`StatusRange`, 256 in
  the program), so that a third failure wraps the status;
- assertions: a byte has two bits, so 1, 2, 4 and 8 bytes are numbers of 2, 4,
  8 and 16 bits and each type's ends are among the 17 numbers used; arrays and
  memory of up to two elements of up to two bytes (arrays of numbers: of
  every type), masks with and without a message. A char of two bits is a NUL, an
  ESC (-1), a `[` (1) or an `m` (-2): strings of up to two of them everywhere, and
  up to four in `EscapeMacros`, so with an escape that ends, one that does not, one
  in another, and chars behind the `m`; some have a second NUL. `Beyond` has two
  texts, one of them empty. No char left is a backslash, a newline or a carriage
  return, so the condition `NoBackslash` of `FailureShowsDifference` is always met
  in TLC's uses; it is the theorem that needs it and that covers these chars.

Deadlock is not checked where the program may stop: the server ends in `exited`
or `terminated`, bounded clients run out of messages, a test program ends and an
assertion returns.

Fairness. `UnityRunner` and `UnityAssert` assume `WF_vars(Next)`: one thread that
runs, and tests whose sections end. For the server (`FairSpec`, used by
`liveness`): `WF(ServerAlone)`, the server is one thread that runs whenever a call
that needs no peer can return, and four assumptions about the clients
(`ClientFairness`), because nothing in `network.c` times out:

- `WF(Handshake)`: a client that is accepted takes part in the handshake, or goes
  away. `mbedtls_ssl_handshake` (network.c:196) blocks for ever on one that
  connects and stays silent, and the others stay in the backlog.
- `WF(WriteReply)`: a client reads its replies; `mbedtls_ssl_write`
  (network.c:26) blocks on one that does not once the socket's buffers are full.
- `WF(FlushSome(c))`: a client sends what it wrote.
- `WF(CloseAnswered(c))`: it hangs up once every message is answered.
  `mbedtls_ssl_read` (network.c:216) waits for ever for one that stays connected.
  A client that is *not* answered may wait for ever, so the server cannot rely on
  it to leave.

Library
faults are off in this run because with them the server may legitimately end.

## 4. Runs

| run | result | what it shows |
|---|---|---|
| `session` | passes | Any order of faults, disconnects and requests. `ContextServesConnection`: a session runs on its own client's handshake. `NoOrphanConnection`: no path overwrites `client_fd` with a connection open. `SessionState`: device and counter follow from this session only. `RepliesMatchRequests`: one reply per request, the right one, before the next is executed. `FramedRequestsServed`: with one message per record that fits the buffer (`Framed`, true in this run) nothing is skipped and parsing never ends the server. `TypeOK`: the counter stays a char. `ImplementsService`: the refinement, under every fault. |
| `framing` | passes | `ExecutedInOrder`: records cut in any way; what is executed are whole messages, in order, none twice (some may be skipped). |
| `liveness` | passes | `EveryConnectionAccepted`, `EveryMessageAnswered`, unless the server ends or the client leaves, for clients that take part in the handshake, read their replies, send what they wrote and hang up once answered (section 3). |
| `key_value_array` | passes | `ArrayTypeOK` (bounds), `NoBadFree`, `BlocksAccounted` (every block is the array's, the caller's, or one of those a second `set_request_type` or a release by hand loses), `FirstPairWins` (what a look-up returns, from the history of offered pairs), `CrashNeedsFailure` (no NULL is used unless an allocation failed). |
| `request_memory` | passes | `NoDanglingPointer`; `ArrayHoldsRequest`: the array filled by the tree walk equals `ProcessXml`; `LeakPerRequest`: exactly which blocks each request leaves, and no more when an allocation fails; `CrashNeedsFailure`: no request by itself makes the loop use a NULL pointer. |
| `hash_map` | passes | `EntriesWellPlaced` (a key once, in its bucket; `size` counts), `BlocksOwned` (`free_hashmap` frees each block once and all of them), `ImplementsMap`, `HashTypeOK`. |
| `unity_runner` | passes | `CountsMatchVerdicts`, `OneResultPerTest`, `StatusTellsFailure` (with fewer tests than statuses), `RunnerTypeOK` (never failed and ignored at once), `Ends` (no longjmp to a section that was left). |
| `unity_assert` | passes | `VerdictRight` (passes exactly when the relation of the macro's name holds), `FirstMismatchReported`, `ReadsInBounds` (every loop over elements, bytes and chars, and the printing of a failure), `FailureShowsDifference`, `Terminates`, `AssertTypeOK` (the indices printed are of elements and bytes there are). Where every ANSI escape of a string has its `m` (`NoOpenEscape`), the printing stops at a NUL of the string and two strings that differ have different texts. |
| `unsupported_operation` | violation | A well-formed request with an unknown operation gets the empty reply; writing 0 bytes is taken for an error and the server exits (`ReadsContinuously`). |
| `split_message` | violation | A message in two records fails to parse and `mbed_ssl_server` returns (`ReadsContinuously`). |
| `lost_edit` | violation | The server advertises `writable-running`, but an edit does not outlive the session (`EditsOutliveSession`). |
| `untyped_array` | violation | Freeing an array before `set_request_type` frees an unset pointer, as `test_init_key_value_array` does (`NoBadFree`). |

The violations are disagreements between the code and a comment, advertised
capability or test of the repository; `PROJECT.json` ("findings") quotes them.

## 5. Proofs

The theorems hold for every value of the constants that satisfies the named
ASSUMEs of the module. For the server these are `RequestAssumption` (documents
are well-formed records, texts are strings, the default address is one of them,
`MaxCapacity` and `CharMax` positive) and `ServerAssumption` (`NoClient` is not a
client, the buffer holds something, the bounds are numbers). Nothing is assumed
about how clients frame messages, which calls fail, or how many clients there
are. Each proof states an inductive invariant, shows that `Init` implies it and
that every action keeps it (one lemma or step per action), and derives the
properties of the runs from it.

**The server** (`NetconfServerProofs`, which begins with the lemmas about the
operators of `NetconfRequest`).

- `TypeCorrect`, `ContextCorrect`: `CoreInv` is inductive. `TypeOK` and
  `ContextServesConnection` alone are not: the step into `read` needs to know
  that the context was reset when the handshake began, hence `ContextAtLabel`,
  which says for *each* label what the socket and the context hold; the step out
  of `write` needs `ReplyInFlight`; the counter of start-up calls needs
  `CallsLeft`.
- `NoOrphans` needs more: `ConnectionInv` adds that the backlog holds exactly
  connections in the state `queued` or left by their client.
- `SessionStateCorrect`, `RepliesCorrect`: `SessionInv` relates the journal to
  the replies on the connection. At the start of a session the journal is empty,
  so the connection must have no replies yet: `UnservedIsEmpty` says that a
  connection that is `new` or `queued` has none. The steps of a request use two
  lemmas about the service's view, `AddressAfterAppend` and `ReplyDueAppend`, and
  `NextIdCounts`, which says that the wrapping counter is the number of replies
  modulo the range of a char; `ReplyIgnoresOwnEdit` says that an edit's reply
  does not show the address it sets.
- `Refinement == Spec => ImplementsService`: the initial state maps to an initial
  state, and each action to `Begin` (`Handshake`), `Execute` (`HandleRequest`),
  `Deliver` (`WriteReply`), `End` (the read loop is left), `Stop` (the process
  ends) or a stutter.

**Framing** (`NetconfFramingProofs`, which EXTENDS the former).

- `OrderCorrect == Spec => []ExecutedInOrder`. What was executed is in order only
  if what is still to be executed comes after it, so `OrderInv` follows a message
  along its way: `WireInOrder` says that the pieces in the records and those the
  client has yet to put into one are in the order sent, `BufferInOrder` that
  what is in the buffer comes before them, and `JournalInOrder` that each is past
  every journal entry: of a later message, or not the first piece of the same
  one. Records are cut anywhere, and `ReadRecord` may take a part of one.
- `FramedCorrect == Spec => []FramedRequestsServed`. When the clients put whole
  messages into records that fit (`Framed`), `FramedOnWire` says that the records
  on their way are the *last* messages of the client, one to a record, and
  `FramedSession` that the journal and the message in the buffer are the ones
  before, none missing. `WholeMessageParses` says that `parse_xml` accepts such
  a buffer, so the server never returns on a parse error.

**The array** (`KeyValuePairArrayProofs`), for any keys, texts and capacities, any
number of allocations that fail, and any caller that respects ownership.
`ArrayInv`: `BlocksAccounted` alone is not inductive, since `free` of the array
removes what its pointers name, and if two named one block the bookkeeping would
go wrong; so `BlocksDistinct` (no two pointers of the array are equal unless
NULL), `BlocksHeld`, `HoldsFirstOffered` (the pairs are a prefix of those offered:
what `FirstPairWins` needs) and `NullNeedsFailure` (a NULL in the array means that
an allocation failed: what `CrashNeedsFailure` needs). `CallerInv` adds what is
the owner's: the blocks it keeps and those it lost are allocated and apart from
the array's. `NoBadFreeCorrect` assumes
`SetsType`, an owner that names a request type before it frees: without it the
property is false, which the run `untyped_array` shows.

**The memory of the read loop** (`RequestMemoryProofs`), for any set of trees that
libxml2 can build (`IsTree`: a root, and every other node below the root and at
most one level below the node before it), any number of allocations that fail, and
`MaxCapacity` up to 255, what the `unsigned char` of `init_key_value_array` holds
(the program passes 10). The calls on the array are the actions proved about in
`KeyValuePairArrayProofs`, instantiated here; `CallerTakes` and `CallerFrees` say
what an allocation or a free by its caller leaves of `ArrayInv`.

- `NoDanglingPointerCorrect`, `CrashNeedsFailureCorrect`: `LoopInv`. At each
  statement `LoopBlocks` says which of the loop's own pointers (document, number
  string, reply, device) are valid and that no two share a block, and
  `ArrayInUse` that the array is live exactly between its two calls and typed
  before it is looked at.
- `ArrayHoldsRequestCorrect`: the walk is recursive in the code, and the array
  says nothing of where it is; `Traversal` therefore relates the stack of
  activations, the last node visited and the pairs offered. `StackAt`: each
  waiting activation is at a node whose subtree is being walked, the last one at
  the next node in document order or at the end of its level. `OfferedUpTo`: the
  pairs offered are the elements so far, numbered by how many come before them,
  so no induction over the tree is needed. An empty stack then means that the
  whole tree was visited.
- `LeakPerRequestCorrect`: `Accounted` follows the count while the request is
  handled: two blocks for each refused pair during the walk, then those of the
  reply and of the device's old address; an allocation that fails makes it an
  upper bound.

**The hash map** (`HashMapProofs`), for every hash function, every number of
buckets and any set of keys (finite in `HashTypeCorrect`, which compares `size` with
their number). `MapInv` counts the entries twice, as places (bucket and position) and as keys: `SizeCounts` makes
both sets finite with `size` members, so that `put` and `remove` change them by one
member and no induction over a chain is needed; `OneEntryPerKey` makes the two
agree, and `BlocksCounted` derives the heap's size from the same count.
`ImplementsMapCorrect` shows that every call is the call on `StringMap`.

**The test runner** (`UnityRunnerProofs`), for any number of tests and of
statements in their sections. The properties speak about tests that have ended;
`RunnerInv` says of the test under way what the flags tell (`FlagsTell`: exactly
its verdict so far, wherever a longjmp left it, and nothing between tests), what
has been printed of it (`LinesTell`: no result line before it failed or was
ignored, one after) and whose details are kept (`DetailsTell`).
`StatusTellsFailure` follows from `StatusTells` and the counts.

**The assertions** (`UnityAssertProofs`), for every use of a macro the C types
allow (`MacrosAssumption`: `IsUse`), so for numbers, arrays, strings and blocks of
memory of any size, and for bytes of 2, 4, 6 or 8 bits (`PrintAssumption`); the
program has 8. Five layers, each used only by the next:

- *Numbers.* The facts about 2^n that the casts need are not in reach of the
  solvers; `PositionProofs` derives them (`PowerSum`, `PowerMonotonic`) from
  2^n being the number of subsets of a set of n members (`PowerIsCardinality`).
  Then a cast to a signed or unsigned type keeps the value of that type and no
  other (`CastFacts`, `CastsAgree`, `LessIsLess`, `WithinRight`): a number is
  still told apart after it was carried in 64 signed bits. `BitsHighRight`,
  `BitsLowRight` and `OneBit` say the same of masks, which is where the 32 bits
  of the variants with a message matter.
- *Bytes.* `SumOfBytes` and `LoadElement`: the bytes behind an array pointer, read
  back with the length and sign of the display style, are the number the test put
  there. The sum is a recursive function and the proof by its smallest
  counterexample (`SmallestExists`), which needs no induction theorem.
- *Verdicts and places.* One lemma for each function without a loop says that it
  passes exactly when the macro's relation holds. `FirstElement`, `FirstByte`,
  `PlaceOfElement`, `PlaceOfByte`: what the code computes from its decremented
  counter is the first place that differs. `TextsAgree`, `TextsDiffer`,
  `PrefixesAgree`: two strings that agree up to a NUL, or to the length, have the
  same text, and two that differ at a char before have not.
- *The loops.* The properties speak about an assertion that has returned;
  `AssertInv` says where its loops are. `NumbersInv` and `MemoryInv`: after i
  elements both pointers stand at element i (a single expected value still at 0)
  and the elements before it agree; `BytesInv` the same inside an element;
  `StringsInv`, `CharsInv`: the strings before this one agree, and so far the
  chars of this pair do and none is a NUL, so neither has ended.

- *Texts.* `FailureShowsCorrect` needs that different values have different texts,
  and each form of printing needs its own reason. In hex (`HexShows`), numbers
  with the same nibbles have the same bytes; in decimal (`DigitsShow`), the
  quotients by `Divisor` agree from the first digit down to the last, and
  `DivisorIs` with `SpanIsSmall` says that twenty digits are enough for a
  UNITY_UINT; under a mask (`MaskShows`), the bit that differs is at a place that
  is printed, if the mask fits the 32 bits printed (`MaskPrinted`). Strings are
  harder because a char is printed as one, two or four: `FlattenIs` says that
  `FlattenSeq` puts the texts of the chars one after another, `CharsShow` that the
  texts of two different chars differ at their first or a later place without one
  continuing the other, and `PrintLenShows` takes both to the first char that
  differs. This fails if one char is a backslash (`\` before `n` looks like a
  newline), which is the condition `NoBackslash`. `PrintAllShows` says the same of
  `UnityPrint`, which prints a char by the chars around it. An escape that is
  open at the first char that differs is open in both strings, and puts that char
  out as it is. Otherwise an escape may begin there in one string only, with the
  ESC both have before it, since whether it begins depends on the char behind it;
  but what is printed outside an escape never starts with an ESC
  (`NoEscapeChar`). An escape that a NUL ends prints the `m` of another string's,
  which is the condition `NoOpenEscape`.

`VerdictRightCorrect`, `FirstMismatchCorrect`, `AssertTypeCorrect` follow from what
the invariant says of a returned assertion, `ReadsInBoundsCorrect` from where the
pointers are and from `PrintEndIs` (a NUL that ends no escape is where the printing
stops), and `FailureShowsCorrect` from the lemmas on texts, with what the
invariant says of the place where the step finds a difference.

**Only model-checked**, and why:

- liveness under fairness (`EveryConnectionAccepted`, `EveryMessageAnswered`,
  `Ends`, `Terminates`): not provable with the installed provers.

Every invariant of the passing runs is proved.

## 6. Not modelled

- The texts of replies and XML beyond element names and the values the reply
  depends on; the length of a reply against the 1024-byte buffer of
  `write_to_client`.
- What libxml2 keeps globally (`xmlCleanupParser` is called while a document is
  in use), and allocation failures inside the library and in the hash map.
- The exit status of the server, diagnostic output, the build.
- TLS itself, certificates and keys: calls that succeed or fail. A
  `mbedtls_ssl_session_reset` that fails, whose result `network.c` ignores (176),
  is not among them.
- An array used after it was freed: the caller of `KeyValuePairArray` initialises
  it again first, as the program does.
- Of Unity: the float and double assertions and `UnityPrintFloat` (TLC has no
  floating point), `UnityPrintF` and the command-line options (compiled out), the
  wording of messages.

Five places of Unity where a property above would not hold are left out of the
uses checked and proved about, by name: masks and bit numbers beyond the 32-bit
casts of `TEST_ASSERT_BITS_HIGH_MESSAGE` and `TEST_ASSERT_BIT_HIGH_MESSAGE`
(unity.h:434, 436; excluded by `IsUse`), the 4-byte elements of
`TEST_ASSERT_EQUAL_size_t_ARRAY` (unity.h:305; not among the types), masks
above bit 31 in `UnityPrintMask` (unity.c:303; excluded in
`FailureShowsDifference` by `MaskPrinted`), strings with a backslash, which `UnityPrintChar` prints as it is (unity.c:83;
excluded by `NoBackslash`), and strings with an ANSI escape that has no `m`, which
`UnityPrint` reads past their NUL (unity.c:111-126, 142): `"\x1b[1"` and
`"\x1b[1m"` differ and print the same text. `UnityPrint.tla` models what the code
does with them; `ReadsInBounds` and `FailureShowsDifference` exclude them by
`NoOpenEscape`. Strings are NUL-terminated, as every use by the tests is:
`UnityPrintLen` (unity.c:158) reads a char before it checks the length.

## 7. Plan

Done: the server, the service and the refinement, the array and the memory of
the read loop with allocations that fail, the tree walk, the hash map, the test
runner and the integer, array, string and memory assertions; every invariant of
the passing runs is proved. What is left, in this order:

1. That the pairs `RequestMemory` offers and the array `NetconfServer` computes
   with give the same reply, as one theorem over both models.
2. If the sizes of serialised replies are ever fixed: their length against the
   1024-byte buffer of `write_to_client`.
