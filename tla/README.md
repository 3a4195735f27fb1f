# json_watcher_c in TLA+

json_watcher_c is two programs. The *server* watches one JSON file that lists
Wi-Fi access points (SSID, SNR, channel) and publishes each change of the list
on a ZMQ PUB socket. The *client* subscribes and prints what it receives. This
directory holds a TLA+ specification of both programs, of the message transport
between them and of the stateful parts of the libraries they carry along, the
configurations that model-check it with TLC, and theorems about it checked by
TLAPS.

## The system

| component | source | state | operations | talks to |
|---|---|---|---|---|
| access point map | `server_src/access_points_data.c` | a string hash map: entries in insertion order, distinct keys | create, add (overwrite or append), size, find, compare two maps' entries | called by the parser and by server main; made of stb_ds |
| server main | `server_src/server_main.c` | `CURRENT_AP_HASH_MAP`, the map just parsed, a loop index | `init_data`, callbacks `file_modified` and `file_deleted`, signal handler, clean-up | called back by the file monitor; calls parser, map, communication |
| communication | `server_src/communication.c` | `pub_socket` | create, destroy, send NEW_SSID / REMOVED_SSID / CHANGED_SSID | ZMQ |
| file monitor | `server_src/file_monitor.c` | inotify descriptor, event buffer | add watch, read events, call back, stop on deletion | the kernel; server main's callbacks |
| JSON reading | `server_src/json_parser.c` | a buffer, a token array | `read_file`, `parse_json_from_buffer` | the file system, jsmn, the map |
| client main | `client_src/client_main.c` | `sub_socket` | connect, receive, dispatch, signal handler | ZMQ, client printer |
| client printer | `client_src/message_printer.c` | what it has printed | print each message, assert what it holds | called by client main |
| message interface | `common/msg_interface.h` | | message ids and pictures | both programs |
| transport | czmq / libzmq (not in the repository) | a queue per subscriber | connect, publish, transmit, destroy | both programs |
| jsmn | `3rdp/jsmn/jsmn.h` | tokens, super token | `jsmn_parse` | JSON reading |
| stb_ds | `3rdp/stb/stb_ds.h` | array, slots, tombstones, key copies | put, get, delete, free | the map |
| munit | `3rdp/munit/munit.c` | suites, child processes, reports; random state | run suites, tests, combinations; draw numbers | the unit tests |

What is hard here, and what would have to hold:

* **A history of files, told as differences.** The server never sends a list, only
  differences between two parses. One access point left out, announced with the
  wrong kind, or compared with the wrong entry stays wrong at the subscriber. The
  list a subscriber builds must equal the server's map after every batch, and no
  batch may speak twice of one access point.
* **A file that is being written.** The file is read with no lock, while events
  about it queue up and are merged. Whatever is read in between, the text the file
  ends with must be adopted; only the loss of the file may end monitoring.
* **The order of first parse and watch.** The file is parsed first and watched
  second: what is written in between is not seen.
* **Signals.** The handler destroys the socket while a batch is being sent, while
  the other handler or main does the same, or before it is installed.
* **Delivery.** PUB/SUB drops for late and slow subscribers, and a restarted server
  announces nothing; what a client was told must still come out right. Removals sent
  just before the socket is destroyed may not leave the process.
* **Parsing.** A token limit, an attribute that is not known, truncated names and
  numbers that are out of range change what a file means.
* **The hash table.** It grows, shrinks, is rebuilt and reuses deleted slots; a
  search that finds no empty slot never ends, one that ends too early loses a key.
* **The test runner.** A result reaches it through a pipe from a process that may be
  killed at any point; a success must not be made of a part of a report.

`PROJECT.json` lists these hazards one by one, at their lines, with the properties
that cover them, or why none does.

## Modules

    AccessPointsData ─┬─ Communication ─┬─ ServerMain ─┬── MCServerMain    (2 configurations)
                      │                 │   (INSTANCE ChangeFeed)
                      ├─ ChangeFeed     │              └─ WatcherSystem ── MCWatcherSystem (2)
                      │     PubSub ─────┴─ Client          EXTENDS PubSub, INSTANCE Client
                      │
                      ├─ StringMap
                      │     └─ INSTANCE in StbDs ── MCStbDs
                      └─ JsonDocuments ── JsonParser ── MCJsonParser (2)

    FileMonitor ── MCFileMonitor (2)         Lifecycle   (MCLifecycle.cfg)
    TestRunner ── MCTestRunner               Prng ── MCPrng

    AccessPointsDataProofs ── ServerMainProofs ── WatcherSystemProofs
    StbDsProofs       JsonParserProofs
    FileMonitorProofs        LifecycleProofs        TestRunnerProofs

A module of proofs EXTENDS the module it is about.

**AccessPointsData** is the map as a sequence of entries with distinct keys.
Positions start at 1, so `AP_MAP_NOT_FOUND` is 0 and not -1. `ListOf` forgets the
order: the function from SSIDs to parameters, or `Absent`.

**Communication** builds the three messages and states, as predicates, what the
client's printing functions assert and pop. `send_param_change` sends the SNR as the
new channel, as line 120 of the source does. `Applied` is what a message tells a
subscriber about the list it holds.

**ChangeFeed** is the abstract specification: one list, changed by one access point
at a time, each change real and announced by one event naming it, while the feed is
open. It knows of no file, map, position or loop.

**ServerMain** is the process. Its actions are the functions of `server_main.c`; the
loops of the callbacks are cut at each turn, because each turn sends a message and
a signal or a subscriber can come in between. `pc` is the place in the code, `i` the
loop index, `current` and `new_map` the two maps. The history variables `batch`
(messages of the callback in progress) and `view` (list of a subscriber that missed
nothing) are only written. The environment chooses any map of `ParsedMaps`, or
`NULL`, for each parse, and when callbacks, failures and signals come.

**Lifecycle** is the life of either program as signals see it: start-up in its four
stages, the loop, the way out. A signal stays pending while its own handler runs
(`sigaction` is called with an empty mask), so two activations of the handler can
be on the stack, over main; `frames` is that stack and only its innermost element
runs. `zsock_destroy` is two steps (mark and free), since the assertion of czmq
depends on who is between them. `allocating` says that main holds the lock of the
allocator, which the handler may need to free the socket.

**FileMonitor** is what decides when the callbacks come: `read_file` in pieces,
inotify's queue with merging, `get_file_events`' buffer, `monitor_file`'s end, and
main's order of first parse and watch. The file system, the writer (which opens
with or without truncation, writes chunk by chunk and may stop half-way), unlink,
move, replacement by rename and unmount are the environment. An unlinked inode is
destroyed, and reported as deleted, only when its last holder closes it. A text is a
sequence of chunks; `Parsable` says which texts make a map, and the map is named by
the text. The empty text does not parse (`json_parser.c:127`).

**JsonDocuments** defines what a document says, without regard to how it is read:
the last of equal attributes and of equal names counts, a missing one is zero or
empty, names are cut. Of a number it says what an unsigned int shows of it
(`UnsignedSaid`): its own value, the one that is off by a multiple of the range when a
long holds the number, the largest or the smallest when no long does. It also
writes a document as lexemes. A value is a name, a number or an object of plain
values; `WellTyped` says that an SSID is a name and a parameter a number, in the
access points and in the objects inside them.

**JsonParser** is `parse_json_from_buffer`: jsmn's tokenizer, one action per kind of
lexeme, then the walk, one action per turn of its two loops. A number goes through
`strtol`, which gives the nearest long, and is then cut to an unsigned int. Token sizes, the super
token and the token limit are jsmn's own, because the walk counts by them. The text
is a document, a beginning of one (broken inside a string too), or a document with the
end of an older one behind it. Blanks, escapes and the characters of strings and
numbers are abstracted. Documents give each key a value, and known keys one of the
right kind.

**PubSub** is the transport: who is connected, the queue a publisher has for each
subscriber (`pipe`, up to the high-water mark `HWM`; a message that finds it full is
dropped for that subscriber), and what has reached the subscriber's process
(`inbox`). What is sent before a subscription has arrived is not for it; destroying
the PUB socket throws its queues away. It is an external library, modelled as the
two programs set it up.

**Client** is `client_main.c`: connect, install the handler, receive, dispatch by id,
print or abort on a failed assertion. What it prints is abstracted to the list its
lines tell, `shown`.

**WatcherSystem** composes ServerMain and PubSub, which it extends, with any number of
clients (by `INSTANCE`). A server's step that sends is joined with the publishing of its message, a
step that destroys the socket with the loss of what was queued. `Restart` starts a
new server process, which parses and announces nothing. `heard[c]` records the
access points the running server announced to `c` as new or removed with no message
about them dropped since.

**StringMap** is what AccessPointsData takes an stb_ds map to be: entries in an
order, `add_to_map`, a deletion that moves the last entry into the gap, `shfree`.

**StbDs** is the map itself: the array of entries with its capacity, and the hash
index with its buckets, probing sequence, deleted slots and thresholds. One action
per call (`shput` with `stbds_hmput_key`, `arrgrowf` and `make_hash_index`; `shdel`;
`shfree`). The hash function of a new map is any of `HashFunctions`; `heap` is the
set of key copies. Deletion is modelled although the server does not call it: the
thresholds and the reuse of slots exist only for it.

**TestRunner** is munit's runner: the suites as a stack of calls, the parameters of a
test (fixed from the command line or run through), and for each combination a
child process, a pipe and `waitpid`. The child may finish, fail, leave by `exit`, or
be killed at any time, also after a complete report; every system call may fail, a
second `waitpid` after a first one that failed included (the child is then `left`). A
test may return a value that is none of the four results. A
report is sent in two pieces. `--no-fork` and `--iterations` are options like the
others. `truth` and `log` are history variables: what happened, whatever the runner
made of it.

**Prng** is munit's random state shared by threads without a lock: load, compute,
compare-and-swap (which may fail for no reason), and the arithmetic of
`munit_rand_at_most` and `munit_rand_int_range` in words of `Width` bits that wrap.

The definitions introduced as a "faulty variant, not used" are plausible slips in the
code. Each property of a passing run is checked to fail when one of them takes the
place of the definition it follows.

## What TLC checks

| configuration | bounds | properties | result |
|---|---|---|---|
| `MCServerMain.cfg` | 3 SSIDs, 2 values, files of at most 2 entries, repeated names included; one SSID varies in SNR, another in channel | `TypeOK`, `InSync`, `OneMessagePerSsid`, `ClientCanPrint`, `ImplementsChangeFeed`, `ParsedFileIsAnnounced`, `DeletionEmptiesView` | hold, about 16 000 states |
| `MCServerChannel.cfg` | 2 SSIDs, 2 values, 2 entries | `ChannelInSync` | **violated**: a changed channel is announced with the SNR |
| `MCFileMonitor.cfg` | 2 inodes, 3 documents of at most 2 chunks, 3 operations on the file, event buffer of 2 | `TypeOK`, `NoLostUpdate`, `DeletedOnlyIfLost`, `LastTextIsAdopted`, `DeletionIsReported` | hold, about 321 000 states |
| `MCFileReplaced.cfg` | 2 inodes, 1 operation | `DeletedMeansNoFile` | **violated**: a file renamed over the path is taken for a deletion |
| `MCJsonParser.cfg` | about 290 documents of up to 3 access points and 3 attributes, all their beginnings and some ends; 11 tokens, unsigned ints of 2 bits, longs of 4 | `TypeOK`, `KnownDocumentIsRead`, `TornIsIgnored`, `ReadsFilledTokens` | hold, about 742 000 states |
| `MCJsonUnknown.cfg` | the same, 16 tokens | `ReturnsLastToken` | **violated**: the value of an unknown attribute is not passed |
| `MCLifecycle.cfg` | none: both programs, two signals, each sent any number of times | `TypeOK`, `SocketInUseIsOpen`, `SuccessMeansDestroyed`, `AbortOnlyNested`, `OnlyStartupSwallows`, `SignalEndsProcess` | hold, 953 states |
| `MCWatcherSystem.cfg` | 2 SSIDs, 3 maps, 1 client, queues of 1, 1 restart | `HeardIsRight`, `NoClientAborts`, `RestIsShown` | hold, about 135 000 states |
| `MCWatcherRemovals.cfg` | the same, queues of 2, no restart | `RemovalsAreNotified` | **violated**: removals are discarded with the socket |
| `MCStbDs.cfg` | 5 keys, one with 2 values, buckets of 4 slots, 2 hash functions | `FindsEveryKey`, `SearchesEnd`, `CountsAreRight`, `KeysAreOwned`, `FitsCapacity`, `ImplementsStringMap` | hold, about 73 000 states |
| `MCTestRunner.cfg` | 3 suites, 3 tests, up to 2 parameters of 2 values, 12 command lines, 2 iterations | `TypeOK`, `VerdictsAreTrue`, `EachCombinationOnce`, `FatalStopsTheTest`, `NoChildIsLeft`, `RunnerEnds` | hold, about 539 000 states |
| `MCPrng.cfg` | 2 threads, words of 3 bits, 5 words drawn | `TypeOK`, `StreamIsKept`, `ResultsAreInRange` | hold, about 837 000 states |

Why the bounds are enough.

* *ServerMain.* Two entries make both loops run zero, one and several turns and put an
  entry at a position it does not have in the other map; a third SSID lets a batch
  add, change and remove at once. Two values make each parameter equal or different.
  The number of files is not bounded: the histories are as long as the state graph.
  The theorems below cover the safety properties for all maps.
* *FileMonitor.* Two chunks make every reading divisible once, which is what tearing
  needs; a mixture of two documents parses, so a torn reading can be adopted; a
  buffer of two events is smaller than the queue (`IN_MODIFY`, `IN_DELETE_SELF`,
  `IN_IGNORED`), where the real one holds 64. Three operations allow open, rewrite and
  replace, or unlink, create and replace. `MaxOps` is the only bound in a guard;
  writes of chunks are not counted by it. One operation in `MCFileReplaced.cfg` is on
  purpose: the counterexample can then only be the replacement, not a file deleted
  and created again.
* *JsonParser* has no loop but over its text. The documents have every pair of
  attributes, known and unknown, in both orders, equal names in two access points,
  two names that are cut to one, and values that look like keys or hold an object
  with a known key. The numbers are those an unsigned int holds, those it does not
  (negative and large), and those around the ends of a long. Eleven tokens are fewer
  than the longest document needs; in `MCJsonUnknown.cfg` all fit.
* *WatcherSystem.* Clients do not influence each other, so one is enough. A queue of
  one makes a batch of two overflow or not, as the transport is slow or fast; the
  three maps make access points appear, change and disappear alone and together.
  After one restart a client's list is of an earlier server, which is all a second
  one could add. For the removals a queue of two holds the whole batch: nothing is
  dropped but what the destruction throws away.
* *StbDs.* Buckets of four slots (the library has 8, or 4 with its small-bucket switch)
  make five keys grow the table, and deletions shrink and rebuild it. One hash
  function sends all keys to one slot; the other has the value kept for empty
  slots, and keys that meet in one bucket and part in two. The run has no bound in
  a guard.
* *TestRunner.* One test has two open parameters (nested loops), one none, one a
  parameter without values; two child suites after a suite; a failure may come at
  every call, in any number. Two pieces of a report are the whole and a part of it.
* *Prng.* Three bits reach every wrap: negative bounds, ranges past the middle, sums
  that overflow. `MaxDrawn` bounds the words drawn in a behaviour.

Deadlock is not checked in any run: processes end, a server whose file never
changes waits for ever, and a draw past `MaxDrawn` stops.

**Fairness.** Each specification assumes that its own process is scheduled, and
nothing of its environment.

* ServerMain, FileMonitor: `WF_vars(ServerStep)`; a loop goes on and a queued event is
  read. Nothing is assumed of the file, the writer, signals or failures: `read_fails`,
  `monitor_file_fails` and `termination_handler` are outside of `ServerStep`.
  `DeletionIsReported` therefore excepts a writer that keeps the lost file open.
* Lifecycle: start-up, the way out, leaving the allocator, and the delivery of each
  signal that is not blocked. Nothing makes the loop end or a signal be sent.
  `SignalEndsProcess` excepts `Stuck`: a handler that waits for the allocator's lock
  of the thread it interrupted.
* WatcherSystem: the server's steps, each client's steps, and for each client the
  connecting and transmitting (czmq reconnects for ever; TCP delivers or
  disconnects). Nothing makes the file change, a signal come or a server restart.
* TestRunner: the runner, and the test, goes on. A test that hangs hangs the runner,
  which sets no time limit; that is why the second one is needed for `RunnerEnds`.

**What the four violations mean.** The first is a slip in `communication.c:120`; all
other properties leave the channel's value out (`AgreeOn`) and hold beside it. The
second is what inotify reports for an inode, taken for the fate of a path:
`file_monitor.h` promises to monitor until the file is deleted. The third makes the
walk take a value for a key: of `{"x":1,"ssid":"A","snr":2}` the SNR is lost, and
with another access point behind it the whole file is refused as incomplete. In the
fourth, `file_deleted` sends "all ssid being removed" and main destroys the socket at
once; what libzmq has not yet written is thrown away (linger 0 in czmq), and clients
go on showing the access points.

**Exceptions the properties state.** `NoLostUpdate` leaves out `missed`: a text written
between the first parse and the watch. `VerdictsAreTrue` counts a combination whose
buffer or pipe could not be made as not run: munit increases no counter then, and
the run may succeed. A test whose result is none of the four ends without a counter
too (`munit.c:1222`): it counts as what its iterations before were, or not at all.
`NoChildIsLeft` lets a child be there when `waitpid` has failed for it twice: line 1420
does not look at the second result. What it demands then is that the run does not
end with success; a test marked TODO is excepted, since it is meant to fail.
`EachCombinationOnce` leaves out tests with a parameter without
values in front of one that has some: the loop of `munit.c:1631` ends there, drops
the latter or goes through a NULL. `FatalStopsTheTest` says what `--fatal-failures`
does (no further combination of the failed test); it is not looked at between tests
when all are run, nor between child suites, although line 1730 offers it as "Stop
executing tests as soon as a failure is found". `munit_rand_state_at_most` divides by
zero for a maximum of 0 (`munit.c:971`; equal bounds of an int range, `--single`
with one value); in Prng that ends the process.

## What TLAPS proves

For every value of the constants, with no bound:

| module | theorem | property |
|---|---|---|
| AccessPointsDataProofs | `AddToMap` | adding keeps keys distinct and changes one listed access point; the last of two equal names counts |
| ServerMainProofs | `TypeCorrect` | `TypeOK` |
| | `SubscriberInSync` | `InSync` |
| | `NoSsidTwice` | `OneMessagePerSsid` |
| | `MessagesPrint` | `ClientCanPrint` |
| | `ServerImplementsFeed` | `ImplementsChangeFeed` |
| WatcherSystemProofs | `HeardLists` | `HeardIsRight` |
| | `ClientsSurvive` | `NoClientAborts` |
| StbDsProofs | `KeysAreFound` | `FindsEveryKey` |
| | `SearchesTerminate` | `SearchesEnd` |
| | `CountersCount` | `CountsAreRight` |
| | `KeysHaveOwners` | `KeysAreOwned` |
| | `ArrayFits` | `FitsCapacity` |
| | `RefinesStringMap` | `ImplementsStringMap` |
| JsonParserProofs | `TornTexts` | `TornIsIgnored` |
| | `FilledTokens` | `ReadsFilledTokens` |
| | `ParserTypes` | `TypeOK` |
| | `KnownDocuments` | `KnownDocumentIsRead` |
| FileMonitorProofs | `TypeCorrect` | `TypeOK` |
| | `NoUpdateLost` | `NoLostUpdate` |
| | `DeletedIfLost` | `DeletedOnlyIfLost` |
| LifecycleProofs | `TypeCorrect` | `TypeOK` |
| | `SocketThere` | `SocketInUseIsOpen` |
| | `SuccessDestroyed` | `SuccessMeansDestroyed` |
| | `AbortNested` | `AbortOnlyNested` |
| | `StartupSwallows` | `OnlyStartupSwallows` |
| TestRunnerProofs | `VerdictsTrue` | `VerdictsAreTrue` |
| | `NoChildLeft` | `NoChildIsLeft` |
| | `TypeCorrect` | `TypeOK` |
| | `FatalStops` | `FatalStopsTheTest` |
| | `EachCombinationRuns` | `EachCombinationOnce` |

**Assumptions** are those of the modules, named, and evaluated by TLC for the
instances it runs.

* The map and the server: `Absent` is not a pair of parameters, the parser returns
  maps with distinct keys, `NULL` is none of them (`AbsentAssumption`,
  `ParsedMapsAssumption`, `NULLAssumption`). A queue has room for a message
  (`HWMAssumption`).
* StbDs: buckets of 4 or 8 slots, as the library is built (`BucketAssumption`); a hash
  function gives naturals (`HashAssumption`), any function, also a constant one.
* JSON: documents are those of the server's format, and of the right types
  (`DocsAssumption`); a cut name is a name, and there is nothing to cut of the empty
  one (`CutAssumption`); `NULL` is no map (`NULLAssumption`); an unsigned int has `Width`
  bits (`WidthAssumption`, which also says that a power of two is a natural: the
  provers have no theory of `^`); a long has more bits than it (`LongAssumption`), as on
  64-bit Linux: where both have 32, the largest number stored would be 2^31 - 1; the
  array has a token (`TokensAssumption`).
* FileMonitor: what is said there of its constants.
* TestRunner: the tables that `munit_suite_main` is called with are a tree, and a suite,
  a test and a value stand for their places in them, so that two entries of a table
  are never one (`TreeAssumption`; a table that pointed to itself would never end); a
  test has no two parameters of one name, and they are those of its table
  (`ParametersAssumption`); a name of the command line stands for the tests it
  matches, and of the values given for a parameter the first counts, which is where
  line 1596 breaks the loop (`OptionsAssumption`).

**The server.** `InSync` speaks of the moments between callbacks and is not inductive:
inside a batch the subscriber's list equals neither map. `Announced` reads off the
server's own variables what the loops have done so far: entries of the new map the
first loop has passed, then the current map without what the second has passed.
`Tracks` says that the subscriber's list agrees with `Announced` at every step, and
`BatchFollowsLoop` which SSIDs the batch can hold at each place. `IInv` joins them
with `TypeOK`, `Settled` and `OneMessagePerSsid`. `DetectTurnEffect` and
`CurrentTurnEffect` say what a turn does to `Announced`, `QuietSteps` that nothing
else changes it; `InSync` follows because `Announced` is the current map between
callbacks. `Announced` is also the refinement mapping to ChangeFeed: the same
lemmas make a turn an `Appear`, `Change` or `Disappear`, and `SocketOK` (the socket
exists exactly from its creation to the clean-up of a living process) places the
opening and the closing.

**The system.** `HeardIsRight` compares the server's `Announced` with `WillShow(c)`: the
list client `c` will show when all that is under way to it, in its inbox and in the
publisher's queue, has arrived. `SystemInv` joins the server's `IInv` and `SocketOK`
with the life of a subscription (`LinksOK`: nothing has been heard before the
subscription is made, and none outlives the socket) and with the type of what is under
way: messages the client can print, which is where `MessagesPrint` enters. A turn of
the server appends one message to the end of what is under way and moves `Announced`
by the same access point; a message that is dropped takes its access point out of
`heard`; a client that receives takes the first message away and shows it. The lemmas
`AfterAllAppend` and `AfterAllFirst` say that the two ends agree.

**The hash table.** Two lemmas of arithmetic carry it. `TrianglesDiffer`: the first `p`
triangular numbers differ modulo `p` when `p` is a power of two; it makes the probing
sequence visit every slot once (`ProbeVisitsAll`), so that a search ends exactly when
there is an empty slot. `MapInv` says of the table that each slot in use is reached on
its own way past no empty slot (`Linked`), belongs to one entry and bears its hash
(`Owned`), that each entry has a slot (`Led`), and that the counters count. Each
operation keeps it: a new key goes to the first empty or deleted slot of its way;
a deletion marks the slot, which breaks no other way, and tells the slot of the moved
entry its new position; `make_hash_index` is a loop over the old slots, and its
invariant (`IsMaking`) says how far the copy has come. The thresholds leave an empty
slot in every table (`RoomIsLeft`). On `MapInv` rest all five invariants and the
refinement of StringMap, where a search is a choice among entries.

**The parser.** A run of the tokenizer over a whole document is a walk through the
*places* of the document (`Reads`: which lexeme leads from which place to which), and
`TextLeads` says that every document has one, by induction on its attributes and
access points.

* `TornTexts`: a torn text is never balanced. `IsBalance` counts the brackets; in a
  document it is zero at the two ends only, so a beginning of a document ends above
  zero, and a document with an older end behind it below. The tokenizer succeeds only
  when its open tokens (those without an end) are none, and their number is the
  balance. An empty text is refused before, and a string broken off is an error.
* `FilledTokens`: of what the walk reads when an unknown attribute has made it lose its
  place. `Shape` says of the tokens that twice an object's size fits behind it, and
  before the next access point, whatever is inside it; a turn moves by one or two
  tokens and there are as many turns as the size says, so the walk stays in front of the
  next access point, where it compares its type, or at the last token.
* `ParserTypes`: the SSID is always made from a string, although the walk may take a
  value for a key. What follows a string token "ssid" is then its value, or a key
  behind it, which is a string too.

* `KnownDocuments`: `ApTokens` and `ListTokens` say, place by place, which tokens the
  part of a document before that place has made, and `Content` which string or number
  each stands for. `ReadsOn` says that the tokenizer has made just these; `Tally`
  counts them against the lexemes, so that an array that is full before the end is one
  the document does not fit in (`~Fits`), and the result `NULL` is the right one. The
  walk then reads `Content`: inside an access point (`WithinAp`) the parameters it has
  collected are what the attributes behind it say, and between two of them (`WalksOn`)
  the map is what the access points behind it say. `SaidOfAppend` and `ListOfAppend`
  carry both over one more attribute and one more access point; at the end they are
  the whole document. `StrtolSays` is the lemma about numbers: the nearest long, cut
  to an unsigned int, is what `UnsignedSaid` says, in the range of a long and outside.

**The file monitor.** `NoLostUpdate` speaks of a server that waits with nothing to look
at. `FInv` says why it is right then: at every moment a text of the watched inode
that was not adopted is announced by an `IN_MODIFY` in the queue or in the buffer, or
about to be read, or being read, and what `fread` has got is a prefix of a text
that has not changed since `ftell` (`UpToDate`); a write breaks the last and queues
the event that makes the first. `LossInv` says that an event of deletion or move is
pending only when the watched inode has lost its name, which gives
`DeletedOnlyIfLost` as an action property; `WatchInv` says when there is a watch, and
`OnePath` that one inode at most is at the path. TLC checked `FInv` as an invariant
of `MCFileMonitor.cfg` before it was proved.

**Signals.** `SocketInv`: who has finished with the socket finished it, and a socket
that is half destroyed has somebody, in the stack or in main, at it. It makes the
exit codes and the abort (`Nested`) invariant. `DispositionInv` places czmq's own
handler in the start-up.

**The test runner.** `RInv` follows a result on its way: while the runner reads, the
child is still in its test, or its report tells what happened (`Tells`), or
something bad happened and its report stays incomplete or its end gives it away
(`ReadingInv`); while it waits, the same of what was read (`WaitingInv`); when it
prints, `Tells(report, truth)`. From that the counters are the counts of the log.
`ChildPlace` says where a child can be that was not left. A child that was left has
failed `waitpid` twice, and the first failure is an error in the report: so its
combination is among the bad ones of the log. `ExitInv` adds that a run that ends with
success has counted no failure (or was asked for none); then `VerdictsAreTrue` leaves
no bad entry but those of TODO tests, which is the second half of `NoChildIsLeft`.

`FatalStopsTheTest` looks at two entries of the log that may be far apart in the run: a
test that failed is over, but the command line may have selected it again, and nothing in
munit keeps a suite from being in two tables. `OnTrail` describes the stack of
`run_suite` calls by the suites they are for: each is a child of the next, no longer
among those the next has still to call, and no suite is on it twice (`ChildIsNew`, from
`TreeAssumption`). `WalkInv` adds what each place of `run_test_wild` relies on: the
current test is the first of those the innermost call has left, `Turn` that its
parameters are those `run_test` has filled in, `Positions` that every loop is within its
values, which is `TypeOK`. `FatalInv` then says of a last entry that was bad that the
runner knows of the failure and that its test is in no list of tests and in no suite
still to be called (`NotAgain`).

`EachCombinationOnce` counts over a whole run, and needs to know that every suite is
called and that the loops of `run_test_wild` miss no combination and come to none twice.

* Suites: nothing records which were called, so `EnteredAre` quantifies over such a set:
  some set of suites holds the first one and those on the stack, and the children of its
  members but those a call on the stack has still to make. When the stack is empty it is
  closed, and by `TreeAssumption` that is all suites.
* Combinations: what `run_test_wild` goes through is an order on the positions of its
  loops (`Less`, lexicographic). A turn leads to the next position and to no other
  between (`TurnedIsNext`), and the one that ends the loops was the last (`LastIsLast`).
  Positions and combinations are one to one when no open parameter was dropped, and with
  `--single` there is one position (`TurnReachesGoals`).
* Counting: `CountsAre` says of each test and combination that the times it was logged
  and the times its test is still to come add up to the times the test was selected,
  and one more when the combination is behind the current position of the test that is
  being run, which is logged then and still to come (`Passed`).

Their conjunction, `EachInv`, was first checked by TLC as an invariant of
`MCTestRunner.cfg`.

**Induction over data.** The library's induction theorems take an operator, which the
provers here cannot instantiate. The proofs state the hypothesis as a *set* of naturals
that holds 0 and the successor of each of its members (`NatSetInduction`,
proved from the least counterexample), and of a recursive function on a sequence, such
as a fold, they prove that it exists and is the only one with its equations.

Only model-checked:

* liveness (`ParsedFileIsAnnounced`, `DeletionEmptiesView`, `LastTextIsAdopted`,
  `DeletionIsReported`, `SignalEndsProcess`, `RestIsShown`, `RunnerEnds`): out of this
  prover's reach;
* Prng: exclusive or is bitwise, which cannot be used from a module with a theorem.

Every other property of a passing run is stated by a theorem.

## What is not modelled

* **Allocation and tracing helpers** (`common/utils.h`, `common/trace.h`): logging, and wrappers
  that end the process when `malloc` fails. No state a property could be about.
* **Files that are not in the server's format**: keys without a value, which the
  non-strict jsmn accepts, and known keys with a value of another kind. What the
  walk takes for a value then is whatever is in the array.
* **stb_ds beyond the map**: arrays, binary keys, the string arena, `shputs` and the
  `temp_key` only it reads, and the hash functions themselves (any function here).
* **munit beyond the runner and the generator**: assertion macros, log levels, timing,
  colours, help and listing, the buffering of stderr.
* **A failing `zsock_send`** (`communication.c:38`): the branch only logs, and the message
  is not sent. A PUB socket does not fail to send: it drops for a subscriber that is slow,
  which WatcherSystem models, and the handler that could interrupt it ends the
  process. ServerMain's `Send` therefore always sends.
* **The characters** of strings and numbers in jsmn, and the wording and colours of
  what the client prints.
* **The unit tests, build files, sample data, editor settings**: read as documentation.

## What the plan has left

1. FileMonitor and ServerMain composed, so that the parse of one is the callback of the
   other, with the file, the transport and a client in one specification. Today the
   two meet at `ParsedMaps`: FileMonitor says which texts are adopted, ServerMain
   what is announced for any sequence of maps.
2. `FileMonitor`'s `Parsable` derived from what JsonParser accepts.
