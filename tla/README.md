# The ns-3 blockchain module and its JSON library in TLA+

This directory models the module `contrib/blockchain` of the repository (the
blocks, the block store of a node and the node application that answers what its
peers send) and the library the node reads its messages with, `rapidjson`.
Everything else in the repository is the stock build of the ns-3 simulator.

Paths of the module are relative to `src/contrib/blockchain/model/`, those of the
library to `src/rapidjson/`.

## 1. The system

| Component | State | Operations | Modules |
|---|---|---|---|
| Transaction (`transaction.*`) | identifiers, validation, execution | constructor, `SetExecution`, `operator==` | `Transaction` |
| Block (`block.*`) | header, `m_transactions`, `m_totalTransactions` | constructors, `operator=`, `operator==`, `IsParent`, `IsChild`, `AddTransaction`, setters | `Block`, `BlockReader` |
| Block store (`blockchain.*`) | `m_blocks`, `m_orphans`, `m_totalBlocks` | `AddBlock`, `AddOrphan`, `RemoveOrphan`, the lookups, `ReturnBlock` | `Blockchain`, `Ledger`, `BlockReader` |
| Connection (`blockchain-node.cc`) | bytes sent and not yet read | two `Send`s per message, `RecvFrom` | `Wire` |
| Node (`blockchain-node.*`) | the store, `m_invTimeouts`, `m_queueInv`, `m_transaction`, `m_totalEndorsement`, where `HandleRead` is | `HandleRead` with its cases `INV`, `REQUEST_TRANS`, `REPLY_TRANS` and default, `AdvertiseNewBlock` | `BlockchainNode` |
| Lifecycle (`blockchain-node.cc:53-258`, `475-517`) | sockets, timers, peers, statistics pointer | setters, `StartApplication`, `StopApplication`, `DoDispose`, the peers of `AdvertiseNewBlock` | `NodeLifecycle` |
| JSON memory (`allocators.h`, `internal/stack.h`) | chunks, the blocks of stacks | `Malloc`, `Realloc`, `Clear`, `Push`, `Pop`, `ShrinkToFit`, move, swap | `PoolStack` |
| JSON reading (`reader.h`) | position, `state_`, the stack of counts, the result | three parsers, numbers, strings, white space and comments, vector loops | `JsonReader`, `JsonNumber`, `JsonString`, `BlockScan` |
| JSON writing (`writer.h`, `prettywriter.h`) | output, `level_stack_`, options | events, prefixes, strings, raw values, `Reset` | `JsonWriter`, `JsonString` |
| JSON encodings (`encodings.h`, `encodedstream.h`) | bytes, detected type | encode, decode, byte order marks, detection | `Encodings`, `EncodedStream` |
| JSON values (`document.h`) | values and the blocks they own | set, move, copy, swap, add, remove, compare, destroy | `JsonTree`, `JsonValue`, `JsonEqual` |
| JSON documents (`document.h`) | the stack of a document, its pool | construct, parse, fail, move, swap, delete | `JsonDocument` |
| JSON pointers (`pointer.h`) | tokens, names, allocator | parse, write, copy, append, create, find, set, erase | `JsonPointer`, `JsonPointerMemory`, `JsonPointerResolve` |
| JSON expressions (`internal/regex.h`) | pattern, stacks, states, marked states | parse, search, match | `JsonRegex` |
| JSON schemas (`schema.h`) | schemas and pending references of a document; contexts, path and verdict of a validator | compile, resolve, an event of a value, `Reset` | `JsonSchema`, `JsonSchemaValidator` |
| Enumeration names (`blockchain.cc:214-289`) | none | value to text | not modelled |
| Helper, example, test, `doc/blockchain.rst` | none | skeletons of the module generator | not modelled |

The build (`../wscript:11-17`) compiles transaction, block and store. The node
is commented out of it and is a prototype: many of its methods are declared in
`blockchain-node.h` and defined nowhere (`HandleAccept`, `ReceiveBlock`,
`ValidadeBlock`, `CreateTransaction`, `ExecuteTransaction`, the three
`SendMessage`, `InvTimeoutExpired`, `ReceivedButNotValidated` and others). What
they do is not modelled. Where the code that exists depends on them, the model
says the least that their declarations and callers say, and `PROJECT.json` marks
the definition as external.

### How the parts interact

- A peer announces a block with `AdvertiseNewBlock`, the text of a JSON object
  and then a `#`, by two calls of `Send` on a TCP socket.
- The simulator calls `HandleRead` when there is something to read. It reads
  until nothing is left, and takes apart what one read returned at each `#`.
- `INV` looks each announced block up in the store (`HasBlock`, `isOrphan`),
  sets a timer for those it has to ask for, puts the sender into the queue of the
  block, and asks the sender.
- `REQUEST_TRANS` stores the transactions the node has not, and an endorser
  executes them.
- The store is filled by the block handlers, of which only the declarations
  exist.

Within the library, a document is the handler that a reader calls: the reader
gives events, the document pushes values onto its stack (`JsonDocument`), and the
stack grows in a pool (`PoolStack`). A writer is a handler too: `JsonWriter` composes
it with the reader of `JsonReader`, which parses what is written at every moment.
A schema is compiled from a value, finds what it refers to by pointers and its names by
expressions, and a validator is a third handler of events: `JsonSchemaValidator` takes
those of `Accept`. Pointers walk the trees that values stand for: `JsonPointerResolve` extends
`JsonTree`, the abstract specification that `JsonValue` implements.

ns-3 is an event simulator with one thread: while one handler runs no other does.
Interleavings are those of events (a message sent, a read handler called, a block
arriving), and of the sizes of the portions that TCP delivers.

### What is hard here

- Row arithmetic and range tests of the store over gaps, forks and late blocks.
- Copies that are not copies: the copy constructor of `Block` resets the count
  (`block.cc:32`), `operator=` leaves the transactions out (`block.cc:177-189`),
  and `std::vector` calls both without being asked to.
- Messages cut anywhere, the text and its delimiter apart.
- A loop that must erase what it has handled to come to an end
  (`blockchain-node.cc:280-470`).
- The same block or transaction announced again: within a message, by another
  peer, or after it has come.
- Members, pointers and variables nobody initialised or sent
  (`blockchain-node.cc:53-75`, `181`, `211`, `302`; `block.cc:18-20`).

In the library there is no concurrency either. Its difficulties are of four kinds:

- Memory: blocks grown in place, values moved raw, buffers that own each other's
  names, a pool that must outlive what lies in it.
- Arithmetic at the end of a word: integers, exponents, array indexes, counts.
- Two algorithms for one thing: recursive and iterative parser, block loops and byte
  loops, compiled automaton and expression, written text and read value.
- Legal sequences of calls nobody tried: documents moved and swapped while they hold
  values, pointers copied and appended to, a reader called on after its error, a
  validator used again.

`PROJECT.json` lists them at their lines, with the properties that cover them or the
reason why none does. Those of the library that one question covers are joined there.

## 2. The modules

| Module | What it is |
|---|---|
| `Transaction`, `Block` | values and pure operators: what the constructors, copies and comparisons return |
| `Blockchain` | the block store: one action per call that changes it, one operator per lookup |
| `Ledger` | what the store promises its users, in terms of keys `<<height, miner>>` only |
| `Wire` | how messages are cut up on the connection, and what a text parses to |
| `BlockchainNode` | a node, `HandleRead` step by step, composed with `Blockchain` |
| `BlockReader` | `Blockchain` with a caller that keeps a pointer and a block of its own |
| `NodeLifecycle` | a node as an application: configured, started, stopped, disposed of, announcing blocks |
| `BlockchainProofs` | theorems about the store, that it implements `Ledger`, and about a caller of it |
| `NodeProofs`, `LifecycleProofs` | theorems about a node, and about its life |
| `PoolProofs`, `ScanProofs` | theorems about the memory pool and the vector loops of the library |
| `JsonReaderProofs`, `NumberProofs` | theorems about the iterative parsers, and about numbers |
| `MemoryProofs` | theorems about documents and about the memory of pointers |
| `PoolStack` | stacks of cells that grow in one memory pool |
| `JsonReader` | the iterative and the tokenwise parser round by round, the recursive parser as a function of the text |
| `JsonNumber` | `ParseNumber` character by character, the flags of number values |
| `Encodings`, `JsonString`, `EncodedStream` | encodings as operators; writing and reading one string; a text through two streams |
| `BlockScan` | the vector loops of the reader and the writer |
| `JsonWriter` | both writers, with `JsonReader` reading their output |
| `JsonTree`, `JsonValue` | what a caller relies on; values, blocks and owners, which implement it |
| `JsonData` | values as data; numbers of small words |
| `JsonEqual` | the comparison of two values |
| `JsonDocument` | documents, the stack values are built on, and pools |
| `JsonPointer`, `JsonPointerMemory`, `JsonPointerResolve` | texts of pointers; their memory; their use on a tree of `JsonTree` |
| `JsonRegex` | patterns compiled and run, against the expressions they are written of |
| `JsonSchema` | a document compiled into schemas, its references resolved; hash codes |
| `JsonSchemaMeaning` | what a schema says of a value, keyword by keyword, without events or compiled schemas |
| `JsonSchemaValidator` | a validator as handler of events, with its contexts and the validators in them |
| `MCStore`, `MCBlockchain`, `MCBlockchainNode`, `MCNodeLifecycle` | instances of the module for TLC |
| `MCJsonText`, `MCJsonStrings`, `MCJsonValues` | the instances of the library, each the union of several parts (section 3); they extend the modules theorems are about, and instantiate the others |
| `RegexLanguage` | what an expression matches, by its definition |
| `MCJsonValue`, `MCJsonSchemas` | the trees of values; the schemas and values that instances use |

Definitions under a comment that starts with "Variant" are plausible faulty forms of the definition after them. They take
part in no specification; putting one in the place of the right form makes the
property that PROJECT.json pairs it with fail, which shows that the property
notices.

### State and actions against the code

*The store.* Row `r` of `m_blocks` is the code's `m_blocks[r - 1]`. A pointer
into a row is the position in it; `NULL` is 0. `AddBlock` has two of the three
branches of the code: the first, for an empty `m_blocks`, runs in the constructor
only and is `Init`. `RemoveOrphan` finds the first orphan equal to its argument
and erases it, which *assigns* every later orphan to the one before, so it goes
through `CopyAssign` and leaves the transactions where they were. Every
`push_back` goes through `CopyConstruct`. A lookup takes any height the range test
lets through. Nothing limits what a caller adds: the same block may be added
twice, be an orphan and in the chain, and come before its parent. The header
fields that no decision reads (nonce, size, times, the peer's address) are left out.

*The node.* `pc` says where in `HandleRead` the node is:

| `pc` | Code | Steps |
|---|---|---|
| `idle` | another event | `Send`, `AdvertiseNewBlock`, `ReceiveBlock`, `HandleRead` |
| `receive` | the test of the loop at 265 | `RecvFrom`, `Return` |
| `parse` | the test of the loop at 280 | `DropRemainder`, `EraseCorrupted`, `Parse` |
| `dispatch` | the switch at 302 | one action per case, and `MessageMissing` |
| `aborted` | a failed assertion | none |

Each case of the switch is one action that makes all of its changes. `Dispatch`,
a part of each of them, leaves the switch and goes back to the test of line 280
with `totalReceivedData` as it was, for no line between 302 and 470 erases
anything. A message is one of a few records, and a text is one of the two halves
of a message: the halves stand for every place to cut it, since no proper part of
an object's text is itself an object. `RecvFrom` returns any prefix of what was
sent. `m_bufferedData` is left out because it is read and never written.
`m_committerType` is initialised by no constructor, so `Init` takes any role.
`asked`, `executed` and `handled` are history variables: whom the node asked for
what (`SendMessage`, 368-369), what it passed to `ExecuteTransaction` (415), and
which messages went through the switch.

`MessageMissing` is `document["message"]` on an object without that member.
`RAPIDJSON_ASSERT` ends the program, or, in a build that compiles assertions out,
the null value reads as 0, which is `INV`, with an empty list. Both are allowed.

*The caller of the store.* `BlockReader` gives pointers an address: the buffer of a row
or of the orphans moves when `push_back` finds it full (`Grown`, external, doubles), and
then a kept pointer is good for nothing. An erase moves no buffer and puts another
orphan under the pointer. `ReturnBlock` on a miss returns a block nobody set: each of its
integers is any value of `Indefinite`. For a height outside the rows it reads memory that
is no row, which may look like the block, or not, or end the program (`EndOutsideRows`).

*The lifecycle.* `phase` orders nothing but start, stop and disposal, as the simulator
does; setters may come at any time. The attributes `Local` and `Protocol` are chosen at
first. `failed` is a call through a null socket, a write through the unset statistics
pointer, or the `NS_FATAL_ERROR` of `StartApplication` (162), which is met before any peer
is connected to. `AdvertiseNewBlock` sends once for each place of the list of peers. `events` are what was scheduled: the timers of
blocks and the client's next transaction, each of which may come due at any time.
`adverts`, `sent` and `startPeers` are histories.

*Memory of the library.* In `PoolStack` an address is a number and a cell holds one
element, so that two blocks that overlap are seen to. In `JsonValue` a value is a cell
of a block, and the cells of block 0 are the program's. A member is two cells, and
removing one assigns the last pair of cells to its place, as the code does. In
`JsonPointerMemory` a name is a place in a block, computed by the distance the code
computes. A copy of a pointer keeps the allocator of the original, which may be deleted
before it: `CrtAllocator` has no state, so that calling it still allocates. `crashed` is
the copy of names from a null buffer. Blocks are freed one by one in `JsonValue`; in `JsonDocument` a pool is deleted
as a whole.

*Readers.* One step is one round of a loop: a symbol for the parsers (`s` a string, `n` a
scalar, `x` what starts no value), a character for `JsonNumber`, a round of the string
loops for `JsonString`, a byte or a block for `BlockScan`. A text grows when the parser
looks at it, so that every text it can tell apart is tried and no other. The handler
refuses the call given by `stop`, or none. Flags are members of the set `flags`.

*Numbers.* Words are `Narrow` and `Wide` bits; every limit in the code that comes from a
width is computed from them. A double is the exact number it was made of: what
rounding does to a significand beyond 53 bits, and in `Strtod`, is left out. What is
greater than the greatest double, `MaxDouble`, is refused where the code refuses it: while
the exponent is read (1646-1655) and behind `Strtod` (1704-1708). Strings of other encodings
than bytes are copied unit by unit over the stack they are read from, as the code does.

*Expressions.* A pattern is written of an expression, parsed by the two stacks of
`Parse` and run by `AddState` on sets of states; the expression itself says what is to be
found.

*Schemas.* Compiled schemas are records in a heap; the pointers between them are indexes,
and the address of a slot is a schema with the keyword it is for. A validator is a record,
so that the validators a context holds are values within it: the tree of objects that
the code allocates and deletes with their contexts. `Fed` is what the macros 2077-2102
make of each event: the current schema begins, all contexts pass the event on, the
current schema ends. An index into the validators of a context is computed as the
constructor does (`Layout`), and what lies at it as `CreateParallelValidator` does
(`Parallels`). A hash code is the term it is computed from, with the two laws that the
code's arithmetic gives it: a pair has no order, and two equal ones cancel. Two terms
without the same code are taken to differ, which 64 bits do not promise.

## 3. What is checked

| Run | Result | What it shows |
|---|---|---|
| `store` | pass | Rows, heights and the count agree, lookups are complete, kinship agrees, the top changes only upwards, rows only grow; the store implements `Ledger`, and each call is the `Ledger` action on the key of its own block. A caller reads only what is stored, and its pointers are good until the calls that are named. |
| `node` | pass | A block is asked for once, under one timer, from the head of its queue; the queue holds just the peers that announced the block while it was missing (`QueuesHoldTheAnnouncers`); a transaction is stored, counted and executed once; all data is read up to the first message that parses. |
| `lifecycle` | pass | A node dies of three mistakes only (`FailsOnlyWhenMisconfigured`): unset statistics, peers set after the start, and a multicast group without UDP; after the stop only its timers are left, and it sends nothing to the peers it closed; every peer but the source hears of a block once for each place it has on the list. |
| `json_text` | pass | The parsers agree (`ReadersAgree`), advance (`RoundsAdvance`), have a stack that is as deep as the text while they read and empty behind it, and end at an error, but for a malformed comment token by token (`ReaderKeepsItsPlace`); what a writer puts out reads back (`OutputReadsBack`), a raw number as a string; numbers have the value of their text or are refused as too big (`NumbersAreExact`); stacks in one pool keep their elements apart (`StacksShareThePool`). |
| `json_strings` | pass | Block scans do what a loop over bytes does, within the blocks of the text (`ScansAgree`); streams, strings and pointers read back what was written, strings in the room that was reserved (`TextsReadBack`); a search finds what the expression says (`SearchIsLanguage`); the loops end (`LoopsEnd`). |
| `json_values` | pass | Pools outlive documents (`PoolsOutliveValues`), whose stack holds what is open (`StackHoldsWhatIsOpen`) and which are what they were built of (`BuiltGivesTheSame`); every block has one owner and none is lost (`ValuesOwnTheirMemory`); values implement `JsonTree` (`ValuesAreTrees`); equal means the same, with the exceptions that numbers and repeated names make stated (`EqualIsSame`); pointers own their memory and allocators, but for the allocator of a copy (`PointersOwnTheirMemory`) and act where they point (`PointersActWhereTheyPoint`); a validator accepts what the schema means, and says where it refused (`SchemasAreMeant`). |
| `store_parent` | violation | `GetParent` returns a block whose miner is not the one the child names (`block.cc:107`, `116`). |
| `store_orphans` | violation | After `RemoveOrphan` another orphan holds the transactions of the one removed (`blockchain.cc:210`). |
| `store_totals` | violation | Stored blocks report zero transactions (`block.cc:32`). |
| `node_buffer` | violation | A message that comes in two reads is lost (`blockchain-node.cc:277`). |
| `node_assert` | violation | An announcement by a `SENDHEADERS` node has no `message`, and reading it fails an assertion (`blockchain-node.cc:302`). |
| `node_timeout` | violation | The handler that sets a timer does not return, and the timer is never reached (`blockchain-node.cc:470`). |

Each violation is listed under "findings" with the line of the repository it
disagrees with.

The parts of `MCStore`, `MCJsonText`, `MCJsonStrings` and `MCJsonValues` do not
interact. A variable (`setting` or `part`) that never changes says to which part
a behaviour belongs, and the variables of the others keep one value, so that the states
of a run are the sum of those of its parts, never the product. A property of a run
is a conjunction of what the modules state by name, each conjunct under its part.
Several faulty forms are kept for such a property, one for each conjunct that a
different mistake would break.

The endless loop of `HandleRead` lets a node handle its first message for ever
(`node_timeout`). With it in mind, `OneRequestPerBlock`, `AskedPeerHeadsQueue`,
`QueuesHoldTheAnnouncers` and `EndorsedOnce` say that handling one message any number
of times has the effect of handling it once on what is asked, stored, counted and
executed, and on whom the queue holds. Only the length of the queue grows with each
round; blocks come in between the rounds.

### Bounds and why they are enough

*Store.* Four settings. In `store`, five blocks, of which up to four are added, with
repetition, to the genesis block (`MaxBlocks` bounds `m_totalBlocks`) beside up to two
orphans. There are two blocks of height 1 (a fork), two of height 2 with different
parents, and one of height 3, so that a block may come above a gap of one or two rows,
fill the gap later, tie with the top, or be there twice. In `orphans`, three orphans, so
that an erase shifts more than one, with one block added, as the two parts of the
store change independently. In `pointers` and `copies`, three blocks, two of one height,
make a row of two elements with each capacity up to 2, orphans whose buffer is full or
not, and a gap; one pointer is enough, as pointers do not influence each other; copies are asked of stored keys,
missing ones, and heights outside. The theorems below hold for every set of blocks and
every bound.

*Node.* One peer per protocol, two messages, two `INV` lists (one of them naming
a key twice) and a list of transactions that repeats one. With two messages a
read can return a part of one, one with a part of the other, or both. The node
never handles a second message, so a third could add more corrupted remainders
only. One block may arrive before or between the messages, in the chain or as an
orphan. `MaxQueue` 3 cuts a queue that the endless loop would otherwise grow for
ever; nothing reads beyond its head.

*Lifecycle.* Two peers on lists of one, of both, and of both with one of them twice: a
peer may be late, taken off, repeated, or the source. The address is a multicast one or
not, the protocol UDP or TCP. One timer, two announcements, two transactions.

*Memory of the library.* Two stacks of up to three elements, chunks of four cells in a
memory of 24: blocks grow in place, move within and between chunks, and memory ends.
Two values and two blocks of two items: an array in an array, or two beside each
other, grow and lose items; the refinement also keeps short strings. Two documents
and three pools make every order of moves and swaps; a document is built of up to four
events. Three pointers of up to two tokens and five calls copy, share and append across
each other: enough to copy a pointer with an allocator of its own, delete the original and
append to the copy.

*Readers and writers.* Texts of seven symbols nest three deep with something inside,
or two deep with members that hold something. Comments need five, with a handler that
refuses its second call or none. The writer makes
seven calls, with a refused NaN between two `Reset`s. Texts of numbers
are of three kinds, which `OfKind` cuts out of `NumberSpec`: five characters around words of 5 and 7 bits, which
hold every case of the code's limits (one digit below, at and above 2^31, 2^32, 2^63 and
2^64 for its own widths), seven for fractions and exponents, and eight for exponents
that come near the end of their word. The greatest exponent of ten is 9 and the greatest
double 1797, so that numbers are refused for either, with and without fractions. Strings of two pieces with characters of each
length in seven pairs of encodings; streams of three characters. Blocks of three bytes
and texts of nine give each alignment with none, one and two blocks.

*Values, pointers, expressions.* Pairs of values of two items, whose numbers are -1, the
greatest unsigned one and the double it is rounded to, and of all numbers of 5 bits, with
doubles of 3. Texts of five characters, indexes of 4 bits, and three
calls on a tree four deep. Expressions of three symbols on texts of three letters hold
each pair of operators, within each other and side by side.

*Schemas.* Each keyword alone and each two together, so that blocks of validators of any
two kinds lie beside each other, and kinds, patterns and names meet; references to what
comes before, after, within and nowhere, through one another, to the root itself and to
another document. Each is met by values of each type, nested two deep, with names that
match none, one or two of the patterns. Every bound, and every part of a multiple, by every
number of 5 bits, signed and unsigned, and doubles of 3. After any event a validator may be reset and used for one of
three further values; what a value before them left behind would tell there, and the
rest of the validator is the same after each `Reset`.

Deadlock is checked in the three violation runs of the store, which goes on for ever.
With a caller it stops when `ReturnBlock` has ended the program. The other systems stop at
their bound on messages or calls, at the end of a text, or at a failed assertion.

### Fairness

The scans, strings and streams of `MCJsonStrings` have weak fairness of their next step,
since they are loops of one function, which runs on: every scan ends, every string
comes to its end or is refused, and a stream comes to the zero behind its text
(`LoopsEnd`). Opening a stream and making a regular expression is left to the program.
Where a safety property says more, it is stated instead: `RoundsAdvance` has each round
of a parser take a symbol or be the last.

The store has no fairness and no liveness property. The node has weak fairness of
`Handler`, every step inside `HandleRead`: a processor runs a function on. And
weak fairness of each `HandleRead(p)`: the simulator runs every event, and a socket
with data calls its callback. Nothing is assumed of sending, nor of how much a read
returns, apart from its being something. `DataIsReadUntilAMessage` needs both.
`InvTimeoutsAreReached` is refuted under the same fairness, by a behaviour in which
the handler takes steps for ever.

### Other differences between code and documentation

These were met while the code was modelled. No run shows them: the models state
what the code does, and the properties say so or leave the case out, as said in their
comments, or the operation is not modelled.

- `block.cc:70`: `GetBlockSizeBytes` returns `m_parentBlockMinerId`; what
  `SetBlockSizeBytes` (`block.h:33`) writes is never read.
- `reader.h:2154`: the iterative parser reports every error in the start state as "The
  document is empty." (`error/en.h:42`), also of a text that begins with `]`, where
  the recursive parser says that the value is invalid.
- `reader.h:620`, `641`: token by token, a malformed comment is an error behind which the
  parser goes on. A call may follow, true may be returned (for the token behind `[` in
  `[/]`), or a second error, which the assertion "Error can only be assigned once"
  (`reader.h:101`) excludes. `ErrorsEnd` says that this is the one case.
- `reader.h:1649`: `0e309` is refused as "too big to be stored in double" (`error/en.h:57`)
  for its exponent alone, and without full precision a text of many digits for these alone,
  whatever its exponent. `TooBigIsRefused` states both.
- `reader.h:1022`: an escaped low surrogate alone is accepted under "Validate encoding of
  JSON strings." (`reader.h:148`).
- `reader.h:1571`: what follows `NaN` or `Inf` is parsed as a fraction or an exponent,
  and `NaN.1` is the number 0.1 (`reader.h:155`). `LettersAreNotFinite` states both.
- `reader.h:1681`: of characters of more than one byte, a number parsed "as strings"
  (`reader.h:153`) keeps the first; it is copied over the stack it is read from.
  `RawNumberIsText` states both.
- `writer.h:195`: what a reader gives as `RawNumber`, the digits of a number, is written
  between quotes and reads back as a string.
- `writer.h:144`: a refused NaN at the root counts as "a complete JSON" (`writer.h:139`).
- `writer.h:133`: `Reset` keeps the decimal places, against "default settings"
  (`writer.h:117`).
- `writer.h:460`: `WriteRawValue` reserves one unit for each it reads; UTF-16 written as
  UTF-8 needs up to three, and `PushUnsafe` asserts that there is room
  (`internal/stack.h:132`).
- `prettywriter.h:63`: this constructor leaves `formatOptions_` unset.
- `encodedstream.h:180`: a text of fewer than four bytes is taken for the user's type,
  while "the first two characters of a JSON text will always be ASCII characters"
  (`encodedstream.h:192`) is to tell.
- `document.h:1637`: an element pushed into its own array, after the array has moved, is
  read where it was and owned twice (`document.h:1629`).
- `document.h:838`: a value assigned a part of itself reads what it has just freed.
- `document.h:944`: objects with a name twice may be equal, against "is always false"
  (`document.h:931`). `document.h:969`: integers are compared by their 64 bits, so that
  -1 equals the greatest unsigned number, and with a double after rounding to it.
  `EqualIsSame` says of all these exactly when they are equal, and that without repeated
  names it does not matter which is on the left.
- `pointer.h:969`: an index out of bound may wrap round to another index, which is to be
  "only treated as string form" (`pointer.h:90`). `NumbersAreIndexes` says which do.
- `pointer.h:834`: appending to a pointer made of the program's tokens copies names from
  a null buffer. The model crashes there, and `OnlyNullNamesCrash` says nowhere else.
- `pointer.h:166`: a copy takes the allocator the original owns, which "is either
  user-supplied or equal to ownAllocator_" (`pointer.h:1099`), and calls it after the
  original has deleted it. `AllocatorsAreAlive` says that only a copy can.
- `allocators.h:144`: a buffer of the user's is taken for four bytes more than it has where
  `sizeof(ChunkHeader)` is not aligned (32 bits), whatever `size` says (`allocators.h:137`).
- `internal/regex.h:679`: a search for `a*` in `b` finds nothing, in the empty text it does.
- `internal/regex.h:697`: adding the states of `a**` recurs without an end. `AddingEnds`
  states for which expressions it can happen.
- `internal/regex.h:416`: `{1}` and `a()a` fail an assertion where other malformed
  patterns are refused.
- `internal/regex.h:476`: a count of 4294967300 is read as 4, not refused as an overflow.
- `schema.h:503`: a name that is required or depended on counts as a property, so that
  `additionalProperties` does not apply to it. `schema.h:729`: where the schema of a
  pattern refuses a value, that of additional properties will do. `schema.h:946`: a required
  member with a default text need not be there. `schema.h:598`: `"items": []` is as if it
  were not there. Draft 4 of JSON Schema has none of these;
  `JsonSchemaMeaning` marks them.
- `schema.h:1252`, `1265`: an integer is rounded to a double to be compared with one.
  `schema.h:1349`: a quotient of doubles may be rounded up to a whole number, and what is no
  multiple passes; the property leaves this case out.
- `schema.h:256`: in an object the hash codes of name and value may be exchanged, and equal
  members cancel, so that `{"a":"b"}` is `{"b":"a"}` and `{"a":"a"}` is `{}` to `enum` and
  `uniqueItems`. The property asks for values that hash codes tell apart.
- `schema.h:1271`: `-i` of the least integer is undefined; the model has the outcome of the
  processor, its magnitude.
- `internal/stack.h:203`: what `Realloc` returns is not looked at; a null pointer becomes
  the stack.

## 4. What is proved

| Module | Theorem | Statement |
|---|---|---|
| `BlockchainProofs` | `TypeCorrect` | `Spec => []TypeOK` |
| | `TopBlockCorrect` | `Spec => []HeightNamesLastRow` |
| | `RowsCorrect` | `Spec => []BlocksLieInTheirRow` |
| | `TotalCorrect` | `Spec => []TotalCountsPlaces` |
| | `LookupsCorrect` | `Spec => []LookupsSeeEveryBlock` |
| | `FamilyCorrect` | `Spec => []ParentsAndChildrenAgree` |
| | `RowsOnlyGrowInSpec` | `Spec => RowsOnlyGrow` |
| | `TopChangesOnlyUpwardsInSpec` | `Spec => TopChangesOnlyUpwards` |
| | `StoreImplementsLedger` | `Spec => ImplementsLedger` |
| | `EachCallActsOnItsKeyInSpec` | `Spec => EachCallActsOnItsKey` |
| | `PointersLeadToTheirBlock` | `ReaderSpec => [](ChainPointersAreStable /\ PointerInv)` |
| | `ReturnedBlocksAreStored` | `ReaderSpec => []ReturnedTransactionsAreStored` |
| | `CallersReadWhatIsStoredInSpec` | `ReaderSpec => CallersReadWhatIsStored` |
| `NodeProofs` | `NodeTypeCorrect` | `Spec => []TypeOK` |
| | `BlocksAskedForOnce` | `Spec => []OneRequestPerBlock` |
| | `QueueStartsWithAsked` | `Spec => []AskedPeerHeadsQueue` |
| | `AnnouncersAreQueued` | `Spec => []QueuesHoldTheAnnouncers` |
| | `TransactionsEndorsedOnce` | `Spec => []EndorsedOnce` |
| `LifecycleProofs` | `LifecycleTypeCorrect` | `Spec => []TypeOK` |
| | `DiesOnlyWhenMisconfigured` | `Spec => []FailsOnlyWhenMisconfigured` |
| | `StoppedNodeIsQuiet` | `Spec => OnlyTimersOutliveStop` |
| | `EveryPeerHearsOnce` | `Spec => []EveryPeerButTheSource` |
| `PoolProofs` | `StacksShareAPool` | `PoolSpec => []StacksShareThePool` |
| `ScanProofs` | `ScansCorrect` | `Spec => []ScansAgree` |
| `JsonReaderProofs` | `ReaderKeepsPlace` | `Spec => []ReaderKeepsItsPlace` |
| | `EveryRoundAdvances` | `Spec => RoundsAdvance` |
| `NumberProofs` | `NumbersAreExactInSpec` | `NumberSpec => []NumbersAreExact` |
| `MemoryProofs` | `PoolsOutlive` | `DocumentSpec => []PoolsOutliveValues` |
| | `StackHolds` | `DocumentSpec => []StackHoldsWhatIsOpen` |
| | `PointersOwn` | `Spec => []PointersOwnTheirMemory` |

But for `PointersLeadToTheirBlock` and `ReturnedBlocksAreStored`, which state parts of
`CallersReadWhatIsStored`, each theorem has on its right side the very definition that a run checks: the
module of the run extends the module that states it.
Every safety property of the runs `store`, `node` and `lifecycle` is proved, and of the library
those of the modules above.

### Assumptions

Each is an `ASSUME` of the module that declares the constants, and TLC checks it for the instance of
every run that extends the module.

- *Store* (`BlocksAssumption`): `Blocks \subseteq BlockType` and natural bounds. Heights are
  natural numbers; miners are any integers.
- *Caller of the store* (`ReaderAssumption`): it may ask for any pairs of integers and holds any
  headers of blocks.
- *Node* (`NodeAssumption`): every peer has one of the two protocols; an `INV` is a sequence of
  natural heights and integer miners, a `REQUEST_TRANS` one of integer pairs. Nothing is
  assumed of how many peers there are or of what they send.
- *Lifecycle* (`LifecycleAssumption`): lists of peers are sequences of peers, which may repeat
  one, and then send to it as often.
- *Pool* (`PoolAssumption`): `Alignment` and `Header` are positive, and the user's buffer
  lies in memory, as it does on 64 bits. With an empty header the end of an older chunk would be the beginning of the
  next, and `IsLast` could take a block of the one for the last of the other.
- *Scans* (`ScanAssumption`): `Width` is positive, the bounds are natural numbers.
- *Readers* (`TextsAssumption`): a text is of symbols that a text may grow by, white space and
  comments.
- *Numbers* (`NumberAssumption`): a digit fits in an `int`, `int64_t` is wider than it, characters are
  not the zero at the end, `MaxExponent` is 9 or more and below the end of `int`, a double holds
  ten times what an `int64_t` does, and a text is so much shorter
  than 2^31 that neither the places of a fraction nor two digits of an exponent leave an `int`. In the
  code, `expFrac` of a longer text would overflow. No prover here knows powers, so
  that the doubling of those the module speaks of is assumed, and checked by TLC.

### The store

*The inductive invariant.* `StoreInv` is `TypeOK`, `HeightNamesLastRow` and
`BlocksLieInTheirRow`. None of the last two is inductive alone. A block is put into
the row of its height because `AddBlock` computes the number of missing rows from
the height of the top block, and this is right because the top block's height is
the index of the last row. That in turn survives a step because the top block lies
in the row of its height and is there at all. `AddBlockRows` states once what
`AddBlock` does to each row, seen as empty when it does not exist yet; the case
of a new row and that of an old one then need no separate treatment.

*The count.* `AddBlockFillsOnePlace` shows that `AddBlock` adds one element to the
set `Places` and leaves the block at each other place alone; cardinality does the
rest.

*Lookups and kinship* follow from `StoreInv` without a step: a search of one row sees every
block of a height because no other row has one (`HasBlockIffStored`), and a range test lets
through just the heights that have a row (`RowsInReach`). `GetParent` and `GetChildrenPointers`
search the rows next to each other, by the same key.

*The refinement.* The known keys follow from `AddBlockFillsOnePlace`, the top from
`TopAfterAddBlock`. The orphans are the hard part: after an erase each element is
another one. `EraseKeys` says that the key at position `i` is now the key that was
at `i` or at `i + 1`, and `UnderErase` uses the bijection this makes between the
positions under a key before (without the erased one) and after to compare their
numbers. `OrphanPositionFinds` shows that the search stops at an element under
the key exactly if there is one. The refinement alone would be content with
a `RemoveOrphan` that drops another orphan than the one it was asked for, since
`Ledger` may drop any; `EachCallActsOnItsKey` is the statement call by call, and
follows from the same lemmas.

*The caller* does not disturb the store, so `StoreInv` holds beside it. `PointerInv` says
that the place a pointer was taken for is a place still and holds the same block: rows grow
at their end (`AddBlockExtendsRows`). `BufferInv` says whose buffer it leads into: that of its row,
or the row has become longer than that buffer could hold. So a pointer is freed by blocks of its own
height alone: a vector changes its buffer only when its length comes to exceed its capacity (`Grown`),
and no row gets shorter. That capacities double is not needed. Orphans have no such
invariant, as they get fewer too, and the theorem about them is one of steps: which calls end a
pointer, which put another block under it, and that no other does. `CallerBlock` types a block that the caller
holds, each of whose integers may be one nobody has set; what `ReturnBlock` copies into it is that of
the stored block.

### The node

`WireInv` types what is under way and what was received, with the end of the text in it when a
message is dispatched. `FirstInv`: a text that parses stays at the front of the data, as no step
erases it, so that one message is all that is ever handled. `RequestInv` joins timers, requests and
queues: a key has either all three, with the peer that was asked at the head of the queue
and nobody asked twice, or none. An `INV` puts its sender into the queue of each block that it names and
that is missing (`HandleInvQueues`), and no step takes anybody from a queue or a block from the store:
`AnnouncersAreQueued`. What is asked for by the loop of `INV` is, in the model, a function defined by
recursion over the list, which no prover here unfolds to a closed form; `LoopExists` shows that the function is what its
definition says at each position, and what holds up to a position is shown by the least
position at which it would not (`UpTo` and `LeastNat`), so that no induction theorem is
needed. The same is done for the transactions a `REQUEST_TRANS` stores (`Extends`): at every
position of the list, those stored so far are distinct and begin with those there were.
`TransactionInv` then says that an endorser has counted and executed each of them once.
The store in a node is an instance of `Blockchain`; `SameStore` identifies its definitions
with those of an instance of `BlockchainProofs`, whose lemmas give `StoreInv` for every step
of a node.

### The lifecycle

`Connected`: a peer that was on the list at the start keeps its socket, open or closed, hence a
null socket is met only through a peer set later. A start that cannot join its group is the last
thing a node does. `Quiet`: a stop leaves no event but timers.
`AdvertInv` counts: for each peer on the list since the start, what it was sent is what the
announcements owe it, which excludes those of blocks that came from it, with the text and the
delimiter in turn. What is owed is a set of places, each an announcement and a position of its
list, ordered by both. It needs that no socket closes before the stop; an announcement adds as
many places as the peer has on the list, all behind those there were, or none if it is the source.

### The pool

That blocks are apart by their capacities (`BlocksAreDisjoint`) is not inductive, for a
block that grows in place takes the whole of its aligned capacity. `BlockInv` says it of the
*rooms*, the aligned capacities, and that each room lies in the used part of one chunk.
`ChunksOK` says that chunks are one behind the other. `ReallocGives` states for all four ways
a block may go (new, smaller where it is, grown in place, moved) what callers need: what is in use
stays in use, and the cells that are new to the block were nobody's. `HoldInv` then
follows cell by cell: what the stack had has been copied or stays, what is pushed lies behind
it, and no cell of another stack is written. A push that finds memory at its end writes
through a null pointer; the theorem is silent about a program that has.

### The scans

`ScanInv`: all that has been passed is not looked for and has been put out, and all from the
present position on is as it was. In place, the destination stays behind the source.
`Advance` is what all the loops have in common. What is read is a matter of division
(`BlockOfAddress`, `OneBlock`, `BlocksInOrder`): an aligned address begins a block, and the
block of the terminator is the last that is compared. For a writer `WriterInv` is needed: it
compares its first bytes without a look at the end, and the aligned address it goes to is
in the text because `TooShort` has excluded the others.

### The readers

`ReaderInv` joins four things. The stack has a state and a count for each container that is open
(`Nested`): the root returns to the start, any other to an array or to a member. A parser is outside of
the root exactly when the stack is empty (`InState`); with `Nested` this makes a closing bracket
find what it pops, which the table of states alone does not show. The number of
entries is twice the difference of the starts and ends that were given (`HoldsOpen`), but for a
handler that has refused, after which nothing is read; at the end of the text nothing is left. And
while the parser goes on there is no error but those of comments, hence any other is the last. White space and comments are skipped by searches for
the first place of something; what they need is that a search ends at or behind where it began and
calls nobody (`Behind`). With that, each round takes a symbol (`EveryRoundAdvances`), or it is an error
and the last. `IterativeParseNext` does not look for an error after it has skipped, so that `ReaderInv`
lets it go on with those of comments behind it, and each later error is put after them.

### The numbers

`NumberInv` says of the text taken so far what the result will say of the whole. `PlaceInv` and `KindInv`
say where in `ParseNumber` which marks can have been taken and how wide the accumulator is. `ValueInv`: the
accumulator is the value of the digits before the point and as many of the fraction as `expFrac`
counts; those that are missing come after `MaxDigits` that count, of which the first is no zero.
`BackupInv` says what is on the stack.

*Too big.* `TooBigText` says of a text, without the state of the parser, why it may be refused; where a digit
leads beyond `MaxExp` the digits of the exponent are those that have been taken and this one, and behind
`Strtod` the exponent is the one that is written. A double is given behind the same test (`GivenIsFinite`).

*The narrowest type.* That an accumulator was left because its limit was exceeded is not so at the moment
it is left: the digit that does not fit is looked at and not yet taken. `IntegerInv` therefore
speaks of the accumulator or of it with the digit to come (`Exceeds`). `OutgrowsIs` shows that the
test of the code, on a quotient and a remainder by ten, is the comparison with the limit.

*The exponent.* `ExponentInv` bounds what may be added to by `MaxExp`, which depends on the fraction.
One more digit then leaves the sum in an `int` (`PowerFits`); for a first digit that follows from
`NumberAssumption`. A negative exponent that is low enough is read on without being added to, and stays
below what is written.

*The value of digits* is a recursive function over the length of a text, and the statement needs what one
more digit adds (`NumberAppend`). No induction theorem can be cited for it. A function
with the two equations exists for every length (`ValueExists`) and there is only one (`ValueIsOne`), each by
the least length at which it would not be so (`AllOf`, `LeastNat`); the value of the longer text is then
the value of the shorter and one digit. The copy of characters on the stack is treated
alike (`CopyIs`, `CopyExists`): with units of one byte it is the text, with wider ones its first
character. `PartAppend` and the lemmas after it say once which part of a text a
character belongs to.

### The pointers

`MemoryInv` adds to the ownership of blocks and allocators that each pointer is `Sound`: its tokens
begin its block, its names are all in that block or all the program's, and an allocator of its
own is the one it uses; without one it has none, the user's, or, if it is a copy, any
(`KnownAllocator`). A program that has crashed stands still (`CrashedIsStill`), and so do the names that were
null. A call changes one pointer and what that pointer owns; `Replaces` says so of
blocks and of allocators alike, and `OwnedAfterReplace` that ownership stays unique. What
`Malloc` returns is an address below a bound that finitely many blocks cannot fill
(`UnusedIsFree`), and so nobody's.

### The documents

*Pools.* `PoolInv`: a document allocates in the user's pool, in its own or in none, what it
owns exists and is nobody else's, and a value that needs memory has it where the document
allocates. It is inductive because a moved document takes the pool with the value and what is
left has neither (`LeftGives`). The assignment of a document deletes a pool, and nobody else can
have it; this is the step for which uniqueness is in the invariant.

*The stack.* The properties about the end of a bracket speak of the container that is open last
only. For the end of the next one the invariant must know where all lie: `Places` gives each open
container a place, the first at the bottom, each other as the last thing that the one around it has
been given so far. A reader counts a member when its value begins and an object has the name on the
stack before, so that the place of the next container is that of the last and `Above` it. An end
goes back one place (`PlacesAfterEnd`), a start adds one (`PlacesAfterStart`).

### What is only model-checked

- `DataIsReadUntilAMessage` and `LoopsEnd`, which need fairness.
- `ReadersAgree`, `OutputReadsBack`, `TextsReadBack`: two algorithms for one text, one of which is
  a recursive definition over the whole of it, or reads what the other has written. What is to be
  proved is an induction over texts whose parts nest, not over a number of steps.
- `ValuesOwnTheirMemory`, `ValuesAreTrees`, `PointersActWhereTheyPoint`, `EqualIsSame`, `SearchIsLanguage` and
  `SchemasAreMeant`: values, expressions and schemas are trees, and copying, comparing, destroying,
  compiling and validating them are `RECURSIVE` operators over trees, which no prover here handles.
- `BuiltGivesTheSame`: that a built document gives the events it was built of is an induction over
  the tree; that a text that fails leaves its document alone is what `Leave` says in one step.

## 5. What is not modelled

Of the module:

- `SetValidation` and the default constructor of a transaction, and `SetTransactions`,
  `HasTransaction` and `ReturnTransaction` of a block, which have no caller.
- The size of a block, which no decision reads.
- The statistics (`nodeStatistics`), which no decision reads, and the names of
  enumeration values (`blockchain.cc:214-289`), which are for the log.
- What the undefined methods do.
- A network of nodes. `HandleRead` does not return once it has handled a message
  (`node_timeout`), so that a node that has heard of one block does nothing any more:
  nodes composed of the present code show nothing that one node with its peers
  does not. The rule to whom a block is passed on is checked in `NodeLifecycle`.
- Text: formatting, logging, and heights and miners that do not survive
  `atoi`. The code sends `height/minerId` and reads the same back.
- `int` overflow: heights and counts grow by one for each block, and rows are
  allocated for each height, so that memory ends first.

Of the library:

- Of `schema.h`: the reports that errors are gathered in (`GetError`, 1884-2075,
  2331-2390), the handler behind a validator and `SchemaValidatingReader`, which pass on
  what they get; and schemas that are not well formed. A keyword of the wrong type may then
  leave a validator without initialisation (`"not": 5`, 481-484), a reference to what is no
  object fails an assertion, and references in a circle recur without an end (1699).
- A number given as text to a validator, which judges it as a string (`schema.h:2111`).
- Streams to files and memory (`filereadstream.h`, `stringbuffer.h` and others): adapters
  that the models replace by sequences.
- The conversion between digits and doubles (`internal/dtoa.h`, `strtod.h`, `biginteger.h`,
  `diyfp.h`, `pow10.h`, `itoa.h`): its tables and error bounds belong to 64 bits, and no
  width TLC can enumerate has them.
- Macros, traits, forward declarations and messages (`rapidjson.h`, `fwd.h`, `internal/meta.h`,
  `error/`, `msinttypes/`).
- Accessors of one field, iterators, and what the type system settles.
- `SetMaxDecimalPlaces` of the writer; a value put into itself.
- The end of memory, outside `PoolStack`.

## 6. The plan

1. Done: the module (`Transaction` to `NodeLifecycle`), the library as listed in section
   2, the runs above, and the proofs of section 4.
2. Left: what section 4 lists as only model-checked; of it, `TextsReadBack` of single
   strings is the nearest, as its loops, like those of numbers, take one character after the other.
