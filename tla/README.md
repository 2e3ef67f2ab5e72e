# Verification of MessageFrame

MessageFrame is a C++17 library that packs a message as a fixed header, a map of
small typed parameters and a list of binary attachments. This directory holds
TLA+ models of its core, the TLC configurations that check them on small
instances, and theorems that TLAPS checks for every value of the constants.
Paths below are relative to the repository's root (`src/` of the tree this
project stands beside).

## 1. The system

The library is synchronous and single-threaded: it starts no thread, takes no
lock and waits for nothing. Every operation is a call that runs to its end. What
makes it hard is data that has two representations, ownership that is moved by
hand, calls that fail half-way, pointers into containers that change, and one
call, `iterate`, that runs the program's code in its middle.

| component | state | operations |
|---|---|---|
| `HybridMessageMap` (`include/messageframe/HybridMessageMap.hpp`, `src/HybridMessageMap.cpp`) | `is_vector_mode`, `vector_storage`, `map_storage` (a pointer to a `tsl::robin_map`), `cfg_` | construct with a hint, `add`/`set`/`update`/`find` and their `_flat` forms, `size`, `iterate`, `pack`, `clear`, `unpack`, moves |
| keys (`Structures.hpp`: `ParameterKey`, `FlatKey`) | one string "device US param" | `compose`, the comparison in pieces, hashing, the split done by `iterate` callbacks |
| `ParameterValue` (`Value.hpp`, `Value.cpp`) | `type` and a raw buffer that may hold a `std::string` | constructors, assignments, `setValue`, getters, `pack`, `unpack` |
| `MessageHeader` (`Header.hpp`, `Header.cpp`) | eight integers | getters, setters, `pack`, `unpack` |
| `MessageFrame` (`MessageFrame.hpp`, `MessageFrame.cpp`) | a header, a `HybridMessageMap`, the attachments | forwards to the container; `add_attachment`, `clear`, `serialize`, `deserialize` |
| `VectorBuffer`, `FrameConfig` (`Structures.hpp`) | a reference to a byte vector; the hint | `write`; none |
| external: `tsl::robin_map`, msgpack-c | | `emplace`, `find`; parsing into objects, `as<>()` |

How they interact: `MessageFrame` owns one container and one header and hands
each of them the packer or its part of the parsed MessagePack tree;
`HybridMessageMap` stores `ParameterKey`s and `ParameterValue`s and lets each
value pack and unpack itself; `iterate` calls back into the program.

What is hard, and what makes each part correct:

* **HybridMessageMap.** The storage mode must be invisible. The risks are the
  insertion that migrates the vector to the map, duplicates that are allowed in
  one mode and not in the other, `unpack` into a container whose mode, hint and
  contents are anything, decoding that throws half-way, and moved-from objects
  whose mode says map while the map is gone. Correct means: one store in use at a
  time, the behaviour of a dictionary in which the first value wins, and a
  serialization round trip between any two containers.
* **Keys.** Vector mode compares three pieces, map mode compares one string; both
  must say the same for every pair of names, and no two pairs may share a key.
* **ParameterValue.** The tag and the buffer change in separate steps. Correct
  means: no string is leaked, destroyed twice or read where none lives.
* **MessageHeader, MessageFrame.** A frame is reused for message after message, and
  a `deserialize` that fails has already replaced some parts. Correct means: an
  intact message is received completely whatever the frame held, parts are
  replaced in a fixed order, and the frame stays usable. A header's identifiers
  pass through two casts and a MessagePack integer that carries no width: what the
  program reads must be what it set, or the conditions under which it is not must
  be known.
* **Memory.** `add`, `set`, `update` and `unpack` may throw `bad_alloc` at several
  points, `clear` and `find` are `noexcept` and allocate; a copy assignment that
  throws leaves a value that must not be touched; a move takes the vector's buffer
  away and leaves the hint behind. Correct means: a failure costs at most the
  parameter of the call, `clear` makes any container whole that has no such value in
  it, and the calls that move entries, which end the life of pointers from `find` and
  of a running `iterate`, are no more than the ones a program must expect.

## 2. The modules

| module | what it is |
|---|---|
| `Entries` | sequences of entries, dictionaries, the hash map's `emplace` |
| `HybridContainer` | one container object as a record; its member functions as operators from the object before a call to the object after it |
| `HybridMessageMap` | the state machine: several objects, one action per public operation, creation, moves and destruction |
| `ParameterMap` | the abstract specification: every object is a dictionary in which the first added value wins |
| `HybridMessageMapProps` | the properties and the refinement mapping to `ParameterMap` |
| `MCHybridMessageMap` | definitions for TLC: received maps, hints, symmetry |
| `HybridMessageMapAliases` | `set()` called with a value that lives in the same container |
| `HybridMessageMapHints` | the sizing hint followed through moves by a history variable |
| `HybridMessageMapMemory`, `MCHybridMessageMapMemory` | one container with its memory: the vector's capacity, allocations that fail, half-assigned values, moves, a pointer kept from `find`, an `iterate` in progress |
| `FallibleMap` | its abstract specification: a dictionary whose calls may fail, and what a failure may cost |
| `FlatKeys`, `MCFlatKeys` | keys as sequences of characters; the two ways to look one up |
| `ParameterValue`, `MCParameterValue` | the tagged union |
| `MessageFrame` | frames made of a header, a `HybridContainer` and attachments; a buffer that may be damaged between `serialize` and `deserialize` |
| `MessageFrameProps`, `MCMessageFrame` | the properties of frames; symmetry for TLC |
| `MessageHeader`, `MCMessageHeader` | the header's fields as integers of fixed widths, the casts, the array of MessagePack objects |
| `HybridContainerProofs` | lemmas about dictionaries and about the container's operators, shared by the next four |
| `HybridMessageMapProofs`, `HybridMessageMapMemoryProofs`, `HybridMessageMapPointersProofs`, `MessageFrameProofs` | theorems and proofs about containers and frames |
| `FlatKeysProofs`, `ParameterValueProofs`, `MessageHeaderProofs` | theorems and proofs about keys, values and headers |

### State and actions against the code

`maps[o]` is the object `o`: a record with the four fields of the class, with
`map_storage = NullPtr` for the null pointer, or `Absent` when `o` does not exist
(before construction, after destruction). `reply` says how the last call returned
(a value, the null pointer, `"updated"`, or merely from which function);
`status` is `"running"` until an assertion (`"aborted"`, Debug builds), an
access through the null `map_storage` (`"crashed"`) or undefined behaviour
(`"undefined"`) ends the process.

Overloads that do the same to the container share an action: `Add(o, k, v)` is
`add` and `add_flat`, by reference or by move. Functions that change nothing and
whose result is not modelled are `SizeOrPack` (which needs the map) and `Iterate`
(which checks for it). `Unpack(o, w, n)` receives the map `w` and decodes `n`
entries; when `n < Len(w)` decoding the next one throws. If that one has the tag of a
string, and what follows is no string or does not fit in memory, the exception
destroys a value that claims a string and holds none: `UnpackUndefined`. `unpack` of
something that is not a map returns after `clear()`, so it is `Clear`.

A key is a model value for the composed string and a value is a model value for
a `ParameterValue`: the container only compares, copies and moves them. Keys are
opened up in `FlatKeys`, where a string is a sequence of characters with US among
them; values are opened up in `ParameterValue`, where `live` says whether a
`std::string` has been constructed in the buffer and `strings` counts those that
have been constructed and not destroyed. A call that reads a string where none
lives sets `undefined`, after which nothing is claimed.

In `MessageFrame`, `frames[f]` is a header (its fields in packing order), a
container as in `HybridContainer` and a sequence of attachments. `buffer` is the
last serialized message as the tree MessagePack parses it into; `sent` is a
history variable, the content of the frame at that moment. `Deserialize(f, m)`
receives `buffer` or a member of `Damaged(buffer)`: a buffer that does not parse to
an array of three, or one with a part of another shape (a short header, a field
or name that does not convert, parameters that are not a map or of which only
the first n decode, attachments that are not an array, not pairs, without BIN
data, or whose bytes do not fit in memory). Each early end of `deserialize` in the
code corresponds to one of them. Where a parameter does not decode, the same
undefined end as in the container is possible (`DeserializeUndefined`).
`AttachmentsUnpacked` names the items that the loop appends (`Taken`: pairs, up to the
first that throws) and their order (`Kth`), since every one of them is appended at the
end of what was received before.
`ChangeParameter` stands for `add`, `set` and `update` in a Release build; what they
reply is modelled in `HybridMessageMap`. Functions that change nothing (`find`,
`parameters_size`, `get_attachments`, the header's getters) are not actions here.
A frame has the moves the compiler gives it, which move its members: `Relocate` is
such a move seen from the new object, `MoveOut` from the one that is left.

In `HybridMessageMapMemory` the operators ending in `Results` give all the ways a
call may end: the container after it, the vector's capacity, the stores whose
entries were moved or destroyed, and how it ended (`"ok"`, `"exception"`,
`"terminated"` for an exception that leaves a `noexcept` function, `"undefined"`). A
migration that fails can leave entries in the vector of a container in map mode
(`Torn`) or no map at all (`Hollow`); values that had been moved out by then are
`Unknown`. The target of a copy assignment that threw is `Broken`: it has the tag of a
string and no string (`Value.cpp:75-81`). Nothing is claimed of a call that destroys,
moves, assigns or reads such a value; it ends as `"undefined"`, and so may an `unpack`
that throws inside a value (`"half_unpacked"`). A call that does not touch the value,
the insertion of another key, for example, goes on.

Moves: `Relocate` is a move of the container, seen from the object it is moved to,
which is constructed (and then has no hint) or assigned to (and then keeps its own);
`MoveOut` is the same move seen from the source, which is left without a buffer;
`MoveIn` assigns another container, a member of `Others`, to this one, whose entries it
destroys. A move leaves the entries it takes along at their addresses, so that
pointers stay good in `Relocate`. `relocated`
is a history variable: the container was moved since it was constructed or reset.

`kept` is the last pointer `find` returned, `walk` the entries an `iterate` has yet to
visit; a call that moves the store they point into makes them `dangling`. `SeenOf` is
what the container is to its callers, a dictionary or, when hollow, nothing they can
use. Between two steps of `iterate` its callback may make any call. A process that
ended does nothing more.

In `MessageHeader`, `header[f]` is the integer in field `f`, and the three widths are
constants, so that TLC can take small ones. On the wire a field is a MessagePack object:
its kind (positive integer, negative integer, something else) and its 64 bits.
`Encoded` chooses the kind by the sign, as the packer and the parser do; `Converts` is the
check that `as<T>()` makes, one bound for either kind and none negative for an
unsigned type; `Decoded` reads the bits. `meant` remembers, for the two fields
that hold the program's identifiers, which identifier (a value and its type) was
last set, and travels with the array when it is packed and unpacked: an array of
another peer means `Unknown`. One object stands for sender and receiver.

Definitions marked "A mutant of ..." are deliberate bugs: replacing the
definition they follow by one of them breaks the property it is listed with in
`PROJECT.json`, which shows that the property depends on that code.

## 3. The runs

| run | instance | what it shows |
|---|---|---|
| `container_single` | 1 object, 3 keys, 2 values, capacity 2, all received maps up to 3 entries | every operation in both modes is a step of the abstract dictionary; stores stay exclusive; serialization round trip |
| `container_moves` | 2 objects, 1 value, received maps without duplicates | the same under moves: only a move's source loses its map, and moves are moves of the dictionary's contents |
| `container_debug` | the same, assertions on | `add` aborts exactly on a present key; `size()` then counts keys |
| `flat_keys` | names up to 2 characters, received keys up to 5 | the two ways of looking up agree; keys do not collide; callbacks recover names |
| `value` | 3 values, failing allocations, any wire object | tag and buffer agree until a call throws; after that a tag may claim a string that is not there, which only a call that threw leaves; no leak; round trip |
| `frame` | 1 frame, 2 keys, capacity 1, 2 header fields, 2 attachments, every damage | an intact message replaces everything a frame held; a damaged one replaces its parts from the front; only moving a frame away makes it unusable, until it is cleared or receives a message |
| `header` | integers of 2, 3 and 4 bits, arrays of other peers | which identifiers survive; that every header arrives; that nothing gets into a field it does not fit |
| `memory` | 1 container, 2 keys, capacity 2, with and without a hint, any allocation fails, any move | what a failure may destroy or break and what repairs it; when a `noexcept` function ends the process; when the vector has its reserve; every call is a step of `FallibleMap` |
| `pointers` | the same, with a pointer or an `iterate` followed | how long pointers and iterations are good, and which calls end them |
| `set_own_value`, `hint_after_move`, `value_mistyped` | | disagreements, section 5 |

The container runs, `value`, `frame`, `memory` and `pointers` do not check for
deadlock: there the process really may end (an assertion, a null dereference,
`std::terminate`, undefined behaviour). The other passing runs check it.

### Bounds, and why they are enough

* `SMALL_CAPACITY = 2` instead of 128, with three keys and received maps of up to
  three entries: below, at and above the capacity all occur, the insertion that
  migrates included, and a full vector can hold a duplicate. The proofs of section
  6 hold for any capacity.
* `Hints = {0, SMALL_CAPACITY + 1}`: the code only asks whether the hint exceeds
  the capacity.
* Two values tell first-wins from last-wins (`container_single`). With two objects
  one value is enough: what moves could confuse is whose contents and which mode.
* `container_moves` and `container_debug` leave out received duplicates because
  checking the refinement is the costly part; `container_single` has them.
  Duplicates made by `add` occur in `container_moves`.
* Names of up to two characters over {a, US} hold the empty name, names that are
  prefixes of each other and names with the separator at either place; received
  keys reach the longest composed key.
* One frame is enough in `frame`: the buffer and `sent` are snapshots, so after
  `Serialize` the same frame can be changed, cleared, destroyed and made again with
  the other hint, and is then any receiver there could be. Two header fields of two
  values tell which field failed and whose value is kept. `SMALL_CAPACITY = 1` with
  two keys puts senders and receivers in both modes; `Hints = {0, 2}` adds primed
  maps. `MaxAttachments = 2` bounds `AddAttachment`, so that of two attachments the
  first or the second fails; as many are received as sent.
* `header`: the widths 2, 3 and 4 bits in the place of 16, 32 and 64 keep what the
  code depends on, an even range and each at least the double of the one
  before; the proofs are for any widths. The identifiers are the ends of each
  type and values beyond the ends of `int32_t`; the foreign arrays are too short, too
  long, and have in the first, a middle or the last field an integer out of range, a
  negative one for an unsigned type, or an object that is no integer.
* `memory`: capacity 2 and two keys give a full vector with and without a
  duplicate, and a migration that fails before, between and after its entries. What is
  moved in (`Others`) is a vector without the reserve, one with a broken value, a map,
  and a container that has lost its map: one of every kind that `MoveOut`, failures and
  `Relocate` leave.
* `pointers`: `Followed` says what is followed between calls; `memory` follows nothing,
  which keeps its refinement affordable, `pointers` both, with fewer received maps and
  containers to move in, since any of them ends every pointer. A pointer and an
  `iterate` are never followed at once, and a callback does not start another `iterate`
  (`Find`, `StartWalk`): what moves entries does not depend on either, so the two are
  independent. The capacity of a vector is bounded by what its own growth allows
  (`GrownTo`).
* `value`: three values let two be moved or assigned around a third while a call fails.

Symmetry is used over keys, values and objects, in `frame` over keys and the values
of header fields, which no definition tells apart. The properties checked under it
are invariants and step properties.

## 4. Fairness and liveness

There are none. The library is a set of functions that a program may call in any
order or not at all; nothing in it waits, no call depends on another thread, and no
property asks that a program calls anything. The one call that takes several steps
in a model is `iterate`, a loop over a range: that it ends needs only that every
callback returns, which is the program's promise and not the library's. What could go
wrong with it is which entries it visits, and that is the invariant
`WalkStaysOnEntries`. Every specification is therefore `Init /\ [][Next]_vars`.

## 5. Where the code and its documentation disagree

Each is a run that TLC ends with the violation; `PROJECT.json` quotes the lines.

* `set_own_value`: the value passed to `set` (or `add`) may be a reference that
  `find` returned. The call that migrates the container reads it after the vector
  was freed. The model lets that read give any value.
* `hint_after_move`: the move constructor does not take the hint along.
* `value_mistyped`: `unpack` sets the tag before the conversion that may throw, and
  the destructor trusts the tag. The model calls any such access undefined; what a
  given standard library does with the zeroed first word of the buffer is not
  modelled.

These need no run:

* The comment of `add` (`include/messageframe/HybridMessageMap.hpp:48-49`) says that an
  existing key is duplicated in Release builds. In map mode, and when this `add`
  migrates the container, the new value is dropped (`Insert`). What `find` answers is
  the same in both cases, as `ImplementsParameterMap` shows; `size()` differs.
* `examples/extended_usage.cpp:322-323` says that `deserialize` of malformed input
  returns false. Input whose parts have the wrong shape is accepted: a short header
  is ignored, so that the previous message's header stays beside the new
  parameters, and parameters or attachments of another type count as none
  (`HeaderUnpacked`, `ParametersUnpacked`, `AttachmentsUnpacked`). The second half of
  the sentence, that the object stays usable, is `FramesStayUsable`, for every input but
  the one of `value_mistyped` (`DeserializeUndefined`).
* The comment of `MessageFrame::clear()` (`include/messageframe/MessageFrame.hpp:223-224`)
  says that it always returns to vector mode. With a hint above the capacity it
  returns to map mode, as `docs/architecture.md:88` says and `Cleared` models.
* `docs/api-guide.md:295-296` and `docs/architecture.md:92-93` say that `clear` frees the
  previous allocation, vector or map, in either case. The map is freed; the vector is
  emptied (`src/HybridMessageMap.cpp:223`) and keeps its buffer (`ClearResults`). Without a hint
  that buffer is the one in use afterwards, and keeping it is what lets `clear`
  succeed when memory has run out: a `clear` that did what these pages say would
  violate `TerminatesOnlyBy`. A container with a hint that was in vector mode, after it
  unpacked a small map, holds the buffer beside its new map.
* The comment in `HybridMessageMap::clear()` (`src/HybridMessageMap.cpp:230-231`) says that
  it falls back "instead of terminating". The fallback reserves, which fails in
  turn where the vector has no buffer (`ClearResults`): `TerminatesOnlyBy` says that this
  takes map mode, a hint above the capacity, or a container that was moved from or
  made by a move. The same property names the other
  `noexcept` function that allocates, `find(device, param)` in map mode.
* `docs/architecture.md:41-43` lists the flag as the last step of the migration; the
  code sets it first (`src/HybridMessageMap.cpp:243`), so that a failed allocation leaves
  a container in map mode without its map. `FailuresAreContained` names this as the
  one failure that costs more than its own parameter, and `ClearRepairs` what undoes
  it.
* A `set` or `update` that runs out of memory in a copy assignment throws and leaves
  its parameter with the tag of a string and no string (`src/Value.cpp:75-81`), where
  `include/messageframe/Value.hpp:71` promises safe access. `find` of any parameter and
  calls for other keys remain defined (`FailuresAreContained`); `clear`, `unpack`, a
  migration, a growing vector, `pack` and the destructor are undefined from then on, and
  so is the next `set` of that key, which destroys the old value first. It is the
  defect of `value_mistyped`, reached without a malformed message.
* `docs/architecture.md:34-37` says that the vector keeps insertion allocation-free. A
  container with a hint that unpacks a small map is in vector mode without the
  reserve, and so is one that was moved from, or made by moving such a container:
  `ReserveHolds` holds for containers without a hint that were not moved since they were
  constructed or reset.
* `docs/architecture.md:23` gives the header a fixed size of 36 bytes. MessagePack packs
  each integer in as few bytes as it needs, so the packed size varies; the model
  has no sizes.
* `setMessageId` takes "any custom enum or integer types"
  (`include/messageframe/Header.hpp:26`). Of a 64-bit type only the identifiers that
  sign-extend from 32 bits come back (`IdentifiersSurvive`): for `uint64_t` those up to
  `INT32_MAX` and the topmost 2^31.

## 6. What is proved

Every property that a passing run checks is also a theorem, for every value of the
constants. The theorems rest on the named assumptions of the modules, which TLC evaluates on the
instances: the capacity is a natural number (in `HybridMessageMapMemory` a positive
one: a vector that is full holds something), hints are natural numbers, received maps
are sequences of entries, without broken values in `HybridMessageMapMemory`, whose
containers that are moved in hold parameters in one store when in vector mode, a header has at least one field, the null pointer, `Absent`,
`NoRef`, `NoWalk` and `Bad` are not confused with real values (`Absent` is neither a
container, nor a dictionary, nor the null pointer, which the abstract map needs to
tell its objects apart), US is a character, names are strings, the header's ranges are
even, each is at least the double of the one before, and 2^32 divides 2^64. One
theorem has hypotheses of its own, named below.

**Containers and dictionaries** (`HybridContainerProofs`, lemmas only). What the operators
on entries return: the first index of a present key is an index of that key,
emplacing a sequence gives a dictionary, overwriting keeps a sequence of entries. One
lemma per container operator says that it takes a good container to a good one
(`PrimeStorageGood`, `InsertGood`, `UnpackedGood`, ...), and one what it does to the
dictionary that the container stands for (`ContentsOfInsert`, `ContentsOfAssign`,
`ContentsOfUnpacked`, `ContentsOfCleared`, `ContentsOfMoved`): `FirstWins` of a vector
commutes with appending, overwriting and migrating. `TraversalIsContents` says that every
order in which `pack` may write the entries is a sequence with the same dictionary.

**The container** (`HybridMessageMapProofs`). The inductive invariant `IndInv` is made of
the types, `StorageInv`, and the finiteness of every map, without which a traversal has
no length. `StorageInv` needs the types to reason about lengths and maps, and the types
alone are not inductive, since `Lookup` and `Assign` are of the right type only on a
container whose stores are.

* `TypeCorrect`, `StorageCorrect`: one step per action.
* `RoundTripCorrect` (`PackUnpackRoundTrip`): from `TraversalIsContents` and `ContentsOfUnpacked`.
* `MapImplemented` (`ImplementsParameterMap`): each action's step is a step of the action
  of `ParameterMap` that has its name. It uses `IndInv`: an object that is not hollow is
  seen as the dictionary `Contents`, and the map that a migration reuses is empty.
* `HollowOnlyAsSaid` (`HollowOnlyByMove`): every step but a move of one object into another
  leaves all objects as they were, but one that it destroys or makes usable
  (`Harmless`).
* `SizeAlwaysCountsKeys` (`SizeCountsKeys`), which assumes assertions on and received maps
  without duplicates, as the run does: `add` of a present key and duplicates on the wire are the
  two ways to store a key twice. `DistinctInv` says that no vector holds a key twice.

**The container with its memory** (`HybridMessageMapMemoryProofs`). The inductive invariant
`MInv` is made of the types, the reserve and `Sound`, which is what is left of
`StorageInv` after failures: stores are exclusive in vector mode only, since a torn
container has entries in both. One lemma per way a call may end (`PushGoesOn`,
`EmplaceGoesOn`, `FailedConversionSound`, `AssignGoesOn`, `ClearGoesOn`, `UnpackGoesOn`)
says that its result satisfies the invariant and what it did to the parameters.
`ReserveHolds` speaks of `relocated`, which a move sets and a reset clears: the
invariant must therefore say that a reset in vector mode reserves whatever the
capacity was before, also in the handler of a failed allocation.

* `MemoryTypeCorrect`, `ReserveAlwaysHolds`, `TerminatesOnlyAsSaid`,
  `FailuresAlwaysContained`, `ResetsRepair`.
* `MapWithFaultsImplemented` (`ImplementsFallibleMap`): a migration that moved n entries and
  failed leaves the dictionary of the vector's first n, whose values are those of the
  whole vector's, because the first entry of a key in a prefix is its first at all
  (`PrefixRemains`); all that comes later in map mode acts on that dictionary, and the
  entries left in the vector never show again. `settled`, the abstract name of map
  mode, is what makes the loss happen at most once between two resets. `broken`, the
  abstract name of `BrokenIn`, must be followed by every call: a migration or a growth
  that returns has met no broken value, so that what it leaves has none
  (`ConversionOfWhole`), and one that throws has met none among the entries it moved.
* `KeptReferencesAlwaysHold`, `WalksAlwaysStayOnEntries`, `ReferencesDangleOnlyAsSaid`
  (`HybridMessageMapPointersProofs`). The first two need more than they say
  (`PointersInv`): a pointer into the vector points to the first entry of its key, and
  a torn container stays torn until it is reset, so that a pointer that says nothing
  of it cannot come back to life. `Stays` and `Reason` say of every call what it left
  where it was and why it moved the rest (`Respects`); a reset or a received container
  moves everything or nothing (`MovesAllOrNothing`).

**Frames** (`MessageFrameProofs`). `FrameInvariant` states the inductive invariant
`FrameInv`: every frame is of its type, with a container as above, and the buffer is
nothing or the complete serialization, in some traversal order, of a frame whose
content is `sent`. The last is what `DeliveryIsFaithful` needs and does not say: the buffer
and `sent` were made from the same frame, and nothing writes to one of them alone.

* `DeliveryCorrect`: each part of a packed frame is taken over unchanged (`HeaderFacts`,
  `ParametersFacts`, `AttachmentsRoundTrip`).
* `FramesUsable`: one lemma per action says what it makes of its frame, and that the
  frame loses its store only when it is moved from (`Effect`).
* `ReplacementOrdered`: `DeserializedFacts` follows the four ends of `Deserialized`. Every
  message that arrives is `Sane`: what the damages make of a complete message is
  of the shape that the parser yields.
* That received attachments are a sequence of attachments takes a counting argument: the
  rank of an item among those taken grows by one at each of them, so there is
  exactly one of each rank up to their number (`RankStep`, `KthExists`).

**Keys** (`FlatKeysProofs`): `ModesAlwaysAgree`, `KeysNeverCollide`, `NamesAlwaysRecovered`, for
strings of any length. They rest on lemmas about the positions of the characters of a
composed key.

**Values** (`ParameterValueProofs`): `RoundTripAlways`, `BrokenOnlyAfterThrow`,
`TagAlwaysMatches`, `NoStringEverLeaked`. The inductive invariant says that every value is
as a constructor would make it or has a String tag without a string. Every action is
first shown to change the values in one of four ways (`Shape`): not at all,
destroying one, writing one, moving one. `TagAlwaysMatches` speaks of the time before a
call has thrown, which the history variable `threw` tells; no call takes it back
(`NextRemembers`), and none that writes a broken value leaves it false (`Excuse`). For `NoStringEverLeaked` the counter
`strings` is the cardinality of the set of values that hold a string (`Counted`), and each
action changes both by the same amount, the ones that throw half-way included.

**Headers** (`MessageHeaderProofs`): `HeaderTypeCorrect`, `IdentifiersAlwaysSurvive`,
`HeadersAlwaysArrive`, for any widths. The inductive invariant adds to the types that a
field whose meaning is known holds the cast of that meaning, in the header and in the
packed array: `IdentifiersSurvive` alone is not inductive, since it says nothing of an
array that is yet to be unpacked. Its two casts are then treated as arithmetic:
`CastUnique` says that a cast is the one value of its type that is congruent to its
argument, from which `CastThereAndBack` follows by cases on the two types. For
`HeadersAlwaysArrive` each field goes through `Encoded`, `Converts` and `Decoded`: the
64 bits of a negative integer are its value modulo 2^64, so that reading them as
signed is again a cast there and back, which needs that the field's type is no
wider than 64 bits, and a negative value occurs only in a signed field.

Only model-checked: the three disagreements of section 5 that have a run. They are
counterexamples, for which a run is the proof.

## 7. What is not modelled, and what could be added

The plan's modules are written and its theorems proved. What could still be proved is
about the models' relation to each other: that `HybridMessageMapMemory`, when no allocation
fails, is `HybridMessageMap` with one object, and that `FallibleMap` without failures is
`ParameterMap` with one object. Both containers are built from the same operators of
`HybridContainer`, so the two proofs would repeat the lemmas above. The disagreements of section 5 suggest two
more: that `set` with a value of the same container stores it unless the call
migrates the container, and that the hint survives wherever no move is involved.

Left out for good: the bytes of the MessagePack format, with `VectorBuffer`, which
appends them to a vector that `serialize` has emptied, and the inside of
`tsl::robin_map` (external); performance; `toString()` formatting; the tests,
examples and benchmarks.

What the models of memory leave out: `HybridMessageMapMemory` follows one container, so
two moved containers are never followed at once (`HybridMessageMap` has two, without
failures); the containers that are moved in are a constant and not produced by calls;
move assignment of a container to itself, which does nothing; whether a value is a string, so that the assignment of any value may fail; what happens after undefined behaviour. Failures of
`MessageFrame`'s parameter functions are those of the container and are not repeated in
`MessageFrame`.
