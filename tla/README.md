# A TLA+ model of Serialization

The repository holds two independent implementations of one wire format: a Rust
crate (`src/src/*.rs`, a serde serializer and deserializer) and a C++ library
(`src/src/*.cpp`, `src/include/Serialization/*.hpp`, self-describing objects in
a file). They share the form of an integer; everything else differs.

## The system

| component | state it keeps | operations | what makes it correct |
|---|---|---|---|
| Rust `Serializer` (ser.rs) | the output buffer; a stack of groups within a call | `to_bytes`, one method per serde type | every value has one encoding, no prefix of which is another's; no panic |
| Rust `Deserializer` (de.rs) | the slice still to read, the offset | `from_bytes`, one method per serde type | accepts exactly the integers in range; never reads past the slice; what is cut is reported |
| Rust `StreamDeserializer` (de.rs:713-742) | a deserializer, the offset behind the last whole value | `next`, `offset` | a stream can be received in pieces |
| C++ integers, strings, scalars | one value | `Serialize`, `Deserialize`, `Render`, `Parse`, `IsEqualTo` | the same integers as Rust; a short write or read is noticed |
| C++ `SerializedVector`, `SerializedCollection` | a vector or map of handles | as above, and `Add`, `Remove`, `Insert`, `GetNextObject`, ... | the parts in their order and under their keys |
| C++ `SerializedObject` | a type tag and a shared pointer | as above, and copies, moves, casts | an object that fails costs nothing beyond itself |

The Rust side calls the value's `Serialize` and `Deserialize` implementations,
which call back, so a value is a walk along the shape of its type. The C++ side
nests calls: `SerializedObject::Deserialize` calls the payload's `Deserialize`,
which for a vector or collection calls `SerializedObject::Deserialize` again.
Nothing in the repository runs concurrently or is persisted by it; what is hard
lies elsewhere: arithmetic at the limits of a type, values cut at any byte and
parsed again, failures in the middle of nested calls, and files written short,
torn by a crash or damaged. `PROJECT.json` lists these hazards at their lines.

## The modules

| module | models | state and actions in the code |
|---|---|---|
| `VarintFormat` | the form of an integer | `Byte` is the continuation bit 0x80 and the seven bits below; `FirstCap` is 0x40 or 0x80 |
| `RustSerializer` | serialize_usize, serialize_i64 | `rest` is `v` or `abs`, `stack` and `out` the stack and the buffer; one action per turn of a loop |
| `RustDeserializer` | parse_u64, parse_i64 and their callers | `value`, `more`, `negative`, `offset` are the locals and the member; `ReadNext` is one turn of the loop with its five ways out; `returned` is what parse_i64 returns, `result` what the cast makes of it |
| `RustParse` | `from_bytes` on any bytes | the parser alone |
| `RustIntegers` | `to_bytes`, delivery, `from_bytes` | the bytes arrive whole or cut |
| `IntegerTransfer` | the promise `RustIntegers` implements | abstract |
| `CppInteger` | Serialize and Deserialize of SerializedInteger and SerializedUnsignedInteger | `bits` is the local `value`, `bytes` the std::stack, `file` what Write left |
| `VarintInterop` | both libraries writing and reading the same integer, and both readers on bytes neither wrote | Rust's i32 with `int`, u64 with `uint64_t`; `source` says whose bytes the readers have |
| `RustShapes` | shapes of serde's data model and the bytes of leaves | `Elements` is a SeqAccess or MapAccess, `times` its `len` |
| `RustWriter` | the serialize_ methods | `wTodo` is what the value's Serialize still has to call, `buffer` the buffer; `SerializeNext` is serialize_element, or a key and its value, or `end` |
| `RustReader` | the deserialize_ methods on a slice | `rTodo` is what the type still asks for; `limit - position` is `buffer.len()`; `DeserializeNext` is next_element_seed, or next_key_seed and next_value_seed |
| `RustStream` | a sender, a transport and a receiver that iterates over what it holds | `offset` is StreamDeserializer's; `base` the bytes dropped |
| `ValueChannel` | the promise `RustStream` implements | abstract |
| `ObjectFormat` | the frame SerializedObject::Serialize builds | `Frame` |
| `ObjectReader` | SerializedObject::Deserialize and the calls nested in it | `calls` is the stack of activations; a phase is a place in the function |
| `ObjectStream` | a file of objects, its writer, its damage, its reader | `file` the bytes, `wPosition` and `position` the positions of the two |
| `RecordLog` | the promise `ObjectStream` implements | abstract |
| `TextForm` | what the Render methods write, and the Parse of the types without loops | a text is a sequence of tokens; `Layout` is the choice of one line or several in the vectors; `TypeOf` the guesses of SerializedObject::Parse |
| `TextTrip` | an object rendered, its text perhaps changed by hand, parsed, and rendered again | `calls` is the stack of activations of Parse; one action per turn of a loop: `ParseElement` of a vector, `ParsePair` and `SkipEmptyKey` of a collection, `ParseIntegerElement` and `ParseUnsignedElement` of the others; `i` is the local of that name |
| `ObjectHandles` | SerializedObject as a handle, in variables, a vector and a collection | `heap` holds the implementations, a handle is `type_` and `impl_`; `cursor` is the name a walk with GetNextObject stands on |
| `RustVarint_proofs` | invariants of the Rust parser and writer, lemmas on their actions | |
| other `..._proofs` | theorems of the module they are named after | |
| `MC...` | instances for TLC | |

What is abstracted: the radix and the widths of the integers are constants (the
code has 128, 64 and 2^63 - 1), so TLC runs on few bits and the proofs hold for
all. In `RustStream` a float has two bytes, a character one or two, a string or
byte string one element repeated; numbers written have at most two groups, and
those of more that a reader may find are one (`Huge`); the
exit of parse_u64 and parse_i64 on an overflow (de.rs:100-106, 151-156) is in
`RustParse` alone. In the object modules lengths, counts and type identifiers are one byte
each, and so are the numbers in vectors of integers; `Boolean` stands for the
payloads of one byte, `IpAddress` for those copied from memory (Decimal too), of
two bytes.

In `TextForm` a numeral is one token, so integers and octets have ten values and
wrap at ten as theirs do at 2^64 and 2^8, and a decimal has one digit on either
side of the point, and behind them a rest that `%lf` does not print. Where two
numerals would meet a text is not considered; the digits of one number are never
torn apart. The spellings of a word (`true`, `True`, `TRUE`) are one token. What
sscanf, StringExtensions and std::map do is external, modelled from how they are
used: sscanf stops, with success, where the text stops to fit.

A build with overflow checks (Rust's debug profile) panics where one without
wraps; `OverflowChecks` is the set of builds a run considers.

Undefined behaviour: `Equals` in `ObjectHandles` answers "undefined" where
operator== would call through a null pointer. In `SerializedInteger`, the negation of INT_MIN and the
shift of an `int` beyond its width are modelled as what two's complement makes of
them, the outcome of the compilers the library is built with.

External to `src/`: the file (IFile, StringFile) that may write short and whose
position may be set behind its end; the transport of bytes; the damage of a
medium; serde's derived implementations, which walk a type in one order on both
sides.

## The runs

| run | question | bounds |
|---|---|---|
| `RustParse` | What do the integer parsers accept, and can they overflow, lose bits or hang? | every slice of at most 4 bytes of 2-bit groups; 64-bit types scaled to 7 bits, so that overlong, overflowing and limit-exceeding slices all occur |
| `RustIntegers` | Does every integer come back, whole or not at all, and in the fewest bytes? | every value of six types, with and without overflow checks; 64 bits scaled to 9, so that the longest has five groups and i64::MIN has its lead group at its own place |
| `VarintInterop` | Do both libraries write and read alike, and where do they differ on bytes nobody wrote? | every `int` (4 bits) and `uint64_t` (7 bits), every short write; every slice of at most 5 bytes, which spell ten bits, beyond either type |
| `RustStream` | Can a receiver use offset() to resume, and what does a spoilt byte cost? | two values each of six types that use every shape, cut at every byte; the first bit of any one byte flipped, so that numbers become longer or shorter, texts invalid, variants unknown, counts too large |
| `ObjectFile` | What do failed writes, a crash and damage cost besides the object they hit, and can they hold the reader up? | two objects of three kinds (a moved-from one; a collection of a vector and a vector of integers; a vector with a part of a type the reader does not know), which hold every shape of payload and are nested up to three deep; one Write that fails or leaves 0 to 21 bytes, after which the caller retries the object or turns to another; a crash after any Write; one byte behind the lengths of a frame damaged to one of four values |
| `Handles` | Do tags and pointers agree, does replacing one handle disturb its copies, what does a walk see of a collection that changes? | two variables, a vector of one, a collection of two names, two implementations alive, two types and values; variables and types are interchangeable (SYMMETRY, sound for these properties: none is a liveness property and nothing orders variables or types) |
| `TextForm` | Does every text come back as its object, and does Parse move on and return whatever the text? | twenty objects of every type, nested up to three deep; lines of 12 tokens for 70 characters, so that both layouts occur; one token removed, inserted or changed anywhere; each result rendered and parsed once more; only objects nested at most three deep are rendered again (`MaxDepth`); the deadlock check shows that none is deeper |

`ObjectFile` shows a nuance no document mentions: if a Write fails and the caller
goes on with a shorter object, the remains of the failed one lie behind the last
frame, and a reader that reads to the end of the file may get an object from them
that was never written. `RecordLog` therefore promises nothing behind the last
record once an object was given up (`torn`); up to there all records are intact.

`RoundTrip` holds for the objects `Plain` describes, and the README of a program
that uses the text form would have to say so: no decimal below zero (it comes back as an
integer) and none with more digits than six; inside vectors and collections no
string with a quote or an end of line; no key that is empty, begins or ends with
a blank, or holds a colon, a quote, a bracket or an end of line.

Five runs are expected to end in a violation and record where the code departs
from what a comment or a test says:

- `RustMinPanics`: `to_bytes` of i64::MIN panics with overflow checks
  (ser.rs:107), although the deserializer and its tests provide for the value.
- `Rust32Bit`: a u64 beyond usize loses its upper bits (ser.rs:161).
- `ObjectIdDamaged`: the Empty type returns without the verification of "known
  types" (SerializedObject.cpp:186, 272), and a type identifier that cannot be
  read without the skip "to aid in recovering data beyond the object" (:178,
  280-281).
- `HandlesCompare`: operator== on an object that was moved from calls IsEqualTo
  with, or on, a null pointer (SerializedObject.cpp:68-76).
- `TextTypeEvident`: the text of a decimal below zero is parsed as an integer
  (SerializedObject.cpp:334), where the comment on Render has it make "the type
  and value evident" (ISerializedObject.hpp:78-79).

Not a run, but worth knowing: GetObject with a default value replaces an object
of another type (SerializedCollection.hpp:138), where its comment speaks of a name
without an object (:129-130). `CopiesKeepValue` covers that step: whoever shares
the replaced object keeps it. The property is about every operation but a write
through a pointer, which all copies are meant to see.

The integers, the stream and the file come to an end (a call returns, a file is
read), so their configurations do not check for deadlock; the liveness properties
say what must be reached before the end. `Handles` and `TextForm` do check for it:
the latter has an explicit last step, and a Parse without a next step would be a
deadlock.

### Fairness

A codec call runs on one thread and nothing stops it: `RustIntegers` and
`RustParse` assume weak fairness of their next step and nothing more. In
`ObjectStream` the writer may stop anywhere; only the reader is fair, and `Open`.
In `RustStream` the receiver, and with it the transport of what was sent, is fair,
the sender is not. In `TextTrip` a Parse that began goes on (`Fairness`, weak
fairness of `ParseStep` written out, since `ParseStep` is always enabled while
parsing); nobody has to edit or call anything. The parity `turn` makes a turn of a
loop that changes nothing a step as well, so that such a loop would be found.

### Mutants

Definitions under a comment "Mutant" change one definition the way
a slip in the code would. None is used by a specification; each makes one property
of one run fail when it is put in its place.

## The proofs

TLAPS proves the following for every radix, all widths, slices of any length,
any objects, texts, names, types and any number of records. Each proof module has
an inductive invariant; every theorem is `Init => IInv`,
`IInv /\ [Next]_vars => IInv'` and what follows from `IInv`.

`RustParse_proofs` (the parser alone, on any bytes):

- `TypeCorrect`; `ArithmeticSafe`, no unchecked addition or negation overflows;
  `CastsSafe`, no cast to a narrower type loses bits; `ParsesExactly`, what is
  accepted is the number the bytes spell and in range, and what is refused is cut
  off or out of range.
- `ExactParse` speaks of `Magnitude`, a recursive function. The invariant uses it
  as `Spelled`, what the first k bytes spell: `value` is `Spelled[offset]`, at
  most the limit of a type that has one, and an error comes with its reason, that
  the next group would pass the limit or the slice is at its end. That
  `Spelled` exists, and equals `Magnitude` where that is asked for, follows from
  the well-foundedness of `<`, not from an induction on the data. The arithmetic
  core is `RoomForGroup`: if `value * Group` fits into a width that is a multiple
  of `Group` less one, adding a group fits too.

`RustIntegers_proofs` (written, delivered and parsed), assuming
`UsizeMax = UMax`, a 64-bit target; `Rust32Bit` shows why:

- `TypeCorrect`, `Lossless`, `PrefixFree`, `Shortest`, and `Implements`: every
  step of the codec is a step of `IntegerTransfer` or a stutter.
- A round trip is usually proved by induction on the number. Here the serializer
  carries a history variable instead: `trail` holds every value `rest` has had.
  The invariant says that neighbours in `trail` differ by one group, that
  `stack` and `out` hold the groups split off, in order, and that after k bytes
  the reader's `value` is the k-th entry of `trail` from its end. The last byte
  then leaves the first entry, which is the number. For `Shortest`, the k-th
  entry from the end is at least what k - 1 bytes can hold.

`VarintInterop_proofs` (both libraries), assuming `UsizeMax = UMax`:

- `CppTypeCorrect`; `WritersAgree`, the same bytes from both; `EitherReads`,
  either reader gets back what either writer was given; `Agreement`, on bytes
  nobody wrote the two differ only where Rust reports an overflow;
  `OverflowWraps`, C++ then has the number spelled modulo the width of its type.
- The C++ writer is compared with Rust's, not with the number: its `bits` is an
  entry of Rust's `trail`, its stack holds the groups of Rust's last bytes, its
  file is Rust's first bytes. Its reader's member is congruent to `Spelled`
  modulo the width, which survives the shift, the addition and the wrap.

`ObjectStream_proofs` (a file of objects):

- `BothSidesTyped`, the type invariant of writer, file and reader, whatever was
  written, failed, torn or damaged.
- `FramesImplementLog`, under the assumption of the next: every step of writer,
  medium and reader is a step of `RecordLog` or a stutter. Each object whose
  Serialize returned true is read back equal and in its place, except where it was
  damaged, whatever failed around it; and there is nothing else to be read unless
  an object was given up.
- `FramesResynchronize`, assuming `DamageKinds \subseteq {"payload", "typeId"}`:
  the reader leaves each record at its end, whatever failed inside it, however
  deep. (With a damaged Empty type or length it does not: `ObjectIdDamaged`.)
- The invariant says of the file that the frames of the store lie side by side
  (`StoreOK`); of the writer that it stands behind them, and in the middle of a
  frame knows what of it is written (`WriterOK`); that no damage reached the
  heads of the outermost frames (`HeadsOK`); and of the reader that its outermost
  call stands at a frame's beginning or already knows its end (`InStep`). For this
  theorem nested calls are not followed: the outermost one sets the position itself.
- For `FramesImplementLog` they are. `LogInv` adds what the bytes are: those of
  an intact record lie where they were written, and behind the last there is
  nothing but a part of the object begun last (`ContentsOK`), unless one was given
  up; the reader is within the file until a call fails (`WithinFile`), and behind
  the last record it can only fail (`BehindOK`). `ReadsIntact`, the core, says of a
  reader in an intact record that there is an `h`, the object each activation
  reads and where it lies: the activation has the parts before the one the next
  waits for, and the innermost stands where its phase says (`Following`). A step
  makes `h` longer by the part it begins, or shorter by the one it ends, so no
  induction over objects is needed.
- `Frame` and `Readable` are recursive functions on objects; that they satisfy
  their equations follows from the nesting of objects being well-founded (`ObjectsAssumption`).

`RustStream_proofs` (a stream of values of any type, however deep, any number of
them, cut anywhere, with any one byte changed):

- `BoundarySafe`: offset() is the end of the last value yielded, so what the
  receiver keeps begins with a value's first byte. `RefusalSound`: a value that is
  all there and as it was sent is never refused. `TypeCorrect`: base, offset,
  position and the slice's end stay in order, whatever the bytes.
- `ChannelSafe`, the safety of `ImplementsChannel`: every step is a step of
  `ValueChannel` or a stutter. `Spec` is enough for it; its fairness is what the
  run checks.
- No induction over types is needed. The invariant says that there is a walk, a
  sequence of points (`todo`, `tokens`, `at`), each a call or the next element
  away from the last, along which a sent value was written: the writer makes
  it longer by one point with each call (`CallGrows`, `WalkGrows`), `Send` moves it
  behind the bytes already there (`WalkMoves`), and a spoilt byte leaves the walks
  of the values before it (`WalkAgrees`). The reader stands at a point of that
  walk. `RequestFollows`, the core, shows for every kind of shape that its request
  leads to the next point, or fails because that point lies behind the slice.
  When nothing is left to be asked for, it stands at the last one: it has the
  value, and its position is the value's end.

`ObjectHandles_proofs` (handles, in any program that copies, moves, assigns,
reads and casts them):

- `WalkLosesNothing`: a walk over a collection that changes meanwhile repeats no
  name and loses none. Every name that has been there since the walk began is
  returned or lies behind the cursor.
- `CastsNeverDangle`: a cast yields no released implementation and none of
  another type. `HeapOK` says that whatever a handle points to is alive and of
  the handle's tag; it is inductive only because an implementation is released
  when its last handle is gone and never changes its type.
- `ReplacingSparesCopies`: constructing, copying, moving, parsing or reading an
  object, and any operation of the vector, the collection or its walk, leaves the
  value of every handle that is there before and after it (`CopiesKeepValue`), and
  replaces no handle but the one it is called on, a move the moved-from one besides
  (`OthersUntouched`, which is proved only: no run checks it). Two action properties,
  from the same invariant: an old value stays because its handle holds it
  (`StayingKeeps`), and a new one lies where no handle leads (`FreshKeeps`).

`TextTrip_proofs` (an object rendered, its text changed anyhow, parsed):

- `TextTyped`: whatever the text, no index leaves it, every object is of a known
  type, and the parts of a collection stay a map in the order of its keys.
- `ParseAdvances`, an action property: each step of Parse returns from a call,
  takes it to its loop or its failure, moves on in its text, or moves on and parses
  a shorter text. The calls, their phases and the places in their texts can only
  do so finitely often; that last step, `ParseReturns`, is TLC's.
- The invariant (`TextInv`, `CallOK`) says that a call which loops has a text that
  ends with a closing bracket. That is what keeps the unchecked reads inside: a
  key, a number or an element ends before the bracket or at it (`KeyFacts`,
  `BehindFacts`), which is neither a comma nor a colon, so moving on behind one
  stops at the bracket at the latest. An empty number is refused by sscanf
  (`NothingIsNoNumber`), or its loop would not move on.
- `WithPartKeeps`, the map, needs that keys are totally ordered (`BeforeTotal`,
  `BeforeTransitive`): the place of a key is the first whose key is not before it.
- That the text to parse is one of the form's tokens needs that `Render` writes
  one (`RenderType`): `Nested` and `Rendering` are recursive functions of the
  depth, and satisfy their equations by the well-foundedness of `<`.

`RustVarint_proofs` holds the invariants of the Rust parser and writer and the
lemmas about each of their actions, which the three compositions share.

The proofs about integers rest on `RadixAssumption`, `WidthAssumption`,
`TypesAssumption`, `TargetAssumption`, `WiresAssumption` (the parser) and
`IntAssumption` (C++); those about the file on `ObjectsAssumption`,
`ShapesAssumption` of `ObjectFormat` (what the classes of an object's payload can
hold: only containers have parts, and a map has each key once), `LengthAssumption`, `WrittenAssumption` and `DamageAssumption`; those about the
stream on `ShapesAssumption` of `RustShapes` (types are closed under their parts, an enum has at
most 16384 variants), `LeavesAssumption` (numbers and lengths of two groups,
characters up to U+07FF: the bounds of the model) and `StreamAssumption`; those about
handles on `HandlesAssumption`; those about texts on `DepthAssumption` and
`ObjectsAssumption` of `TextTrip` (objects are nested at most `MaxDepth` deep, any
number), and `EditsAssumption` (an edit puts in tokens of the form). TLC evaluates them in the runs of their modules.
The code's constants satisfy them but for `LengthAssumption` (an object's frame has
fewer bytes than 31, the identifier of Empty) and `LeavesAssumption`. These two are
bounds of the model: what rests on them is proved within these bounds only.

Only model-checked, and why:

- Liveness (`Terminates`, `Settles`, `ParseReturns`, `ReadsOn`, and what the
  receiver of a stream reaches): fairness is out of the prover's reach.
- The texts' `RoundTrip`: that a text is parsed into its object is an induction
  over the object and along its text at once.

## Plan

1. The integers of both libraries and the theorems about the Rust side: done.
2. The object framing, with failed writes, crashes, damage and objects given up,
   and the Rust stream, with cut and spoilt bytes: done.
3. Handles, equality and containers: done; containers inside containers are left.
4. Render and Parse: done.
5. Proofs: both integer codecs, the Rust stream, the framing with the log it
   implements, the handles, and the type invariant and the progress of Parse on texts
   are done; left is the round trip of the texts, for which TLC has to do.

Not modelled, and why:

- `error.rs`, `lib.rs`, `ISerializedObject.hpp` and the build files have no
  behaviour of their own.
- Memory exhaustion and exceptions in C++: the code neither limits the one nor
  catches the other (a damaged count resizes a vector to it).
- `IsEqualTo` of the scalars and containers compares the values; it is part of
  `Equals`. A container that holds itself through a shared handle, which would be
  compared and serialized without end, needs handles inside implementations.
- A `usize` narrower than u64 in the data model: no writer on such a target makes
  a length that needs more (`Rust32Bit` is about the number that does).
- A caller that goes on after an error of `StreamDeserializer::next`, or streams
  types without bytes: the code does not say what it should get, and the receiver
  of `RustStream` does neither.
- In `ObjectHandles` a text is what it parses to; in `TextTrip` an object is a
  value and not shared.
