# Verification of corelib-cpp

corelib-cpp is a header-only C++20 library that encodes and decodes SofaBuffers messages:
fields with a numeric id, of variable-length integers, floats, strings, blobs, arrays, and
sequences of fields nested up to `MAX_DEPTH`. Everything of its own is in
`include/sofab/sofab.hpp` (7252 lines) and `include/sofab/bits_equal.hpp`. Both directions
*stream*: a message of any length is written through a buffer of a byte or more, and read
from chunks cut anywhere. The library has no threads and stores nothing; what is hard in it
is the state that has to survive from one call to the next, the callbacks in the middle of a
call, and the errors that are discarded and asked for later.

All line numbers below are those of `include/sofab/sofab.hpp`, unless another file is named.

## Inventory

| Part | Lines | State | Operations | Interacts with | Hard because |
|---|---|---|---|---|---|
| `OStreamImpl`, the encoder | 1348-2488 | buffer, cursor and reserved offset; the run of held-back sequence ids; depth; the first failure | `write`, `writeIf`, `writeLazy`, `sequenceBeginLazy`, `sequenceEnd`, `sequenceEndKeep`, `flush`, `rejectArgument` | the flush callback, which may install a buffer in mid-write | a field spans buffers; an error in the middle of one; headers held back until there is content; discarded `Result`s |
| `OStream`, `OStreamView`, `OStreamInline` | 2502-2671 | the storage, shared, borrowed or inline | constructors, `setBuffer` | `OStreamImpl` | order of destruction, rejected buffers |
| `OStreamMessage`, `OStreamObject` | 2691-2753 | the message | `serialize` | the encoder | nested failure |
| `IStreamImpl`, the decoder | 2918-6118 | carried bytes, the suspended path, the half-delivered field, the span of the current field, the element bounds, the verdict | `feed`, `reset`, and for a handler `read`, `readString`, `readBlob`, `readArray`, the accessors, `invalidate` | the handler of each level, called again when a field resumes | every cut; the C++ stack is rebuilt on each chunk; a budget measured over chunks; refusals whose order matters |
| `IStreamInline`, `IStreamMessage`, `IStreamObject`, `IStreamInto` | 6126-6321 | the handler or the destination | `reset` | the decoder's callback | a callback that captures the object, stale destinations |
| `StringSeq`, `BlobSeq`, `MessageSeq`, `RowSeq`, the collectors | 6686-7230 | a reference to a container | `prepare`, `deserialize` | the decoder, through the bounds they declare | gaps, repeated indexes, resumption inside an element |
| `readString`, `readBlob`, `readArray` and their `Capped` and free forms | 5519-5885, 6342-6686 | none | refuse, resize, read | decoder, containers | three refusals with three error codes |
| `FixedString`, `FixedBytes`, `InlineVector` | 799-1335 | storage and a length | container operations | destinations of a read | the tail past the length |
| varint, zigzag, little endian, UTF-8 | 300-605, 3260-3472 | a UTF-8 automaton state | pure functions | both directions | overflow at the tenth byte, cuts |
| `bits_equal.hpp` | all | none | comparison | tests, generated code | signed zero and NaN |

What makes each part correct:

- **Encoder.** The message is a function of the accepted calls, whatever the buffers and the
  sink; frames nest; message bytes and reserved head do not mix; the first failure is the
  verdict and nothing is missing from it; a condemned stream loses a tail at most; every call
  returns.
- **Decoder.** Each `feed()` answers and delivers what a decode in one piece of the same bytes
  does; what it carries fits; what it resumes is where it stopped; the budgets and bounds do
  not depend on the cuts; recursion is bounded; every `feed()` returns.
- **Object decoders and collectors.** The destination after a decode is that of the message,
  also for the next message and for arrays with gaps, repetitions and resumed elements.
- **Containers.** Length within capacity; nothing of an old value visible; overflow truncates
  or is refused as declared.
- **Primitives.** Decode inverts encode; the windowed and the bounded reader agree; the
  automaton accepts exactly UTF-8, however it is cut.

## Modules

```
MessageWire     bytes of an encoded message
  Encoder       what an encoder promises                 (abstract)
  OStream       OStreamImpl and its flavours             implements Encoder
    MCOStream   a small instance
    OStreamProofs      its invariants, the refinement, and that frames nest, proved
FieldStream     fields, their place in a message, and the answer to its first n bytes
  FieldStreamProofs    lemmas on that layout, on the rules by which a field can end a
                       decode, and on the payload a receiver holds
Decoder         what a decoder promises                  (abstract)
  IStream       IStreamImpl                              implements Decoder
    MCIStream   a small instance
    IStreamProofs      windows, carry, calls and spans, the path of a suspended decode,
                       and the refinement, proved
    ObjectDecoder      the message a decode is made into: IStreamObject, IStreamInto,
                       the storage of values, the collectors; each step of IStream
                       with what it does there
      MCObjectDecoder  a small instance
      ObjectDecoderProofs      what is at the places is what the fields mean, after any
                               sequence of messages, and what a refusal leaves, proved
BoundedSequence what a container without a heap promises (abstract)
  InlineVector  InlineVector, FixedBytes, bitsEqual      implements BoundedSequence
    MCInlineVector     a small instance
    InlineVectorProofs         its invariants and the refinement, proved
Text            UTF-8, FixedString and the payloads read into it
  MCText        a small instance
  TextProofs    the validator accepts what is UTF-8, however it is cut; cuts and NULs, proved
Varint          varints, zig-zag and little-endian words, written and read
  MCVarint      a small instance
  VarintProofs  every number is read as it was written, and every varint taken for
                what it is, proved
DataInduction   induction over numbers and the existence of recursive functions, as lemmas
```

### The encoder: `OStream`

The bytes of a message are tokens: which field, header or end marker they belong to, their
place in it, and whether they are the last of one `pushBytes` call. The value of a byte is left
out. `buf`, `cap`, `off` are `buffer_`..`cursor_`, `end_` and `offset_`; `pend` is `pending_`;
`seqDepth` and `failure` have their names. A call that writes puts its bytes, the headers held
back so far in front of them, into `todo`, and the steps `PushRun` (the fast path of
`pushBytes`), `PushSome`, `PushFull`, `PushFlush` and `PushCondemned` (`pushByte`) carry them
into the buffer. That is the granularity at which the program can be observed: the flush
callback runs between two bytes, and it copies the buffer, or installs another one that
`initBuffer` takes or rejects. `owed` counts the closers the application believes it owes;
it makes the code in the model do what generated `serialize()` code does, including to go on
after a refusal it has not looked at. `sent`, `handed`, `reopened` only observe.

`Encoder` is the promise: a message that grows by whole fields, with the headers held back,
and a verdict. Under the refinement mapping the message of a healthy stream is what has been
sent, what is in the buffer, and what the running call has yet to push.

### The decoder: `FieldStream`, `IStream`

A field has a type, an id, so many bytes of tag, of length or count words, and of payload; where
it is malformed, if it is; and what the receiver does with it (reads it, does not know it,
expects another type, finds it too large for the schema, for a cap or for the destination).
Bytes are numbered, and destinations receive numbers, each with the sequences it came through,
so that a byte lost, repeated, moved or delivered to the wrong level shows.

`IStream` follows the calls of the C++ code. `Feed` opens a window: carried bytes stitched to
the first new ones, or the chunk itself. The open calls (`dispatchLevel` under `read` or
`skipSequence`) are frames of `stack`, with the locals each restores when it returns.
`pc` is the place in the parser: `enter` (`levelEntry`), `loop` (one turn of `dispatchLevel` or
`parseTopLevel`), `deliver` (the handler or `skipPayload`), `return` (the end of a level),
`parsed` (the end of `parseWindow`). `carry`, `suspendDepth`, `replay`, `path`, `pend`, `pendDone`,
`spanCarry`, `spanBase`, `spanSkipped`, `spanSkip`, `capInert`, `terminal`, `skipped` and
`incomplete` are the members of the same name. When something is refused the C++ calls unwind
without touching what a later call can see; the model unwinds in one step, `Refused`.

`FieldStream!Answer` and `Values` say what a decode of the first n bytes in one piece answers
and delivers, from the layout of the message alone: where each field starts, in which
sequences, which fields are declined, and where each fault shows. `Decoder` is a machine that
answers so after each feed, and `IStream` implements it.

### The message that is decoded into: `ObjectDecoder`

Places of the message are named by the ids on the way to them; the element of a collector by its
index. `dst` says what is at each: a buffer, the length that counts as the value, and for a
collector the number of elements. `ObjectDecoder` extends `IStream` and joins each of its steps
with what the handler does in it: nothing (`Silent`), enter a nested message or a collector, anew or
again (`ObjectSequence`, `ObjectDescend`, with `prepare()` under the test of `replay_`), or read a
payload (`ObjectPayload`), into one of five kinds of storage: a scalar; a `std::string` or
`std::vector` that `FitDest` grows with what has arrived; a container with a capacity, whose length
is set before (arrays) or after (strings and blobs) its elements are; a `std::array`, which is
cleared by the first delivery; and the span or raw buffer of a hand-written handler, which takes a
prefix. `ObjectReset` is `reset()` of an `IStreamObject`, which puts its message back, or of an
`IStreamInto`, whose caller may or may not. Units of a value carry the number of their message and
their byte in it. `Meaning` is the reference: the whole fields so far, applied one after the other.

### Values in storage: `InlineVector`, `Text`

`InlineVector` has the buffer with all its slots, those behind the length included, because what they
hold is what can go wrong. `FixedBytes` is the same machine with fewer operations, and `set_len`
behind a payload (`ReadBytes`). `Alike` is the `==` of the elements, which is not that of their bits:
`bitsEqual` compares the latter. A copy is the one the compiler writes. `Transmit` sends one container
as a field of a message that is received into another: the omission test of a generated encoder
(`Present`, external code, after README.md:431-436) decides with `bitsEqual` whether the field is in the
message, the receiver starts as the declared default (`Fresh`), and `readArray` sets the length and fills
the elements of a field that is there.

The abstract module, `BoundedSequence`, has the same calls on plain sequences. Its refinement is labelled: both
modules record in `op` what has been called, with the arguments and the answer, until the caller takes
the answer (`Return`). Each call must therefore be matched by that same call with the same arguments and answer,
and a call that changes nothing is a step and no stutter.

`Text` has the automaton as its edges (`Edge`; `utf8Dfa` is the table they make), the validator that skips ASCII by words (of two bytes in the model,
eight in the code) and the two ways a payload reaches a `FixedString`, whole (`ReadWhole`) or in
pieces (`ReadPiece`), next to what a program assigns, clears and writes. What UTF-8 is is written
from the code points (`Scalar`, `Encodes`), not from the automaton. `HeldNow` keeps the states few: only
the texts in `Held` are written into and read over.

### Numbers on the wire: `Varint`

Words are sets of bit positions, 64 of them, so that masks are intersections and the additions of
`spread7` carry. The encoder has a buffer of which so many bytes are left: a number is stored padded
where ten are, else byte by byte over a flush (`PutVarint`, the element loop of `writeIntElements`).
The decoder has a cursor and an end that moves as bytes arrive, and reads or skips at any time. What
is written behind a number, or was stored there as scratch, is what the windowed reader must mask.
The reference (`Expected`, `GroupsAt`) is the definition of a varint, in bytes.

## Runs

| Run | What it shows |
|---|---|
| `encoder` | `OStream` keeps its ten properties (below), 75 000 states |
| `decoder` | `IStream` keeps its eight properties, 151 000 states |
| `objects` | `ObjectDecoder` keeps its five properties, 88 000 states |
| `text` | `Text` keeps its five properties, 211 000 states |
| `inline_vector` | `InlineVector` keeps its two properties, 435 000 states |
| `varint` | `Varint` keeps its four properties, 176 000 states |
| `encoder_next_write`, `encoder_commit`, `encoder_destroy`, `decoder_span`, `decoder_skips`, `half_written` | a statement of the documentation that the code does not keep; see *Disagreements* |

**Properties of the encoder.** `PendingWithinDepth`: the fixed array of held-back ids is not
outrun, whatever an application does after a refusal. `HeadIntact`: reserved head and message
bytes never mix. `WellFramed`: the frames in a healthy message nest, and the open ones are those
the application has yet to close. `VerdictCovers`: an error that a call returned is known to
`ok()`. `NoHollowPacket`: no packet without content. `OverflowParked`: after an overflow
nothing can follow what was cut. `FirstFailureWins`. `ImplementsEncoder`: refinement of
`Encoder`. `CallReturns`: every call returns.

**Properties of the decoder.** `DepthBounded`. `CarryIsTail`: what is carried is the tail of
what was fed and leaves room for a byte. `PathIsOpen`: between two feeds, the path to re-enter
is that of the sequences open at the next byte, with the way each was entered, and the
half-delivered field is the one that byte is of. `SpanIgnoresCuts`: the span compared with the
budget does not depend on the cuts. `InertCapNeverFires`: where the budget tests are off, none
would have fired. `ImplementsDecoder`: refinement of `Decoder`. `FeedReturns`: every `feed()`
returns.

**Properties of the message.** `ObjectExact`: between two feeds every place holds what the whole
fields so far make of it, whatever was there before (an earlier message, an earlier field of the same
id, an element of the same index), and the field under way has lost nothing. `RefusalKeepsFields`: a
refused field has touched its own place only, and the length of the collector it is an element of.
`CollectorsWithinBounds`: no container grows past any of its bounds, so `emplace_back` is never
called on a full one. `NothingLeftOver`: an `IStreamObject` shows nothing of an earlier message.

**Properties of containers and texts.** `ImplementsSequence`: every call on a container does and answers
what that same call of `BoundedSequence` does: left-over slots are never seen again, by a grow or a
comparison, a full container keeps what `push_back` finds there, and an array of floats is left out
of a message exactly when it is its default to the bit, so that the receiver has it to the bit. One
mutant for each of these ways to break it. `VerdictOfTheWhole`: however a
payload is cut, it is read with its last byte when it is UTF-8 and refused when it is not. `StateOfThePrefix`: between
two pieces the automaton is where the bytes so far belong. `KeepsCharacters`: a cut keeps the longest
prefix that fits and is UTF-8. `Terminated`: a text in use ends in a NUL.

**Properties of numbers.** `RoundTrip`: a number is read as it was written once all of its bytes are
there, and not before. `VerdictOfTheBytes`: the fast path, the windowed reader and the byte loop, of a
read and of a skip, agree with the definition, malformed varints included, on value, verdict and
cursor. `Canonical`: both encoders write the fewest groups, on either byte order, and nothing stored
later spoils them.

**Bounds.** The encoder: four calls (`CallBound`), two fields (one pushed by one `pushBytes`
call, one by two), headers of two bytes, depth 2, buffers of 1 to 5 bytes with offsets 0 to 2, two
of them rejected. Four calls are enough to open two sequences, write and close, or to be refused
and go on; the smallest buffers cut every field and header at every place. The decoder: a message
has up to six fields over an alphabet with one field of each kind the code tells apart, valid or
malformed at the tag, the length or the payload, depth 2 with messages that exceed it, `CARRY_CAP`
4 with a header and an element of exactly that size, and budgets of 5 bytes, which many messages
exceed at every place, and 40, which none do and which makes the budget tests inert. Chunks are of
every length, so every way of cutting each message is explored, as well as feeds of nothing,
feeds after a refusal, and a `reset()` at any time between two feeds. Sizes are scaled: what
matters of `CARRY_CAP` is that a cut header or element fits and that the stitched window may
end before, at or behind it; of `CAP_NEED_MAX`, that no payload announces
more, and that the budget of 5 exceeds it by one: the tests are then off in a window of one byte with
nothing carried, and on as soon as anything is.

The objects: 48 messages, each of a few fields, chosen so that a value is followed by a shorter and a
longer one of each kind of storage, a collector by itself and by another, elements come descending,
repeated, with gaps, refused in each tier and nested, and any of four messages follows any other on
the same stream (`MESSAGES` 2). One budget, 5, exceeded by two of the fields. The containers: two of
them, three values of which two are alike without being the same and one is not alike itself, capacity
3, lists up to one longer than that, a declared default of two elements. The texts: capacity 4, the longest character, payloads of up to five bytes over twelve bytes
at the edges of the classes of the table; payloads come upon three texts (`Held`). The numbers: for
each length of a varint the smallest and the largest number that has it, dense and sparse; malformed
varints of each length with each kind of last byte; first buffers of 9 and 10 bytes, on both sides of
the window; at most two numbers, since a number is disturbed by its neighbour only. `Varint` may come
to its end, everything written and read: its run does not check for deadlock.

**Fairness.** The library is sequential. `OStream!FairSpec` asks that a call that has begun
takes its next step: the code runs and the flush callback returns. `IStream!FairSpec` asks that
of `feed()`. Nothing is assumed of the application, which may never call again. The two
liveness properties say that these steps come to an end.

**Mutants.** For each property, an operator beside the one it mutates is what that code would be
with a plausible mistake: an offset not checked, a level off by one, a run not committed, a
pointer not advanced by what was held, a skip flag not remembered. Each is marked as a mutation
or described by its name (`AnyHeader`, `OneByteMore`, `ReadAgain`, `ForgetfulSpan`, `UncarriedCap`,
`AfterAll`, `LoopAgain`, `DeeperStill`). No specification uses them; with one of them in place the
property it goes with is violated.

## Disagreements

1. *A stream does not keep working after a rejection* (`encoder_next_write`). README.md:660-662 says
   the next write encodes normally. It does until the buffer is full: `pushByte` (1611) returns the
   old verdict before it would call the sink, and the write is cut in the middle.
2. *A failed commit does not always park the cursor* (`encoder_commit`). The comment at 1698-1703
   says that every later push fails too. When the commit fails because the stream was condemned
   before, there is room left, and a shorter write succeeds without the headers it belongs behind.
3. *The destructor hands out freed memory* (`encoder_destroy`). `~OStreamImpl` (2125) flushes after
   `OStream::bufferOwner_` (2505) is gone.
4. *Nested skips are discounted twice* (`decoder_span`). README.md:324-332 says the discount is
   once per skipped subtree. `finishField` (3960) discounts each child of a skipped sequence and
   the level around it discounts the sequence, so that live fields behind it may exceed the budget.
   `FieldStream!OnceDiscounted` is what the documentation says, `Discounted` what the code does,
   and `SpanIgnoresCuts` and `ImplementsDecoder` are about the latter.
5. *A skip can be counted twice* (`decoder_skips`). 3882 counts a skipped element before its
   length word is read; when the chunk ends between the two the header is parsed again.
6. *Half-written values can be seen* (`half_written`). The comment at 3629-3631 says that "only the
   **length** is published, once, at the end — no caller ever sees a half-written value". The bytes are in place before: a destination
   that holds a value shows it half overwritten, and one that grows shows what has arrived.

Met while reading, without a run of their own:

- The texts on `FixedString` (786-789) and `FixedBytes` (997-1000) call a payload that does not fit
  invalid; `roomFor` (3616) answers `InvalidArgument`, as section 6.3 of the format asks.
- `FixedBytes::set_len` is documented (1066-1077) as called before the bytes are bound; it is called
  after the copy (3583).
- `FixedString::set_len` is documented (886-893) as keeping the NUL, since no delivery touches it. A
  delivery in pieces over a longer text does: until the last piece, and for good when that is refused,
  `c_str()` runs on to the next NUL, at most to the last slot. `Terminated` says when there is one.
- A field that exceeds the budget is offered with its payload withheld, "nothing copied"; an
  `InlineVector` is resized and a `std::array` cleared then (5860-5867).
- `emplace_back` of an `InlineVector<T, 0>` would index in front of its buffer; `N > 0` is an assumption.

## Proofs

### The encoder

`OStreamProofs` proves, for every set of fields and ids, every bound on the depth, every set of
buffers and every sink, with the assumptions on the constants that `MessageWire` and `OStream`
name (a header has one to five bytes, a field at least one, its last byte ends a run, and none of
them opens or closes a sequence):

- `TypeCorrect`, `HeadPreserved`: the cursor stays between the head and the end of the buffer, and
  the head is whole. Inductive invariant: `Bounded`, which adds to `TypeOK` and `HeadIntact` that
  what is left to push ends with the last byte of a run, without which a step of `pushBytes` could
  not be told from one that stores too much.
- `DepthBounded`, `VerdictComplete`, `PacketsCarryContent`, `OverflowIsFinal`. Inductive invariant:
  `Safe`, which adds three facts. `NestingAgrees`: an application that follows the verdict owes
  as many closers as there are open sequences, so `sequenceEnd` never runs below the run of
  held-back ids. `RoomBehindHead`: behind a sink every buffer in use has room for a byte, which is
  why a full buffer that is handed over has content. `OverflowNeedsNoSink`: only a stream without a
  sink overflows, which is why an overflowed buffer is never emptied by a flush.

And that what leaves the stream is what was written:

- `FirstFailureStays`: no step replaces a verdict.
- `EncoderImplemented`: every step of `OStream` is a step of `Encoder` or changes nothing it speaks
  of, when the storage outlives the stream (`~SoleOwner`: with sole ownership the destructor
  hands over freed memory, disagreement 3, and the theorem would be false). The lemma the
  argument turns on is `StoreMoves`: storing bytes moves them from what is to be pushed to what
  has been, so the message does not change while a call runs; it follows from `GrownEnd`, how
  the end of a buffer grows when bytes are added. `OutTaken` says that a sink that copies, takes
  or installs loses nothing. A condemned stream may go on storing (`BeginsConcat`: only behind
  what is there), but not after an overflow, for which `OverflowParked` is needed; and an
  accepted closer finds an open sequence, for which `NestingAgrees` is needed.
- `MessageFramed`: the sequences of a healthy message nest, and those open in it are the ones whose
  header is not held back. The refinement turns it into a question about six steps of `Encoder`.
  The invariant is `Framed`: nowhere in the message have more sequences been closed than opened, and at
  its end so many are open (`Nests`). What is counted in front of a byte does not change when bytes are
  added behind it; a header adds an opener, an end marker a closer, a field neither. The proof asked for
  the assumption that a field holds no frame of its own.

### The containers

`InlineVectorProofs` proves, for every capacity, element set, `==` of the elements, declared default and
set of lists:

- `TypeCorrect`, for the copy the compiler writes too;
- `SequenceImplemented`, the labelled refinement of `BoundedSequence`: every call, with its arguments and
  its answer, is that call on the sequence. For each way of writing slots there is one
  lemma that says which elements the buffer then has (`ElemsFilled`, `ElemsResized`, `ElemsWritten`,
  `ElemsAppended`), for each comparison one that says what it tells of the elements (`EqualIs`,
  `SameBits`, `PresentIs`), and the steps follow from those. No induction is needed, because every
  operation is one function over the slots. `TypeOK` is the only invariant it rests on.

### Texts

`TextProofs` proves, for every capacity, word size, set of texts and every payload of bytes, all five
properties of the run, and one that is about the validator alone.

- `ValidatorExact`: `utf8Valid` accepts a text exactly if it is a run of shortest encodings of scalar
  values. The run of TLC has texts of five bytes over twelve values; here they are all texts. The proof
  has three parts. `OneByte` to `FourBytes`: a sequence of so many bytes is the encoding of the code point
  in it exactly if the automaton goes through it by the states named there. This is where overlong forms,
  surrogates and what lies past U+10FFFF are excluded, by arithmetic on the digits to the base of 64.
  `AcceptedIsWellFormed`: the places where a text can be cut into characters are those at which the
  automaton accepts. `TurnsAre`: the loop that skips ASCII by words stands where the automaton accepts
  after every turn, or it has refused a text that the automaton does not accept. `RejectedStays` is the
  statement of 538 that the rejecting state is absorbing.
- `VerdictIsOfTheWhole`, `StateIsOfThePrefix`: a payload in pieces gets the verdict of the whole
  (`Pieces`: the automaton over a text is the automaton over its second part, from where the first one left
  it). The part of the invariant they need is `Reading`: while a payload arrives, the carried state is the
  automaton's behind what is there, and the buffer begins with it. `StateOfThePrefix` is bounded to two
  bytes before the next one for TLC; the proof does not need the bound.
- `CutsBetweenCharacters`: `utf8Prefix` stops at the first byte from the end that continues no sequence
  (`CutBackIs`), which in a text that is UTF-8 is where the automaton accepts (`ContinuesOpen`), so what is
  kept is the longest prefix that fits. Of a text that is not UTF-8 it says which bytes are kept only.
- `TextTerminated`, `TextTyped`.

The automaton, the turns of the validator and the cut are recursive functions; that they exist and obey
their equations is shown with `DataInduction`, as for `Layout` below.

### Numbers

`VarintProofs` proves, for every word of 64 bits, all four properties of the run. The assumptions are
that a buffer holds a window of ten bytes and that no foreign varint is longer than a buffer. Nothing is
enumerated: a word is a set of bits, so that each line of the arithmetic is a statement about the place
each bit comes from.

- `GatherUndoesSpread`, on `SpreadAt` and `GatherAt`: bit b of a number is at 8 * (b / 7) + b % 7 of the
  window. The rounds of `spread7` that are sums need `AddMoved` and `AddMovedTwice`: adding what moves to
  itself carries each of its bits into a place that is free, so nothing is carried further.
- `WrittenCanonical` (`Canonical`). `EncodeIs`: the loop writes the groups of seven bits, by induction on
  their number. `PaddedIs`: so do the first bytes of the padded form, whose count `LengthIs` shows to be
  right, (9 * width + 64) / 64 being width / 7 rounded up for each width up to 64.
- `OneDecoder` (`VerdictOfTheBytes`). `TermIs`: the lowest unmarked bit of the window is the end of the
  varint. `WindowedIs`, `TailIs`, `OneByteIs` and, from them, `ReadersAre`: each way of reading finds the
  first byte without a mark and the groups in front of it, and refuses when they do not fit a word, which
  the tenth byte decides alone (`GroupsFit`). `VerdictIs` compares that with the reference.
- `ReadAsWritten` (`RoundTrip`). `ZigzagInverse`: the sign is moved back by a subtraction that wraps
  around (`NegatedBit`). `StoreIs`, `LoadIs`: words in memory, on either host.
- `TypeCorrect`.

The invariant is `Buffers` (what is stored is in front of the end of the buffer in hand), `Laid` (each
piece is followed by the next, and its bytes are still those of its value: what later numbers store, with
their scratch, is behind it), and `Asked` (nothing is written once something was read).

### The decoder

`IStreamProofs` proves the following for every alphabet of fields, set of messages, depth, carry
capacity and budget, under `FieldAssumption` and `CapAssumption`, which are what the format fixes: a
field has a byte of tag at least, a header and an element fit `CARRY_CAP` each, no payload is longer
than `CAP_NEED_MAX`, and a field can only be malformed where it has bytes.

`DecoderInvariant` proves `IInv`, from which `TypeCorrect`, `RecursionBounded` (`DepthBounded`),
`CarryExact` (`CarryIsTail`) and `InertCapSound` (`InertCapNeverFires`) follow. None of the four is
inductive by itself. The parts of `IInv` and what they are needed for:

- `WindowFollows`, `CarryFollows`: bytes are numbers, so a window is a run of consecutive numbers, and
  so is the carry. That the carry is the end of what was fed holds when it is written because the
  window it is cut from was so; and stitching a carry to a chunk is a run again because the chunk
  follows it. `Consumed`: what is left of a window when the parse gives up is less than `CARRY_CAP`,
  in each of the places where it can give up.
- `CallsNest`: frames, each begun at a byte of this window, no more than `MAX_DEPTH` of them.
- `HalfDelivered`: a suspended path is as long as the depth at which the parse stopped, re-entry
  never goes deeper than it, and a half-delivered field has taken no more than its payload in the
  unit in which it will go on. That unit depends on whether the field is read or skipped, so the way
  each level was entered has to be the way it is entered again. `RecursionBounded` rests on this
  for the frames that `Descend` pushes without a test.
- `SpansCount`: where `capCannotFire` switched the tests off, the budget covers what this window can
  add to any span that was carried into it, and a payload.

The second part of the module proves `ResumesWhereItWas` (`PathIsOpen`). What has to hold for it between the
steps of one parse is `Located`: the position in the message at which the parse stands, computed from
`fed` and the unparsed bytes, is that of the field it has before it; the frames are the sequences open
there and `elem` is the one before it (`Follows`); a level is skipped exactly when its sequence is not
live; the element bound in force is that of the sequence it was declared in (`Armed`, `Depths`); and a
field under way has been delivered up to that position (`Delivering`, `Between`). Each step moves the
position by what it consumes and the calls with it. The bytes of a message the parser has refused are
never looked at again, so `PInv` asks all of this only of a decode that goes on.

The third part proves `SpanUncut` (`SpanIgnoresCuts`). The counters are right where a field is measured
only because they are right everywhere between, in a way that the running calls are part of. `Counted`:
inside a top-level sequence `spanCarry + p - spanBase` is the distance from its first byte, which
`SpanSoFar` keeps over the end of a window. `Discounting`: what `spanSkipped` has, with what each running
call that skips will add when it returns (`Owed`, a sum over the stack, of the bytes since its `from`),
with what the field under way will (`Owing`), is what is to be discounted for the bytes so far
(`DiscountsAt`). Any byte consumed is owed once by each call that skips and once by the field itself when it is
skipped, and that is how often `TimesDeclined` counts it; a call that is suspended pays what it owes, and
owes nothing when it is entered again. `Skippers`: a call that skips has noted where it began, unless it is
the one of the top-level field, whose span nobody measures, and `spanSkip` is set wherever one does. Where
`Measuring` holds no call skips, so nothing is owed. For this, `Discounted` adds up the bytes of the fields
in front, each as often as it counts, by a recursive function over the fields (`Discounts`), and the sums
over the stack are functions too (`SumOf` in `DataInduction`).

The fourth part proves `DecodesAsOneBlock` (`ImplementsDecoder`): however the bytes are cut, each `feed()`
gives the verdict that all bytes so far would get in one piece, delivers the same payload to the same
sequences, and counts the same skips. The abstract decoder knows what was fed (`fed`), its answer and its
values; a step of `IStream` is its `Feed` of the bytes that came since it answered last, its `Reset`, or
changes nothing it speaks of (`StepDecodes`). That comes down to what is true when a `feed()` returns
(`Answered`), for which two things have to be true at every step:

- `VInv`. `Cut`: what is left of the bytes when the parse gives up is less than what it waits for, the
  header of the next field or a unit of the one under way, so no rule that needs more bytes can have shown.
  `Passed`: each of the eleven rules (`FieldStream!Rules`) has been asked of each field in front and did
  not apply, and of the field under way so many of them as its place in the parser says, seven where it is
  delivered, nine where its payload is read. The code asks them at eight places, of which some are passed
  over (in a skipped level, with the budget tests inert); that a rule that is not asked does not apply is
  what `Located`, `Counted` and `SpansCount` are needed for. `SkipsNoted`: the counter of skips is that of
  the fields whose header is behind the position. When the parse ends, the first rule that shows is one of
  the field it stands at, or none does: `GoodAnswer`, `RefusalRule`, `BadAnswer`.
- `GotSoFar`: what was delivered (`got`) is the payload up to the position of the parser (`PayloadTo`), each
  byte with the sequences it lies in. It is `Values` of the abstract machine, because what is behind the
  position is less than a unit (`HeldUpTo`), and nothing of a field behind the faulty one is held
  (`HeldNoMore`): `GoodValues`, `BadValues`.

The positions and open sequences of a message are recursive functions over its fields
(`FieldStream!Layout`), and so is what a receiver holds of the first n bytes (`FieldStream!Values`).
`FieldStreamProofs` shows that such functions exist and obey their equations,
that ends grow and add up, that the sequences open at a field nest, that its owner is the last of
them, that a live field lies in live ones, that the discounts add up, which rule of a field is the first
to apply (`Applies`, `Passes`, `ShownBy`), and where units end (`UnitEnds`). It uses the lemmas of `DataInduction`. The library's
induction theorems take an operator, which no installed prover can instantiate; stated about a *set*
of numbers, or about a function of steps, induction is an ordinary first-order lemma that can be cited,
and it follows from the well-foundedness of inclusion between finite sets.

The invariants of all four parts are kept by a `reset()` to *any* message (`AnyReset`), of which the one in
`IStream` is a special case. `reset()` leaves `pathId_` and `pathSkip_` as they are, so what lies in the path may be of a
message that is gone: `PathTyped`, that the path holds fields of this message, is true of `IStream` alone.
In general it is enough that the part that is entered again does (`PathKnown`), which `PInv` gives.

### The message that is decoded into

`ObjectDecoderProofs` extends the module of the decoder's proofs: each step of `ObjectDecoder` is a step of
the decoder (with a `reset()` that brings another message), so that `IInv` and `PInv` carry over, and what
is left is what the step does to `dst`. In addition to the decoder's assumptions there are two about the
program that uses it. `StorageAssumption`: each type is read into a storage that the overloads of `read`
accept, and a number is one unit. `SchemaAssumption`: all messages are of one schema, so that what is read at a place has one storage
and what collects there one set of bounds.

- `ObjectTyped` (`ObjectTypeOK`): whatever is delivered, in pieces, refused, or with the payload withheld,
  no length exceeds its buffer. The lemmas are about the operations on one leaf (`Overlaid`, `Resized`,
  `Readied`, `Filled`, `Published`): which of them lengthen the buffer, and that the length is set when it
  is long enough.
- `NothingOfEarlierMessages` (`NothingLeftOver`): the units in a leaf are of the messages in `Marks`, which
  for an `IStreamObject` is the current one alone. An argument about each write, that it takes units of
  the bytes just parsed, and about `ObjectReset`, that nothing else survives it.
- `CollectorsBounded` (`CollectorsWithinBounds`). A collector grows when an element is delivered, and what
  kept the element's index below the bounds is a test in `beginField`, which may be many feeds ago and in
  a part of the message that has been suspended since. `Accepted` keeps it: no live field that starts in
  front of the position in the message has an index past the bounds of the collector around it. The place
  an element is delivered to is computed from the open calls; that it is the place the schema means is
  `PInv` (`Around(k)` is what is open at field k). The bounds of *another* message's reading of the place
  hold too, by `SchemaAssumption`; without it, a container could be left full by a message that declares
  it larger.
- `ReusedResumesWhereItWas`: `PathIsOpen` for this specification.
- `MeansWhatItShould` (`ObjectExact`): for any storage, any cut of the bytes and any earlier content, every
  place holds between two feeds what the whole fields so far make of it. The meaning of n fields is a
  recursive function (`Meaning`), each field applied to what those before it made (`MeaningIs`); the code
  never computes it, it places, clears, grows and fills over several feeds. The two agree step by step
  (`Matches`), and that needs more than the places compared:
  - `Shaped`: only what collects has a length, and nothing shows in a collector past its length, so that a
    collector that is grown again over left-over elements begins them empty. Clearing, growing and putting
    keep it (`EmptiedShape`, `PutShape`). The schema is what makes it inductive: an earlier message put the
    same kind of value at the same place.
  - `Lodged`: the live sequences that are open have their places in the collectors around them. A decode
    that is suspended in a sequence and enters it again must find it, and must grow nothing.
  - of the field that is under way, that its element is seated and that the first units of the buffer are
    what arrived (`Holds`), also where the storage is resized to the payload at once, to what has arrived,
    or clipped. Every other place is what it was before the field.
- `RefusalTouchesItsOwn` (`RefusalKeepsFields`). Up to the refusal `Matches` holds with the field the parser
  stands at. That this is the field the refusal is for, as the abstract answer has it, is `RefusalRule` and
  `BadAnswer` of the decoder's proofs. What the step itself writes is the field's own place and what lies
  below it, and, when it is an element, the length of its collector (`TouchedOnly`), also where the refusal
  comes from the application's handler or from a payload that is withheld. `Untouched` says so of every state
  behind it.

The invariant is `DecoderInv` (of the decoder, with `Accepted`), `ObjectInv`, in which `Good` says of
`dst` that its leaves are `Made` of units of `Marks` and that they fit (`Fits`), and `MInv`: `Shaped`, with
`Matches` while nothing is refused and `Untouched` after that. The spans and verdicts of the decoder
(`SInv`, `VInv`) are carried along for the refusals.

### Only model-checked

- Liveness (`CallReturns`, `FeedReturns`): fairness and ENABLED are out of the prover's reach.

## Not modelled, and the plan

Not modelled: the formatting of headers; exceptions (every entry point is `noexcept`); allocation; the
tests, benchmarks and packaging. Of the decoder: a moved stream (nothing in the repository moves one;
an `IStreamObject` that is moved keeps a callback to the object it came from); a handler that reads a
field differently when it is resumed, which the documentation forbids; a read for which no bound is
given at all. Of the encoder: what a `serialize()` of the application does between its calls is
whatever `OStream` allows. Words of 32 bits, which differ from those of 64 in their width only, and
the narrowing of a number to the type it is read into.

Encoder and decoder are not composed. Each is shown to implement its own abstract machine for every
cut, `Encoder` over whole fields and `Decoder` over the bytes of a message; `Varint` joins the two where
they share a format, number by number.

Next: an encoder and a decoder joined over whole messages, by the layout of `FieldStream` and the frames of
`OStream`, so that what one writes the other is shown to deliver; and the default move of a decoder.
