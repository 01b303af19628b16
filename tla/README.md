# Verification of clp-ffi-go

TLA+ models, model-checking runs and machine-checked proofs for clp-ffi-go, the
Go packages that read and write CLP IR streams through the C++ core library of
CLP. Line numbers refer to the sources under `src/`.

## 1. Inventory

| Part | Source | State it keeps | Operations |
|---|---|---|---|
| Reader | `ir/reader.go` | `buf`, `start`, `end`, an io.Reader, a Deserializer | `NewReaderSize`, `Read`, `ReadToFunc` (and `ReadToEpochTime`, `ReadToContains`, `ReadToPrefix`, `ReadToSuffix` on top of it), `ReadToWildcardMatch`, `ReadToWildcardMatchWithTimeInterval`, `Close`; inside: `fillBuf`, `read` |
| Deserializer | `ir/deserializer.go`, `cpp/src/ffi_go/ir/deserializer.cpp` | Go handle (`cptr`, `prevTimestamp`), native `m_timestamp` and `m_log_event` | `DeserializePreamble`, `DeserializeLogEvent`, `DeserializeWildcardMatchWithTimeInterval`, `Close` |
| Writer | `ir/writer.go` | `buf` (a `bytes.Buffer`), an embedded Serializer | `NewWriterSize`, `Write`, `WriteTo`, `CloseTo`, `Close`, `Reset`, `Bytes`, and the promoted `SerializeLogEvent` |
| Serializer | `ir/serializer.go`, `cpp/src/ffi_go/ir/serializer.cpp` | Go handle (`cptr`, `prevTimestamp`), native `m_logtype`, `m_ir_buf` | two constructors, `SerializeLogEvent`, `Close` |
| Encoder, Decoder | `ir/encoder.go`, `ir/decoder.go`, `encoder.cpp`, `decoder.cpp`, `ir/cgo_defs.go` | native message (logtype, variables, dictionary variables and end offsets), native string | constructors, `EncodeLogMessage`, `DecodeLogMessage`, `Close` |
| Wildcard queries | `search/wildcard_query.go`, `search/wildcard_query.cpp` | none | `NewWildcardQuery`, `MergeWildcardQueries` |
| Types, errors | `ffi/ffi.go`, `ir/ir.go`, `ir/irerror.go` | none | lifetimes of views (by documentation) |
| CLP core library | not in the repository (submodule) | none | decoding and encoding of one item |

**Interaction.** A user calls methods of a Reader or a Writer. A Reader hands
the slice `buf[start:end]` through cgo to the native code, which decodes one
event from it (or, in a scan, events until one is wanted) and answers with a
position. On `IncompleteIr` the Reader asks its io.Reader for more bytes and
tries again. A Writer passes an event to the native code, which answers with a
view of its own buffer; the Writer copies it into its `bytes.Buffer`, from which
`WriteTo` drains it into an io.Writer. Nothing locks and nothing runs
concurrently inside the library. What is hard is sequential but long: the state
of one stream is spread over a Go buffer, a Go handle and a native object,
errors can come between any two steps, and the timestamps of four-byte IR are
differences, so that one step too many or too few shifts everything after it.

**What makes each part correct.**
- Reader: every event of the stream is handed out once, in order, whatever the
  sizes of the reads and the errors in between; a scan returns the first wanted
  event and an error only when it is true; the buffer grows enough and no more;
  every call returns.
- Deserializer: the timestamp is that of the stream; the handle is refused after
  Close; the native object always has an owner.
- Writer and Serializer: the bytes drained, and later read back, are the events
  accepted; a failed write leaves no trace; nothing follows the end tag.
- Encoder and Decoder: decoding what was encoded gives the message, on every use
  of the same object.
- Queries: the native side cuts the merged string where Go joined it.
- Views: valid as long as the documentation says.

`PROJECT.json` lists each hazard at its line, with the property that covers it.

## 2. Plan

1. *(done)* `IrFormat`, `Deserializer`, `Reader`: the reading side, where most of
   the state and all the error paths are. `ReaderProofs`, `ReaderEventsProofs`,
   `ReaderLimitsProofs`.
2. *(done)* `Serializer`, `Writer`: the writing side. `EventLog` is what both
   sides promise together, `IrPipe` composes them and implements it. `WriterProofs`,
   `IrPipeProofs`.
3. *(done)* `Encoder`, `Decoder`, `Codec`: the reuse of the native message, the
   fields of `newLogMessageView`, Close. `CodecProofs`.
4. *(done)* `WildcardQuery`, `WildcardMatch`: cleaning, joining and cutting apart the
   queries of a scan, inside the runs of the Reader; the entry points of both
   encodings in the native Deserializer and Serializer. `WildcardQueryProofs`.
5. Views held by a user: not modelled (section 6).
6. What is only model-checked: end of section 5.

## 3. Modules

| Module | Models |
|---|---|
| `IrTypes` | The two encodings and `IrError`. |
| `IrFormat` | A stream as a sequence of items and what the decoder of the core library makes of a window of bytes; wrapping int64 time. Mostly external to the repository. |
| `Deserializer` | Handle and native object: result and effect of each of its operations. |
| `WildcardQuery` | `NewWildcardQuery` and `MergeWildcardQueries` in Go, the cutting apart and the choice of a query in C++. |
| `WildcardMatch` | The wildcard scan of a Deserializer, one turn of the native loop at a time. |
| `Reader` | `ir.Reader` with a Deserializer: construction, refill, reads, scans, Close. |
| `Serializer` | Handle and native object of the writing side. |
| `Writer` | `ir.Writer` with a Serializer, down to partial drains. |
| `EventLog` | Abstract specification: a log that is written, closed and read. |
| `IrPipe` | A Writer, an io.Writer and a reading side on one stream; implements `EventLog`. |
| `LogMessage` | `ir.LogMessage`, and what `newLogMessageView` makes of the native fields. |
| `Encoder` | Handle and native object; a call split into its beginning, one step per dictionary variable, and its return. |
| `Decoder` | Handle and native object. |
| `Codec` | A user with one Encoder and one Decoder, reused and closed in any order. |
| `MCReader`, `MCWriter`, `MCPipe`, `MCCodec` | Values for the constants of the runs. |
| `IrFormatProofs`, `WildcardQueryProofs`, `ReaderProofs`, `ReaderEventsProofs`, `ReaderLimitsProofs`, `WriterProofs`, `IrPipeProofs`, `CodecProofs` | Theorems. |

### How bytes are modelled
The byte at offset k of a stream is the number k. A slice holds the right bytes
when it holds the right numbers, a byte that never came from the stream (zeroed
memory) is 0, and a window decodes to item j exactly when it begins with all the
offsets of item j. Nothing about correctness is put into the buffer by
construction: if `fillBuf` copied the wrong range, the numbers would be wrong and
decoding would fail or find another item. A message is a model value, a query a
short string whose meaning (`Matches`) is a parameter, and a timestamp an integer of width `MaxTime`, whose
sums and differences wrap as int64 does in Go and in the compiled C++ (where
signed overflow is formally undefined).

### Reader
`pc` says where the running method is; between two calls it is `idle`.

| Action | Code |
|---|---|
| `FirstRead`, `TryPreamble` | `NewReaderSize`: one read, then the loop around `DeserializePreamble` |
| `Read`, `ReadToFunc`, `ReadToWildcardMatch`, `ReadToWildcardMatchWithTimeInterval` | a method is called |
| `TryRead` | one turn of the loop of `Read`, including the test of `ReadToFunc` |
| `EnterScan`, `ScanEvent` | the Go part of a scan, and one turn of the native loop |
| `FillBuf` | `fillBuf` and `read`: shift or double, then any number of bytes, or none, with or without an error |
| `Close` | `Close` |

The filter of `ReadToFunc` is a lower bound on the timestamp and a set of
messages, which covers the four `ReadTo...` methods built on it. `from` (where the
call began) and `wasted` (a scan decoded events and did not succeed) are history.
When the core fails inside an event it may already have overwritten the string
behind the last view, or not: both are possible steps.

Left out: the Go field `prevTimestamp` of `fourByteDeserializer`, which is set
once and read by no code outside a test; the texts of `TimestampInfo`.

`FirstWanted` compares the result of a scan with the list of queries the user
passed, while the native scan sees only what `SplitQueries` cuts out of the merged
string. So a query cut at the wrong place, or paired with the wrong case
sensitivity, is a wrong index, a missed event or a false `QueryNotFound`.

### Encoder and Decoder
An `Encoder` is created once and used for many messages, and its native vectors are
never cleared by the code: a call writes the logtype, then inserts the dictionary
variables of the message at the front of `m_dict_vars`, one after the other, and
appends their end offsets behind those of earlier calls. The core library
(`CoreEncode`, `CoreDecode`) is a parameter, and where the code relies on it without
saying how it behaves, the model leaves it open: whether a successful call clears the
vector of encoded variables or appends to it, and what a failing call has already
written. `NewLogMessageView` is what Go makes of the native fields. A view is decoded
only before the next call of its Encoder, that is while it is documented to be valid.

The header promises `dict_vars` as a "String containing all dictionary variables
concatenated together" and `dict_var_end_offsets` as an "Array of offsets into dict_vars
marking the end of a dictionary variable" (`encoder.h:45-48`). `DictVarsDocumented` is
this layout for the message of the call. It holds as long as no earlier call has
inserted dictionary variables (`FirstDictVarsDocumented`; the history variable `reused`
says when one has), and it is broken by the next message after that, which is a finding
(`codec_layout`).

### Writer and pipe
Each item serialised gets the next offsets, so the bytes a Writer emits are again
numbers, and `sink` and `wbuf` show what was lost, repeated or reordered. `items`
is what a reader of all bytes understands: for four-byte IR the timestamp
accumulated from the differences on the wire. Serialisation of an event may fail
(a message the core cannot encode) at any time. `Bytes` changes nothing, and a user
who handles the rest of a failed drain with `Bytes` and `Reset` makes the same step
as a drain that succeeds. `CloseTo` is one action because nothing can come between
its two halves.

In `IrPipe` the reading side decodes from `sink` with the operators of
`Deserializer`; the buffer of the Reader is left out there because it does not
show: `BufferTransparent`, checked by `reader_scan` and proved, says that each decode
of a Reader's window returns what a decode of all the bytes delivered would. Only the steps of a user who
discards nothing are taken (`Careful`); `Reset` and the promoted
`SerializeLogEvent` are covered by `writer_buffer`.

## 4. Runs

| Run | Question | Result |
|---|---|---|
| `reader_read` | Is every event delivered once, in order, with its timestamp, for any sizes of reads and any errors? | holds |
| `reader_scan` | The same with scans mixed in, as far as timestamps can be trusted; is the first wanted event returned, and are errors true? How far does the buffer grow, does it show, and is it ever filled from behind the end of the IR? | holds |
| `reader_returns` | Does every call return, and does a user who keeps reading reach the end? | holds |
| `writer_buffer` | Does a Writer emit each byte once and in order, and does the stream mean what was written? | holds |
| `pipe_log` | Do both sides implement a log, and does everything arrive after Close? | holds |
| `codec_reuse` | Are the first dictionary variables of an Encoder laid out as `encoder.h` says, is a message without any recovered, does decoding depend on nothing but its input, is nothing used after Close? | holds |
| `reader_drift` | Is the timestamp right after any scan? | violated |
| `reader_truncated` | Does every call return on a truncated stream? | violated |
| `reader_zero` | Does the buffer grow from size 0? | violated |
| `reader_leak` | Can the native object always be freed? | violated |
| `codec_roundtrip` | Does decoding what was encoded give the message? | violated |
| `codec_layout` | Are the dictionary variables of a reused Encoder laid out as `encoder.h` says? | violated |

The violated ones are findings, each against a sentence of the documentation:

- **Timestamps drift** (`deserializer.cpp:209`). The native scan adds the difference of
  each event it decodes to `m_timestamp`; if it then answers `IncompleteIr`,
  `QueryNotFound` or `EndOfIr`, the Go side does not advance, and the same
  differences are added again by the next try. Four-byte IR only. `Trusted` in
  `Reader` is the weakest condition the model offers under which timestamps are
  exact: no scan has decoded events in vain.
- **A truncated stream hangs the caller** (`reader.go:219`): io.EOF is dropped even if no
  bytes came with it.
- **A buffer of size 0 never grows** (`reader.go:198`).
- **A refused preamble leaks** the native object (`deserializer.go:82-92`).
- **Dictionary variables overwrite the logtype** (`cgo_defs.go:89`): a view of a message
  that has one cannot be decoded to that message.
- **Dictionary variables of earlier messages stay** (`encoder.cpp:67-73`). The vectors of
  a reused Encoder are never cleared: the variables of a message are put in front of
  those of earlier messages, their end offsets behind the earlier ones. Encoding a
  message with the dictionary variable "ab" and then one with "c" returns the bytes
  "cab" and the offsets 2, 1: two variables instead of one, and the offsets do not cut
  them. It would remain if the finding before it were fixed.

One more limit of the code has no run. `ReadToWildcardMatch` promises to look at the
entire IR, but its interval is [0, max int64) (`reader.go:98`): an event before 1970, or
at the largest time, is skipped. The theorem `ReaderEntire` shows that these are
all it misses.

### Bounds
- Reader: streams of two to five items, one to four bytes each, with `MaxTime` 7. No
  timestamp of theirs comes near the ends of int64; differences that wrap are left to
  `writer_buffer`, `pipe_log` and the theorems, which hold for all streams.
  Items longer than the initial buffer (1 to 3 bytes) force shifting, several
  doublings and a refill at every byte of an item; timestamps out of order, equal
  to both ends of an interval, and negative; all metadata outcomes; corruption and
  truncation. What is left to larger instances is repetition of the same steps.
- Writer: `MaxItems` bounds the items produced (preamble, events and end tags),
  4 for `writer_buffer` with all timestamps of `MaxTime` 1 and events of one and
  two bytes, 5 for `pipe_log` with events at both ends of the time range, where
  differences wrap. A write leaves room for one end tag, so the bound does not
  keep a Writer open.
- Queries: no query at all, one, and a list of four with an empty query, the same
  letters with and without regard to their case, and two stars to be cleaned.
- Codec: three calls of the Encoder over four messages (text only; a variable that is
  an integer in both encodings; one that is an integer only in the eight-byte
  encoding; two dictionary variables around an integer), decoding of every
  well-formed `LogMessage` of these and of ones that lack a variable. Three calls are
  the shortest in which a message is encoded over the rest of two others.
  `codec_roundtrip` and `codec_layout` use only messages for which it does not matter
  how the core treats encoded variables.
- No symmetry is used. CHECK_DEADLOCK is off: a constructor that fails returns no
  object, a Writer at its bound stops.

### Fairness
- `Fairness` of Reader: a running call goes on (nothing else runs in its thread),
  and an io.Reader asked again and again while it has bytes delivers some, as its
  contract discourages returning 0 bytes without an error. Errors may still come
  any number of times. `ReadingSpec` adds a user who keeps calling Read.
- `FairPipe`: the user keeps calling `WriteTo` until the buffer is empty, with an
  io.Writer that takes something each time; the reading side keeps trying.

### Mutants
Operators whose name is that of no use in the models (each module's header lists
its own) are mutated forms: what a slip in that line would make of the code, such
as growing at half instead of beyond it, or storing the timestamp of a failed
write. Each property of a passing run is violated under one of them.

## 5. Proofs

All theorems hold for every value of the constants that satisfies the named
assumptions: any messages, any streams with consecutive non-empty items, any
buffer size, filters, queries and intervals.

`ReaderProofs`. The inductive invariant `Inv` consists of `TypeOK`, `WindowIsStream`,
`OnItemBoundary`, and two parts that make them inductive: `ScanInRange` (where the
native BufferReader of a running scan stands: within the window and at the boundary
of an item) and `Unconsumed` (what was delivered is at least what is buffered).
`DecodeSound` is the lemma everything rests on: if the window holds the stream's
bytes and starts at the boundary of item j, decoding finds item j + 1 or reports it
incomplete, and nothing else. One lemma per action then shows that the invariant is
kept. `ReaderTyped`, `ReaderWindow` and `ReaderAligned` follow.

`ReaderEventsProofs` proves what the calls return. It builds on `Inv` with three
inductive invariants:

- `EventsInv` adds `Phase` (which loop a call may be in), `Scanned` (what a scan has
  passed is events only), and `Exact`: as long as no scan was wasted, the running
  timestamp of a four-byte handle is that of the item at which the decoder stands,
  which may be ahead of `reader.start` in a scan. It gives `ReaderOrder` and
  `ReaderTimestamps`. Without scans nothing is ever wasted, so the timestamp is exact
  without a condition (`ReaderTimestampsOfReads`).
- `AnswersInv` adds `Passed` (nothing that a call has passed over is wanted) and
  `ScanFrom` (a scan consumes nothing until it succeeds). Passed holds across refills
  and retries because a retry begins where the call began. It gives
  `ReaderFirstWanted` and `ReaderHonest`. That the native scan looks for the queries
  the user passed is `SplitUndoesMerge` below.
- `FitsInv` adds `FillsForItem`: the buffer is filled only when it is empty or holds
  part of one item. It gives `ReaderBufferFits`, for a user who does not scan; a
  scan that finds nothing keeps everything in the buffer.

`ReaderLimitsProofs` proves what a Reader needs and what it leaves behind.

- `ReaderBufferBounded`: whatever is read or scanned for, the buffer stays at its
  initial size or below four times the bytes delivered. It doubles only when the
  window takes more than half of it, and the window is part of what was delivered.
- `ReaderRefillHasRoom`: a refill always has room for a byte. The hypothesis
  `InitialSize # 0` is needed: `reader_zero` shows what happens without it.
- `ReaderStopsAtEnd`: once the end tag, or an item that cannot be decoded, has been
  delivered in full, no call asks the io.Reader for more. `EndInv` adds `AtFront`
  (nothing is consumed before the preamble) and `EndAhead` (no such item has been
  consumed) to `EventsInv`; `NotYetDelivered` says that a decode which asks for more
  bytes at the boundary of an item has not got that item in full.
- `ReaderBufferTransparent` follows from `Inv`: the window and the bytes delivered
  agree at every offset (`SameBytes`), so they hold the same items.
- `ReaderLeaksOnlyOnMetadata` delimits the finding of `reader_leak`: a constructor that
  fails leaves a native object behind only if the metadata is refused.
- `ReaderEntire`: `ReadToWildcardMatch` passes over no matching event if all timestamps
  of the stream lie in [0, `MaxTime`).

`WildcardQueryProofs` shows `SplitUndoesMerge`: for every list of queries, what C++
cuts out of the merged string is what Go joined, with the case sensitivity of each.
The joined string is a fold, a recursive function on the natural numbers, and the
induction theorems of the library cannot be instantiated here; so the induction is
done by hand: `LeastElement` (a non-empty set of natural numbers has a least element,
from the well-foundedness of `<`) gives `Ascent` (a set that contains 0 and with each
number its successor contains all), and `JoiningGrows` and `JoiningKeeps` (joining on
keeps what was joined) are instances of it. `CutsWhereJoined` then finds each query
where it was put.

`IrFormatProofs` holds what both sides rest on. `Geometry`: items have at least one
byte and end at natural offsets. `DecodeSound`: a decode that returns an item found
all its bytes. `DecodeComplete` and
`DecodeIncomplete`: a window that begins with an item is not taken for corrupted, and
more bytes are asked for only while an item does not fit. `DifferenceAddsUp`: adding a wrapped int64 difference gives back the
minuend exactly, so four-byte IR loses nothing even when the difference of two
timestamps overflows.

`WriterProofs`. The inductive invariant `IInv` consists of `TypeOK`, `StreamMeansLog`,
`ClosedIsFinal`, and three parts that make them inductive:

- `Layout`: every item ends behind the one before it. It is needed to place the
  bytes of a new item behind all others.
- `Life`: before a Writer is open nothing exists; while the handle is open the
  native object is live, no end tag has been written, the stored timestamp of a
  four-byte Serializer is the one a reader has reached, and, unless a view was
  discarded, the items are the preamble and the accepted events.
- `Bytes`: sink and buffer together are rising offsets, and all of 1 .. Size when
  nothing was discarded. `BytesOnce`, which only counts them, is not inductive.

`BufferGrows` and `DrainKeeps` say what appending an item and a partial drain do to
these sequences, `EventProduced` and `TagProduced` what an item does to the stream;
then there is one lemma per action. The results are `WriterTyped`, `WriterBytesOnce`,
`WriterMeansLog` (on condition that nothing serialised was discarded) and `WriterClosed`. The bound `MaxItems` only stops the Writer: the
theorems hold for every value of it.

The theorems assume: the messages are not empty (`MessagesAssumption`), events carry
int64 timestamps (`EventsAssumption`), a serialised item has at least one byte
(`SizesAssumption`), and the streams a Reader is given are well formed
(`StreamsAssumption`).

`IrPipeProofs` shows that `IrPipe` implements `EventLog`. `PipeInv` is the Writer's
`IInv`, `Follows` (what was handed out is a prefix of what was accepted, and the end was
reported only after Close and after all of it) and `Stands` (the reading side is behind
the item of the last event handed out, and a four-byte handle at its timestamp). A
window at this place can only begin with the next item, because bytes are offsets
(`DecodesNext`); by
`StreamMeansLog` the item that comes next is the next event accepted or an end tag
(`ItemBehind`), and by `DifferenceAddsUp` its timestamp is the one accepted
(`ComputesTimestamp`). Each step of the Writer is then an `Accept`, a `Finish` or a
stutter of the log (`WriterSteps`), and each step of the reading side a `See`, a
`SeeEnd` or a stutter (`ReadKeepsPlace`).

`CodecProofs`. `Inv` says, besides types and `live` handles, that in the middle of a
call the dictionary variables inserted so far are the first bytes of `m_dict_vars`,
end where the last end offsets say, and the insertion point is behind them
(`HoldsOneMore` is the step of that induction, `InsertedFacts` and `CutFacts` what an
insertion and a cut do). `CodecNoUseAfterClose` follows, and so do two theorems about the
dictionary variables:

- `CodecFirstDocumented`: its invariant `NothingElse` adds that before the first call that
  inserts any the vectors are empty, and that in this call they hold what it has
  inserted and nothing behind it.
- `CodecRecoverable` delimits the finding of `codec_layout`. On reuse the vectors are not
  laid out as documented, but nothing of the newest message is lost in them
  (`NewestHeld`): its dictionary variables come first in `m_dict_vars`, cut by the last
  end offsets, and its other variables come last in `m_vars`.

For these three nothing is assumed about the core library except that the offsets it
returns lie within the message (`CoreEncodeAssumption`). Three more theorems concern
decoding:

- `CodecDecodesOnItsOwn`: its invariant `Answered` relates the last result of the
  Decoder to what it was asked, whatever its string held before. `GivenAssumption` and
  `DamagedAssumption` say which arguments of a user the core can and cannot decode.
- `CodecPlainRoundTrip`: its invariant `Clean` says that as long as no message
  encoded had a variable none is left in the Encoder (`NothingLeft`), and that after
  a message without dictionary variables the native fields are those of that message
  alone (`OnlyNewest`). `CoreInverseAssumption` says that `decode_message` undoes
  `encode_message` for such a message; TLC evaluates it for the core of the runs.
- `CodecTypes` has the hypothesis `CoreDecodeTyped`: the core decodes every
  `LogMessage` to a string of bytes, with or without success. It is a hypothesis, not
  an assumption, because it quantifies over the infinite set of all `LogMessage`s.

All safety invariants and action properties of the passing runs are proved. Only
model-checked are the liveness properties `CallReturns`, `ReachesEnd` and
`ClosedIsSeen`, because the prover has no support for fairness, and the counterexamples
of the runs that are violated.

## 6. Not modelled

- Encoding of messages and wildcard matching inside the core library: external; they
  are parameters of the models.
- Views held by a user of a Reader, Serializer, Encoder or Decoder. The code only
  documents how long they are valid (`ffi/ffi.go:8-12`, `ir/ir.go:47-50`); it does not
  track them, and whether a call moves the bytes behind one is decided by the
  allocator of the C++ library. The hazards list where a failing call overwrites one.
- Failures no property could tell apart: `Decode_Error` of the core, which the Go loops
  pass on like `CorruptedIr`, and a failing `try_get_pos` (`deserializer.cpp:109-112`,
  `226-229`), which cannot happen on a BufferReader that was constructed.
- The other conversions of `ir/cgo_defs.go` and the C headers: they hand over a pointer
  and a size. The contents of `TimestampInfo`.
- Running time of a scan that finds nothing: it starts over after each refill. No
  promise of the code bounds it; the memory it keeps is bounded by `BufferFitsStream`.
- Two goroutines on one object: the library has no locks and promises nothing.
- Build files and generated strings.
