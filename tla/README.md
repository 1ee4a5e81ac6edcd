# TLA+ models of tokpress

tokpress compresses byte records losslessly: it tokenizes a record, runs a
token-level LZ77 over the tokens, entropy-codes the result with rANS in one of
several modes, keeps the smallest candidate, and wraps it in a TOKZ stream.
There are two implementations of everything, Python (`src/tokpress`) and Rust
(`rust/`), that must agree byte for byte. These modules model that pipeline,
check it with TLC on small instances, and prove the parts that hold for every
size. Paths below are those of the repository.

## 1. The system

### Components, state, operations

| Component | Code | State it keeps | Operations | Model |
|---|---|---|---|---|
| Token-level LZ77 | `codec/token_lz.py`, `rust/lz.rs` | hash head, output list, cursor; the priming tokens in front of it | encode (prime, match, emit), decode (literal, flag group, copy, reject) | `TokenLZ` |
| rANS coder | `entropy/rans.py`, `rust/rans.rs` | 64-bit state, list of 16-bit words | encode_symbol, decode_symbol, each with a renormalisation loop | `Rans` |
| Frequency tables | `entropy/frequency.py`, `rust/stats.rs` | raw counts, freq, cum, slot table | normalize, finalize_cum_freq | `Normalize` |
| Context tables | `codec/encoder.py` (full rebuild), `rust/encode.rs` (incremental) | counts and totals per context, tables, stamps, generation | count a transition, begin a chunk | `FullRebuild`, `ContextTables` |
| Entropy modes | `codec/encoder.py`, `codec/decoder.py`, `rust/encode.rs`, `rust/decode.rs` | LZ events, tables per chunk, calls to the coder, escape list | encode and decode of RAW, SPARSE, SPLIT, ADAPTIVE, ADAPTIVE_SPLIT, PPM, PPM_SPLIT, DICT | `StaticMode`, `AdaptiveMode`, `PpmMode`, `DictMode`, `RawMode`, together in `Modes`; damaged bodies in `DamagedBody` |
| TOKZ container | `codec/encoder.py` (compress, _finish), `codec/decoder.py` (decompress, _check_trailer) | header, flag bits, body, trailers | choose a mode, write; check and read | `Container` |
| Trained dictionaries | `dictionary.py`, `rust/dict.rs` | priming tokens, order-0 and context tables, fingerprint | train, save, load | tables and fingerprint in `DictMode`, the priming buffer in `Priming`, save and load in `Files` |
| Bit stream | `bitstream/`, `rust/bitio.rs` | bytes, bit position | write and read bits, varints, symbol lists | bits in `RawMode`, bytes in `Wire`, symbol lists in `SymbolList` |
| Batch containers | `core.py` (TOKB, TOKBI) | record lengths, offsets, bodies | pack, unpack, iterate, random access | `Batch` |
| Python API | `core.py` (compress_each, decompress_each) | thread pool, lazily built codec and handles | map over records | `ParallelMap` |
| BPE trainer | `tokenizer/bpe_trainer.py`, `rust/train.rs` | words, pair counts, heap of stale entries | merge the best pair | `BpeTrainer` (Python), `BpeIncremental` (Rust) |
| Command line | `cli.py` | files | compress, decompress, pack, unpack, read, train-vocab, train-dict, fit | `Files`: what they leave on disk |
| Tokenizer adapter | `tokenizer/tiktoken_adapter.py` | vocabulary, its fingerprint | encode, decode, identity | the identity in `Container`; tiktoken is a library: its encoder is modelled on one piece in `BpeTrainer`, its byte-exact round trip is assumed |
| Benchmarks, scripts | `scripts/` | none | timing, float statistics | not modelled: measurement only |

### How they interact

`compress` calls the tokenizer, then `TokenLZMatch.encode` (twice if there is a
dictionary: plain, and primed by its tokens), then every candidate mode. A mode
builds its tables with `normalize` and hands `encode_symbol` one symbol at a
time, backwards, each under a table of its choice; the decoder runs forwards
and must present at each `decode_symbol` the very table the encoder used. The
container writes the winner behind a header and appends a vocabulary stamp and
a crc32 as flag bits say. Batches and the command line sit on top of the single
stream. Everything is sequential and called directly, with one exception: the
`*_each` functions map over a thread pool.

### What is hard here

- **Two sides in step.** The adaptive modes transmit no literal table: the
  decoder recounts what it has decoded. One literal counted early, one context
  eligible a transition too soon, one call in the wrong order, and every later
  symbol is garbage, usually without an error. The code does it six times,
  twice per language.
- **Reversal.** The coder is last in, first out; escape lists and table
  snapshots have an order of their own, different from mode to mode.
- **Boundaries.** The single-symbol table (frequency 65536 in 16 bits),
  alphabets larger than a table, overlapping copies, windows and distances of
  two bytes, matches just long enough to gain something.
- **Two implementations.** The Rust core rebuilds context tables incrementally
  with a generation stamp, Python from scratch; they must agree.
- **Damaged or mismatched streams.** Which checks see which damage, in which
  order, and what slips through.
- **Loops that must end.** The round-robin drift correction; decoders of
  damaged input; the readers' copies of the varint loop.
- **Formats told apart by one byte.** TOKB, TOKBI and TOKZ share a prefix; a
  reader picks the format by it.
- **Shared state under threads.** The pool's threads share values that are
  built lazily and without a lock, finish in any order, and one of them may
  raise while others run.
- **Files written in place.** A command that crashes leaves half a file under
  its final name; `fit` writes two files that belong together; `unpack`
  writes while it decodes.
- **An incremental algorithm with stale entries.** The Rust trainer counts
  down, indexes words and pops from a heap whose entries may be out of date.

`PROJECT.json` lists these as hazards at the line where each bites, with the
properties that cover it.

## 2. Modules

```
 InOrderDelivery  <-- TokenLZ, ParallelMap, and each mode (in Modes)
 EntropyStack     <-- Rans
 FullRebuild      <-- ContextTables
 BpeTrainer       <-- BpeIncremental
 Coder            used by StaticMode, AdaptiveMode, PpmMode, DictMode
 Wire             used by Batch and SymbolList
 Modes            one record through any of the five mode modules
 MCFit            BpeIncremental and Priming, what cmd_fit trains
 MCDamaged        DamagedBody and SymbolList, what is read before a table is used
 Normalize, Container, Files     on their own
```

(`A <-- B`: B is shown to implement A under a refinement mapping.)

The layers are composed by what each promises the next. `Normalize` shows that
a finished table tiles `[0, RANS_M)` and names exactly the counted symbols
(`Tiles`, `Represented`), which is the assumption `Rans` makes of its tables.
`Rans` is a stack (`EntropyStack`): a pop returns the symbol pushed, *if* it
presents the table of the push. The modes use the coder as that stack, and
their `InSync` is that *if*; a pop under another table gives, in their models,
any symbol of that table (`Popped` in `Coder`), so a slip shows. `Coder`'s
constant `Freq` stands for `normalize`; `Normalizes` in `Modes` is what of `Normalize`
the modes rest on. `ContextTables` shows that the
incremental tables of the Rust core equal the full rebuild of the reference,
so `PpmMode` rebuilds in full. The modes take any list of LZ tokens, whether
an LZ encoder would produce it or not, so `TokenLZ` and they compose. The
container sees a mode's output as one value, the body. The bound on the LZ
count that the decoder checks is an assumption of `Container`, for which
`TokenLZ`'s `ExpansionBound` is the reason. `Batch` takes a TOKZ stream as
what `Container` makes of it: something that decodes to its record whatever
follows it, or is refused. `Files` takes archives, vocabularies and
dictionaries as values and asks which of them a command finds, and which it
leaves.

### State and actions against the code

**InOrderDelivery** (abstract): a source sequence comes out unchanged, in
order, each item once, and in the end all of it.

**TokenLZ**. `phase` goes `prime`, `encode`, `decode`, `copy`, `done` (or
`error`). One action per loop turn: `PrimeHead` is the priming loop,
`EmitMatch`, `EmitFlag` and `EmitLiteral` are the three branches of the encode
loop (each with the update of `head` that precedes them), `BeginDecode` the
hand-over, and `DecodeLiteral`, `DecodeFlag`, `DecodeMatch`, `CopyToken`,
`EndCopy`, `RejectGroup`, `EndDecode` the decoder, the copy token by token
because it reads what it writes. `i`, `head`, `lz`, `j`, `output` are the
code's. `BeginDecodeDamaged` cuts the list of a `Damageable` input short or
changes one of its tokens.

**Rans**. `BeginEncode`, `EmitWord`, `EndEncode` are `encode_symbol`'s entry,
its `while`, and its update; `DecodeSymbol`, `ReadWord`, `EndDecode` those of
`decode_symbol`. `state` is masked to `Width`; `words` is the word list. `log`
is history: what was pushed, with the coder's state before it.

**Normalize**. One action per turn of the scaling loop, of the drift loop and
of the layout: `ScaleOne`, `FixupTurn`, `LayoutOne`, with `Reject` for more
symbols than slots. `cursor` is the round-robin position.

**FullRebuild**, **ContextTables**. `Count` is one turn of the counting loop
(with `mark` in Rust), `BeginChunk` / `advance` the chunk boundary; `stamp`,
`generation`, `dirty` are the fields of `struct ContextTables`.

**Coder**. Helpers of the modes: tallies, the capped alphabet (most frequent,
lower id first), the transmission of a table as `freq - 1`, the split of LZ
tokens into events, and the stack.

**StaticMode** (SPARSE, SPLIT), **AdaptiveMode** (ADAPTIVE, ADAPTIVE_SPLIT),
**PpmMode** (PPM, PPM_SPLIT). The variable `split` says which of the two. The
phases are the code's passes: count or collect the alphabet, snapshot the
tables chunk by chunk (forward), encode (backward, one event per action), then
decode, where an action is one `decode_symbol` call: role, hi, lo, len,
literal; for PPM the context's table, then order 0, then the escape list. The
decoder's counts (`counts`, `recounted`) are separate variables from the
encoder's.

**Modes**. One record in one mode: `mode` says which, the mode modules share
the variables that play the same part (`stack`, `out`, `escape_pos`, `left`),
and what a mode does not use is the empty sequence.

**DictMode**. `ours` and `theirs` are dictionaries trained by `train`'s table
construction; the decoder compares fingerprints (`Accept`, `Reject`), then
takes the cascade from context to order 0 to the list of escapes.

**RawMode** (RAW over the bit stream). `WriteBits` is one `write_bits`,
`FlushAndFinish` the flush and the trailer; `ReadCount`, `ReadWidth`,
`ReadToken`, `ReadTrailer` are calls of `read_bits`, each with the refill it
does (`LoadsFor`), `align_to_byte` is the code's. `Truncated` is its
exception, `LoseEnd` the channel.

**DamagedBody**. `core` says whose code runs. `RefuseHeader` and `ReadHeader`
are the checks of the counts, of which Python has one and Rust four;
`BeginChunk` is the head of `while pos < num_lz_tokens`, `DecodeToken`,
`DecodeMatch`, `DecodeLiteral`, `DecodeLiteralOfChunk` a turn of the loop of the
mode. What a turn decodes is left open but for its number of tokens;
`RaiseInBody` is any error a damaged table, word or escape list may lead to.

**SymbolList**. `write_symbol_list` is an operator; the reader goes byte by
byte: `ReadContinued` and `ReadId` are the two ways a turn of `read_varint`
ends, `RejectLong`, `RejectId`, `NoByte`, `NoCount` the exceptions. `ReadInRust`
hands the same bytes to the other core; `reference` is what Python made of them.

**Container**. `CompressEmpty`, `CompressSmallest`, `CompressForced`,
`RefuseForced` are the ways through `compress`, `Finish` is `_finish` with the
trailers. `Damage` and `Arrive` are the channel: up to `MaxFaults` fields of
the stream (magic, version, a bit of the mode byte, size, count, body, a
trailer, or the end cut off) change. The decoder is one action per check, in the code's order:
header, empty record, count bound, body, stamp, crc32, length.

**Wire**, **Batch**. `Wire` has the byte forms of fixed fields and varints.
The writers are `compress_many`, `compress` and the two methods of
`IndexedBatchWriter` (`add`, `finish`); `ChangeByte` and `Cut` are the channel.
`Open...` and `Reject...` are the branches of `iter_decompress_many` in the
code's order (strict: those of `indexed_decompress`), `ReadLengthByte` one turn
of the varint loop in `_parse_batch_header`, `DecodeBlob` the one decode of a
TOKB, `YieldRecord` and `YieldIndexed` what the generator yields.
`indexed_read` and `batch_record_count` are operators.

**ParallelMap**. The caller's actions are `_map_parallel`: `RunHere` without a
pool; `Submit`, `Collect` (the results in order), `Fail` and `Cancel` (the
pool's generator cancels what has not begun), `EndMap`, `Join` (the `with`
block ends). A thread is `Take` and then `CheckCache`, `BuildCache`, `Code`:
the test of a lazily built value, the store after the build, the codec.

**BpeTrainer** (reference, `bpe_trainer.py`). `MergeBest` is one turn of
`_train_pieces`: recount, choose, merge everywhere. `mergeable_ranks`,
`validate_mergeable_ranks`, `encode_with_merge_sequence` are operators;
`_encode_bytes` is tiktoken on one piece. **BpeIncremental** (`bpe_merges` in
`rust/train.rs`). `MergeNext` is one round: pop to the first entry that is
current, merge its pair in the words the index lists, count down and up, push.

**Priming**. The four `_pick_*` functions of `dictionary.py`: `TakeSegment`
takes the next record or window, cuts the buffer at the budget, discounts.

**Files**. `disk` maps a path to what its content means. `Begin` chooses a
command and, from what it finds on disk, a plan: the files it will write, in
order, and how it ends; `OpenOutput` (which truncates) and `WriteOutput` carry
the plan out, `End` reports, `Crash` stops anywhere and may leave a part of
the file being written (`CutShort`: of a rank file any shorter chain, of a
dictionary one whose fingerprint is cut). Either core may run each command.
`FilesAssumption` names what is taken of the commands: what is compressed or
trained on is never an output of a command; an unpack has a name for every record
(the code makes one from the index, `cli.py:360`); the outputs of one command
differ; nothing is packed over the very vocabulary or dictionary it is packed
with. The vocabulary and dictionary files may be overwritten by any other.

## 3. Runs

| Run | Question | States |
|---|---|---|
| `lz` | Does every list come back through LZ, primed or not, with a colliding hash, in order, and within the size bound; does a decoder of a damaged list stay in bounds and return or raise? | 337,021 |
| `rans_stack` | Is the coder a stack, and does the decoder retrace the encoder's states? | 276,068 |
| `normalize` | Is a finished table exact and complete, and does the drift loop end? | 61,993 |
| `context_tables` | Are the incremental tables the reference's at each chunk? | 22,521 |
| `modes` | In each of the five kinds of mode, do encoder and decoder stay in step, and do the LZ tokens come back? | 507,198 |
| `damaged` | How far do both decoders run when any count of the header is damaged; does an alphabet come back, is a cut one refused, do the cores agree on a changed one? | 243,128 |
| `container` | Which streams come back, and what do stamp and crc32 guarantee under damage? | 1,640,978 |
| `container_integrity` | The README's statement on `integrity=True` (finding 1); violated | - |
| `batch` | What do the readers of TOKB, TOKBI and TOKZ yield of a whole, a changed, a cut stream? | 283,618 |
| `parallel` | Is the pool the loop, whatever is slow and whatever fails, and is the shared state safe? | 86,843 |
| `fit` | Does the incremental trainer make the reference's vocabulary, does tiktoken agree with it, and is the priming buffer complete? | 144,926 |
| `files` | What do the commands leave on disk, and what can be read of it, after errors and crashes? | 1,988,241 |

What the properties say:

- `TokenLZ`: `RoundTrip` (at every turn the output is a prefix of dictionary
  plus tokens), `HeadSound` (a head entry is an earlier position of that hash),
  `ExpansionBound` (without flag tokens, at most 4 LZ tokens for 3),
  `CopyInBounds`, `Terminates`, `DeliversTokens` (refinement of
  `InOrderDelivery`, with liveness: so no list of the encoder is ever refused,
  `OwnStreamAccepted`).
- `Rans`: `StateBound` (the interval `[RANS_L, RANS_L * Word)` the comment in
  `rans.py` argues), `Retraces` (the decoder goes back through the encoder's
  states and word counts, and ends at the initial ones), `IsStack`.
- `Normalize`: `Represented`, `Tiles`, `Terminates`.
- `ContextTables`: `StaleIsDirty`, `MatchesReference`.
- The modes (`Modes`): `CallsAccepted` (the coder only gets symbols with a
  frequency, under tables that fit), `InSync` (at each call the decoder
  presents the table of the encoder's call; at the end nothing is left, and the
  counts are equal; RAW: the trailer is read from its first byte, and a stream
  that lost its end is never read to the end), `DeliversTokens`.
- `DamagedBody`: `WorkBounded` (the decoded list stays within 4 tokens for each
  that the declared size admits), `Terminates`. `LiteralHasTable` (no literal
  meets the `None` a table begins as, nor a table older than a chunk) is proved.
- `SymbolList`: `ListSound`, which is `RoundTrip`, `CutCaught` and `CoresAgree`
  (the Rust core refuses what Python refuses, and both get the same list and
  place where its ids are in range).
- `Container`: `RoundTrip` (an undamaged stream, read with what wrote it, comes
  back; with a mode other than DICT the dictionary does not matter),
  `StampProtects`, `CorruptionCaught`.
- `Batch`: `RoundTrip` (through every reader, as long as the numbers fit their
  fields), `NothingInvented` (damage in front of the streams never yields a
  record that was not written, as long as the stream still goes to the reader of
  its format and no bytes inside it look like a stream of their own),
  `Isolated` (random access: damage costs only the records it touches),
  `ReadEnds`.
- `ParallelMap`: `MapDelivers` (refinement of `InOrderDelivery` with liveness,
  and the map returns or raises as the loop would), `Quiescent`,
  `SharedStateReady`.
- `MCFit`: `ImplementsReference` (the Rust trainer refines the Python one),
  `CountsCurrent`, `ValidChain`, `TiktokenAgrees`, and `BufferComplete`.
- `Files`: `NeverWrong` (a finished output is the record, whatever happened to
  the other files; but, without integrity, for a default-vocabulary stream read
  with a trained one, and for one whose dictionary is that of a smaller
  vocabulary), `FailureKeepsFiles`, `UnpackInOrder`, `ReadableAgain`.

`TypeOK` is checked in `modes` (and proved for DICT); for `TokenLZ`, `Rans`, `Normalize`,
`ContextTables`, `ParallelMap`, `DamagedBody`, `Container` and `Files` it is a part of what is
proved.
Every property of a passing run has a mutant: a definition of the module (its name has a suffix, as
in `EndFixup_KeepsExcess`) that has a plausible bug and makes TLC report the
property violated.

### Bounds, and why they are enough

- **LZ.** Three distinct token values, the flag among them, up to 7 tokens (damaged: two,
  up to 6); base 5 for a
  distance instead of 256, window 7, matches of 3 or 4. Both digits of a
  distance are used, a match reaches the cap, overlaps itself, starts in the
  dictionary and crosses into the record, and falls out of the window. The
  hash, sum modulo 3, collides for different pairs.
- **rANS.** Tables of total 8, words in base 8, five symbols per stream, tables
  with one symbol (frequency 8), with symbols of frequency 1, with a gap. The
  mask has no room to spare, so any excursion of the state wraps. Renormalising
  pushes and pops zero, one and two words.
- **Normalize.** Five symbols and four slots, counts from 0 to 30, totals
  equal to the sum and above it (the PPM-split mode changes a count and keeps
  the total). Drift of both signs, several rounds, one symbol alone, as many
  symbols as slots and one more.
- **Context tables.** Two contexts, two successors, four chunks, four
  transitions each, a support of two: a context is dirty, untouched, or below
  the support at each boundary. The counter takes each of its values below
  the initial stamp; `ContextsAssumption` states that a record is too short for
  more (2^32 chunks).
- **Modes.** All lists of up to 4 items (PPM: 5), an item being a literal of 4
  values or a match; `RANS_M` is 3 so that the alphabet overflows the
  table and the escapes include two different ones; chunks of one or more
  literals, so that several boundaries fall into a list. `Freq` in `MCModes`
  changes with every symbol counted, so that a stale table is a
  different table. Dictionary: every training list of five tokens, in one
  sample or two, one context table at most, every record of up to three
  tokens; the decoder's dictionary is the same, one of the same counts and
  other contexts, or another one. RAW: lists of up to 5 tokens of 3 bits,
  bytes of 4 bits, a refill of two bytes, no trailer or two bytes: the body ends
  at every place within a byte, and the trailer is in the buffer or not.
- **Damaged body.** A declared size of 1 and a slack of 1, so 3 tokens at most;
  counts 0 to 4 and 14, on both sides of every bound: 14 events are more than
  the 12 tokens admitted even if all are literals.
- **Symbol lists.** 3 bits of id, 5 of a varint, 2 of them per byte, so that three
  bytes hold one bit too many, as ten bytes do of 64; up to 4 ids, one byte changed to
  every other value, or every cut; three tails.
- **Container.** Records of up to two bytes, two vocabularies (one the
  default), two dictionaries, sizes under which different candidates win,
  integrity on or off, no forced mode or one of five, up to two damaged fields. Two faults
  let one hide the other (a flag bit and the field it announces).
- **Batch.** Bytes of 2 bits, words of two bytes, varints of 1 bit per byte and
  at most 3 bytes; up to four records of three kinds, one of them empty; every
  byte changed to every other value, every cut. Four records of a TOKBI may or
  may not fit a word, and their number has a second digit (256 in the program),
  so that a TOKB whose `B` becomes `Z` may declare a size; the two digits of one
  length are the magic of a plain stream, so a wrong count may find one there.
  Both are cases that `NothingInvented` names, and without either exemption TLC
  finds it violated.
- **Parallel.** Up to 4 records, 3 threads, every set of records that fail,
  with a pool and without.
- **Fit.** Two byte values, every text of up to 6 bytes cut into pieces in
  every way, 4 merges, every text of up to 5 bytes to encode: runs, ties, pairs
  that overlap themselves, two merges that would make the same bytes. Priming:
  one or two records of up to 7 tokens of two kinds, budgets 4 and 9, windows
  of 3 and 4, d-mers of 2 and 4: the last window is shorter, or too short.
- **Files.** Three records, one empty; two corpora whose vocabularies differ in
  size, one archive path, one prefix for `fit`, 4 commands: train, compress,
  train again or crash, read.

Hashes (crc32, the fingerprints) are taken as injective: equal only for equal
arguments. A damaged hash matches nothing. A damaged *body* makes the decoder
raise or decodes to any record: the container's properties hold whatever that is. Token ids,
bytes and sizes are small numbers or model values; printing, logging and
wording of errors are left out.

### Fairness and deadlock

The modes, `TokenLZ`, `Normalize` and `MCDamaged` take `WF_vars(Next)`: each is one call of
a sequential function, which runs until it returns or raises. No fairness
is given to any choice inside. `Batch` takes `WF_vars(ReadNext)`: the caller
drains the generator; nobody need write. `ParallelMap` takes weak fairness of
the caller and of each worker thread: the operating system runs them all.
`Rans`, `ContextTables`, `Container`, `MCFit` and `Files` are checked for safety
only and take none. `CHECK_DEADLOCK FALSE` stands where the
call ends, or no command need be given; each cfg says so. `container_integrity`
refutes an invariant and needs no fairness.

## 4. Findings

1. **`integrity=True` does not detect all damage** (`container_integrity`).
   `decompress` returns `b""` at once if the declared size is 0 or the mode is
   `MODE_RAW_FALLBACK`, before the crc32 (`codec/decoder.py:99`,
   `rust/decode.rs`). One damaged header field is enough; so is the integrity
   bit itself. The docstring of `compress` and the README promise that any
   corruption is detected. What does hold is `CorruptionCaught`: with the bit
   intact, the result is the record, an error, or the empty record.
   A third way is what `NothingInvented` of `Batch` exempts: a TOKB of two
   records whose fourth magic byte becomes `Z` is read as a plain stream of the
   empty mode. (One of 256 records is read as one of mode RAW, and may decode to
   a record nobody wrote.)
2. **The escape slot of the PPM mode does not grow.** The
   docstring of `_encode_rans_ppm` says its mass grows with each fall-through;
   the code skips a dropped symbol before it counts anything. Both sides agree,
   so nothing breaks: it costs bits only.
3. **A dictionary cut inside its fingerprint loads** (`dictionary.py:529`). The
   Python core then writes a short stamp, reports success, and no dictionary
   decodes the stream; the Rust core refuses such a dictionary. `ReadableAgain`
   exempts it (`whole`).
4. **A dictionary with a table of one symbol cannot be saved**
   (`dictionary.py:495`): 65536 does not fit the 16 bits, `struct.error`, and a
   piece of a file stays. `FailureKeepsFiles` exempts it.
5. **A dictionary is not tied to its vocabulary on the encoding side**
   (`encoder.py:834`). With a larger vocabulary some ids are beyond the tables.
   The Python coder raises `IndexError` where the Rust coder lists an escape, and
   both take the id that is the dictionary's escape symbol for the escape,
   without listing it. The decoder then misses an escape or, where a context
   table stood, takes one symbol too many from the coder, which never fails: the
   crc32 would tell, and without it only the length. So wrong bytes of the right
   length may come back. `ReadableAgain` asks that dictionary and vocabulary
   belong together, `NeverWrong` exempts such a stream without integrity.
6. **`read` takes TOKBI only** (`core.py:315`), while the help text says that
   unpack and read accept all three formats.
7. **A chunk size of 0 never ends in Python.** `end =
   min(pos + 0, num_lz_tokens)` is `pos` (`decoder.py:166`, `204`), for ever; the
   Rust core refuses it. The comment at `decoder.py:106` says that no header
   can drive a loop of billions of rounds. `Terminates` is what holds: its exception is
   such a call.
8. **The Python core does not bound `num_events`.** In the
   split modes (`decoder.py:270`, `315`, `372`) it, not `num_lz_tokens`, drives
   the loop; Rust compares the two. `WorkBounded` is what holds,
   `WorkFollowsSize` without its exception is not.
9. **Python's varints hold 70 bits**, not the 64 that `docs/STATUS.md` and the
   error text name (`varint.py:27`): ten bytes pass. Rust drops the last six
   bits. `CoresAgree` compares lists whose ids are in range.

Findings 2 to 9 have no run of their own: the properties hold with the
exemptions named, and what is exempt is what the finding says.

## 5. Proofs

`tlapm` checks these for every value of the constants that the named
assumptions allow.

**TokenLZProofs** (assumptions `SizesAssumption`, `SymbolsAssumption` and
`HashAssumption` of `TokenLZ`; the code's window 65536,
base 256, minimum 3, cap 255 satisfy them).
`CopyStaysInBounds` needs only the types with `PhaseOK`: a copy starts inside
the output, and each turn appends before it reads the next. `IndexSound`:
`HeadSound` alone is not inductive, since the decoder's phases must leave the index
alone. `LZRoundTrip`: `RoundTrip` talks of the decoder, whose steps make sense
only if the encoder wrote sense. The strengthening has an encoder half (the LZ
list is a sequence of groups, each of which, at the position it stands for,
describes the tokens there: a literal, a flag, or a match whose source carries
the same tokens) and a decoder half (the decoder stands at a group boundary,
its output is the prefix up to that boundary, and a copy in progress agrees
with its source, which is what makes overlapping copies right). `LZAccepts`
(`OwnStreamAccepted`) follows: such a group is never refused. `LZExpansion` is an induction over the
encode loop of its own.

**RansProofs** (`RansAssumption`, `TablesAssumption`: tables that tile
`[0, RANS_M)`). `StateBound` and `Retraces` need that each entry of `log` was
pushed from the state the entry below left (`IInv`'s chain): then undoing the
update gives the state after the words were pushed (`UpdateInverse`), and the
words come back until the bound is met, exactly as many as went out
(`RenormFacts`). `Refines` maps `log` to the stack of `EntropyStack`, every
step to a push, a pop, the end of encoding, or a stutter.

**NormalizeProofs** (`NormalizeAssumption`). `KeepsSymbols`: after the scaling
loop a frequency is positive exactly for the counted symbols; the scaling loop
is done up to `n`, and the drift loop never lowers a frequency of 1.
`TableTiles`: that a table sums to `RANS_M` talks of a sum over the alphabet,
whose induction the provers cannot do. The invariant (`Sums`) does not mention a
sum: it says that *there is* a function of partial sums, each the one before it
plus the frequency of the next symbol, whose last value is `current_sum` in the
scaling loop and `RANS_M` less the drift in the fixup, and whose values are the
bounds of the intervals in the layout. A step extends it by one value
(`ExtendSums`) or moves the values behind the symbol it changes (`ShiftSums`).

**DecoderProofs** (`ContextsAssumption`, `DamagedAssumption`). The context
tables: `NoStaleTable` and `Refines`.
`ContextInv` relates stamps, generation and dirty list (a key carries the current
generation iff it is dirty; no stamp is ahead of it but the initial one), so
`mark` forgets no context, and `advance` rebuilds all that changed.
The damaged body, for any sizes and counts: `DecodeWorkBounded` and
`LiteralsHaveTables` talk of the list and of the table; the
strengthening says that whatever was decoded had passed the header's checks,
that no chunk ends beyond the last round and the list has at most four tokens
a round (`LoopInv`), and that the literals since the table was built have not
passed the boundary computed then (`TableInv`).

**ModesProofs** (`CoderAssumption`, `ModesAssumption`, `BytesAssumption`; any list of LZ
tokens, any alphabet, any chunk size, any training on either side). `InSync`
talks of one decoder step; what makes it true is that the *whole* stack is what
the encoder meant it to be. The argument has four layers.

1. *A stack of parts.* `Stacked(seq, parts, e, c)` says that a sequence is the
   parts (the calls of each event, or what each adds to the escape list) laid
   on it from the last to the first, with those up to `e`, and the topmost `c`
   calls of the next, off it or not on it yet. The encoder pushes a part
   (`PushPart`), the decoder takes a call (`PopEntry`) or passes a part that is
   empty (`PassPart`), and with all parts passed nothing is left (`AllPopped`).
   Heights of the parts are a function that is asserted to exist, so no sum is
   taken.
2. *Events and the decoder's place.* The positions of the events follow each
   other without a gap (`PositionsChain`). `At` gives the decoder's
   place, within an event and between the tokens already out, and so its
   next call.
3. *The tables.* An alphabet beyond `RANS_M` is capped so that it fits
   (`CappedFits`); what is in the stream as `freq - 1` comes out as it was
   (`ReceivedIsSent`); every call is one the coder accepts. A dictionary's
   tables keep a slot for the escape beside the most frequent symbols of any
   training (`TrainingFits`), so what was never seen has a call too.
4. *The invariants of the modes*, each with its steps: `StaticInv`,
   `AdaptiveInv`, `PpmInv`, `DictInv`. Both sides of the adaptive modes are tied to one function of the
   record: `CountsAfter(n)`, what the first `n` literals add to the initial
   counts, and `TableAt(n)`, its table. The encoder has snapshotted
   `TableAt` of every chunk's start, going forward; it
   encodes the literal after the first `n` under the table of `ChunkStart(n)`,
   going backward; the decoder, forward again, has recounted
   `CountsAfter(lit_pos)`, and holds the table of the chunk it is in. So one
   literal counted early or a boundary off by one breaks an equation. In the
   PPM modes `PpmCounts(n)` and `PpmTablesAt(n)` are the counts and tables of
   order 0 and of every context together. What a literal adds to the stack is
   then its cascade of one or two calls, `PpmCall(n)`, and the decoder may be
   within it (`More`): it has taken the context's escape and not yet the call
   under order 0. That the context it knows is the encoder's is part of the
   invariant (`pv = ContextAt(n + 1)`), for a literal, a dropped one (an index in
   the split mode, a token in the other) and the first, which has none.

What the tables are is left open. The theorems on the static, the adaptive and
the PPM modes have the hypothesis `NormalizeKeeps`: `Freq` is a table of at most
`RANS_M` to a symbol in which just the counted symbols have a slot. That is what `TypeCorrect` and
`KeepsSymbols` of `NormalizeProofs` prove of `normalize`, and `MCNormalizes` has TLC
evaluate it for the `Freq` of the `modes` run. That the dictionary mode stays in
step needs none of it; that its calls are accepted needs it and `SharesKeepOne`:
the escape's share is at least 1, which is the `max(1, round(...))` of
`_build_table`.
`ModesInSync`, `ModesAccepted`, `ModesLossless` (a finished decode has delivered
the tokens) and `DictTheorem` follow. Induction over the positions, over the ranks in a set
and over a prefix goes through `NatInd`, which needs no library theorem with
an operator parameter: a set that misses a number would have a map into
itself that the pigeonhole theorem forbids.

**ParallelMapProofs** (`MapAssumption`; any number of records and threads, any
set of failures). `IInv` ties the futures to the threads: a thread has a record
exactly while its future runs and no two have the same, "done" and "failed"
tell the truth, the results are those of the first records, and a map that has
ended has all of them or stands before a failed one. `SharedReady` and
`MapQuiescent` follow from it; `DeliversInOrder` is the safety half of
`MapDelivers`: a `Collect` is a `Deliver` of the abstract specification, every
other step a stutter. That there is a first failing record is taken from the
well-foundedness of strict inclusion of finite sets.

**ContainerProofs** (`ContainerAssumption`; any records, vocabularies and
dictionaries, any number of damaged fields). None of the three properties is
inductive: they talk of what the decoder ends with. `IInv` says what the encoder
wrote (`Chosen`, `Intact`: while no field is damaged, each field a decoder
depends on is the function of the input that `_finish` makes it; the mode byte
gives its mode and flags back, `ByteRead`), what damage cannot do (`NoForgery`:
in a trailer there is only what the encoder put there, or garbage; the
fingerprint and the crc32 are taken as injective), what the checks behind the
decoder have established (`Passed`) and that a decoder given what it needs has
not raised (`Delivered`). `RoundTripTheorem`, `StampTheorem` and
`CorruptionTheorem` follow from it, one lemma for each group of steps.

**FilesProofs** (`FilesAssumption`; any commands, files and records, and any
number of commands). The properties talk of commands that have ended; `IInv` says
how far one has come. `Complete` and `Good` say, of the disk a command began on,
how many outputs are all of them and what may be in each; `Left(k, contents)`,
that the first `k` outputs are good, the next is one of `contents` (torn while it
is open) and all other files are untouched; `Running`, that what it has still to
write is good too and makes it complete; `Crashed`, what is left of that.
`PlansSound` has the work: whatever is on the disk, what a command plans is
good and complete. That there is a first record that raises (`FirstRaise`) is
taken from the well-foundedness of `<` on `Nat`. `NeverWrongTheorem`,
`FailureTheorem`, `UnpackTheorem` and `ReadableTheorem` follow.

Only model-checked: everything under fairness; of the modes, all of RAW, and the
types of the modes other than DICT; `batch`, `ListSound` and `fit`. `ENABLED`, and what a
recursive definition computes (the folds of `Batch`, and of the trainers over a
corpus), are out of the prover's reach.

## 6. Plan

Order was by importance; all of it is done.

| | Module | What | Status |
|---|---|---|---|
| A | `EntropyStack`, `Rans` | the coder, proved to be a stack | done |
| B | `InOrderDelivery`, `TokenLZ` | LZ, proved to round-trip | done |
| C | `Normalize` | tables; proved to tile and to name the counted symbols | done |
| D | `FullRebuild`, `ContextTables` | Rust tables refine Python's, proved | done |
| E | `Coder`, `StaticMode`, `AdaptiveMode`, `PpmMode`, `DictMode`, `Modes` | the modes, checked; all but raw proved | done |
| F | `Container` | a TOKZ stream under damage and mismatch, proved | done |
| G | `Wire`, `Batch` | TOKB and TOKBI under damage, checked | done |
| H | `RawMode` | bit packing and the RAW mode, checked | done |
| I | `Priming` | selection of priming tokens, checked | done |
| J | `BpeTrainer`, `BpeIncremental` | the incremental trainer refines the recount, checked | done |
| K | `ParallelMap` | the thread pool and the lazily built values; safety proved | done |
| L | `Files` | what the commands leave on disk, with crashes, proved | done |
| M | `DamagedBody` | both decoders under damaged counts; bounds proved | done |
| N | `SymbolList` | alphabets on the wire, read by both cores, checked | done |

The properties of `Batch`, `SymbolList` and the trainers rest on sums over all
records or on folds over a corpus and stay with TLC.

### Not modelled

- Which symbols a damaged body decodes to: any, in `DamagedBody`. Nothing checks
  that the coder ends in its initial state or that all words are used
  (`rans.py:48`); what then protects the result are the crc32 and the length,
  in `Container`.
- tiktoken, an external library, beyond its encoder on one piece; the regular
  expression that cuts a text into pieces. `sample_corpus` may cut a UTF-8
  character in two, and the corpus is then one piece: a case of `Corpora`.
- Floating-point statistics and benchmarks, `dict-info`, `tokenize-stats`, the
  parsing of arguments, printing.
- `batch_record_count` of a TOKB cut inside its header (the code reads a
  shorter number), and offsets beyond 4 GiB except through the smaller word of
  `Batch`.
