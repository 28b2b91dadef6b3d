# A TLA+ development of Lumen-Core

Lumen-Core is the part of the Lumen lighting system that every device runs: a
wire protocol, a virtual machine that renders effects pixel by pixel, the
compiler that makes programs for it, and the arithmetic, crypto and output code
around them. Almost all of it is `no_std`, sans-IO Rust that is called by a node's
own loop. What is hard about it is therefore not threads and locks inside the
crates but what happens around them: datagrams that overtake one another, repeat
or disappear; senders that reboot under the same key; a machine whose registers
outlive the pixel, the frame and the program that wrote them; a compiler whose
register reuse must never be seen; and integer arithmetic that has to behave at
every edge because a flash on a wall is a bug.

This directory models that part in TLA+, checks it with TLC and proves, with TLAPS, the
receive path, the interpreter's control flow, the render shell, the MAC's input and the output stage. Every definition that stands for code is listed in
`PROJECT.json` under `map` with the lines it stands for.

To check a run: `tlc -workers 2 -config Interpreter.cfg MCInterpreter.tla`. To
check the proofs: `tlapm M.tla` for `ReplayFilterProofs`, `ReassemblyLemmas`,
`FragmentedStreamProofs`, `SecureLinkProofs`, `InterpreterProofs`, `RenderProofs`,
`MeshMacProofs` and `OutputStageProofs`; each takes a few minutes at most.

## 1. The system

| Part (source) | State | Operations | What makes it hard, and what makes it correct |
|---|---|---|---|
| Replay window (`lumen-proto/src/replay.rs`) | highest number, 64-bit bitmap, started | `check` | Reordering and repeats at any distance. No number is Fresh twice; the bitmap is exact; a merely late datagram is not lost. |
| Fragmentation (`reassembly.rs`) | iterator offset and sequence; buffer, next sequence, in progress | `fragment`, `Fragments::next`, `Reassembler::accept`, `reset`, `message` | Loss, repeats and reordering in the middle of a message, wrap of the number, a buffer that is too small. Only whole messages; on an ordered wire, all that fit. |
| Sealing and opening (`crypto.rs`, `header.rs`, `lib.rs`) | none in the crate; boot counter and sequence at the node | `Header::nonce`, `seal_in_place`, `open_in_place` | Reboots and several senders under one key. Nonces are unique; nothing of an earlier boot and nothing altered gets through. |
| Wire codec (`msg.rs`, `buf.rs`, `header.rs`, `lib.rs`, `audio.rs`) | reader and writer position | `encode`, `decode`, the iterators over counted lists | Two walks over one list, boundaries of lengths, peers of another version. Round trip; parts are refused; additions are ignored. |
| Program loading (`lumen-vm/src/program.rs`, `isa.rs`) | the image's pools, header and sections | `ProgramBuilder`, `Program::parse`, `validate_section`, `section_cost` | Offsets and indices of one byte or two; every slice checked before it is taken. What is built is what is read; parts and overwritten images are refused or harmless. |
| Interpreter (`vm.rs`) | pc, REPEAT and CALL stacks, spent and limit | `run_pixel`, `run_frame_at`, `run_once`, `set_budget` | One machine, many invocations, each may end anywhere. Stacks stay what the text says; every invocation ends. |
| Render shell (`vm.rs`, `lumen-capi/src/lib.rs`) | registers, history, `prev_written`, simulation state | `lumen_machine_init`, `lumen_frame`, `lumen_render_range`, `lumen_machine_clone`, `run_sim` | Two cores on clones, frames and faults in between, a new master for the simulation. A pixel depends on the program, the show time, the simulation's state and its own history only. |
| Effect language (`lumen-lang/src/resolve.rs`, `ast.rs`, `lib.rs`) | one table of names, names read | `compile`, `link_stdlib`, `resolve` | A let is hoisted to the section of its slowest safe rate. What the resolver lets pass, the emitter has when it comes to it, in an order of its own. |
| Code generator (`emit.rs`) | free registers, bindings, code under construction | `emit`, expressions, layers, `sim` bodies | Register reuse, patched skips, a second pass; loops unrolled over one copy of the state. The program shows what the effect means, and its simulation moves the elements as written. |
| Output stage (`output.rs`) | frame number | `Output::encode` | Brightness, supply and dither compose in integers. Fits the supply, keeps colours, averages right. |
| Fixed point, noise, palettes (`q16.rs`, `tables.rs`, `noise.rs`, `vm.rs`) | none | all of `Q16`, `noise1`..`noise3`, `palette_sample` | Saturation, tables and their seams, lattice cells below zero, the last palette entry. No jump where the argument makes none. |
| Mesh MAC (`lumen-crypto/src/mesh.rs`) | partial block | `BlockFeeder::feed`, `pad`, `auth_only_tag` | Blocks that span header and payload. Different datagrams give the MAC different input. |
| Signatures (`sign.rs`), digest (`digest.rs`) | none | | not modelled, see section 8 |
| Lexer, parser, formatter (`lex.rs`, `parse.rs`, `fmt.rs`, `lumen fmt`) | token position, block nesting, comments left | `parse`, `format` | Recovery from any mistake, one cursor for comments, brackets only where needed. Saving keeps the program and its comments; nothing is skipped in silence; the parser never stands still. |
| Diagnostics, conformance adapter, node glue, scripts | text | | not modelled, see section 8 |

How they interact. A sender's node calls `fragment`, seals each fragment with a
nonce made of its prefix, the sequence number and its boot counter, and sends it.
A receiver decodes the header, opens the payload, asks the replay window and then
the reassembler; the documentation prescribes that order, the node's loop makes
the calls. A complete message is decoded by the codec. Programs arrive as such
messages, or are compiled from an effect by `lumen-lang`, are validated once and
then interpreted: the once section on activation, the simulation once per frame on the
node that is master and its state sent to the others, the frame section each frame,
the pixel section for each LED, possibly on two cores with cloned machines. The
linear colours go through the output stage to device codes. There is no shared
state between these parts but what is passed by the caller.

## 2. Modules

```
AtMostOnce            the promise of a replay filter
ReplayWindow          replay.rs as operators
  ReplayFilter        one window fed every sequence number in any order
    ReplayFilterProofs
Reassembly            reassembly.rs as operators
  ReassemblyLemmas    what they return, for any message, chunk and buffer
  FragmentedStream    one sender, a network, one receiver
    FragmentedStreamProofs                        (with ReassemblyLemmas)
  SecureLink          senders, network, receiver: crypto + replay + reassembly
    SecureLinkProofs                              (with ReassemblyLemmas)
Payloads              msg.rs, buf.rs, audio.rs: layouts, reader, writer
  WireCodec           datagrams through a network of other versions
Bytecode              instructions, validate_section, section_cost
  Interpreter         execute(): pc, stacks, budget
    MCInterpreter
    InterpreterProofs   counting blocks, adding up costs, the stacks, the budget
  ProgramImage        program.rs: the builder, the image, parse   (with Payloads)
    WireFormats       datagrams and images through one network
      MCWireCodec
PixelMachine          the register file and the sections over symbolic values
  Render              frames, pixels, two cores, history
    MCRender
    RenderProofs
EffectLanguage        effects, rates, what an effect means
  Emit                the code generator for layers and expressions
    Simulations       the code generator for sim bodies, and what they mean
      CompiledEffects the generator's programs run by Render   (MCEffects)
Lexer                 lexemes, lines, comments
  Parser              one statement at a time, with its recovery
    Formatter         the tree back to text
    Resolver          names, types and rates of the tree; the names the emitter looks up
      EditorSession   a file that is edited, read, resolved and saved   (MCEditor; with Formatter)
FixedPoint            Q16 and its tables
  Noise               noise.rs, palette_sample
    FixedPointMachine accumulators and operands at every edge   (MCFixedPoint)
OutputStage           output.rs: brightness, supply, rounding, dither   (MCOutput)
  OutputStageProofs
MeshMac               mesh.rs: the block feeder and its tags
  MeshMacProofs
```

Operators come in modules without variables (`ReplayWindow`, `Reassembly`,
`Payloads`, `Bytecode`, `ProgramImage`, `PixelMachine`, `EffectLanguage`, `Emit`, `Simulations`, `Lexer`, `Parser`,
`Formatter`, `Resolver`, `FixedPoint`, `Noise`),
so that they can be composed: `SecureLink` uses the same `check` and `accept` the
small modules check alone, and `CompiledEffects` runs the generator's output on
the machine `Render` checks with hand-made programs.

A definition whose comment begins with "Mistake:" is not code: it is the change of
the definition after it that a plausible slip would make. `PROJECT.json` lists one
for each property; with it in place TLC refutes the property, so no property holds
for lack of anything to catch.

### Correspondence

* **ReplayFilter.** `window` is a `ReplayWindow`, its bitmap `seen` a set of bit
  positions. `Check(s)` is one call of `check`. `last` and `delivered` are history.
* **FragmentedStream.** `fragments` is the `Fragments` iterator, `SendFragment` one
  `next`; `reassembler` the `Reassembler`, `Accept` one `accept`. `network` is a
  sequence; its three ways of misbehaving are actions. `ordered`, chosen at the
  start, tells networks that keep order and lose nothing from all others.
* **SecureLink.** `wire` keeps every datagram ever sent, and the receiver may read
  any of them at any time and again: loss, repetition, delay and reordering without
  a bound. The AEAD is ideal: a tag is the record of what it was computed from.
  `Reboot` loses what is in RAM and increments the boot counter; `LearnBoot` gives
  the receiver a new window and resets the reassembler; `ReceiverRestart` loses the
  receiver's RAM. One reception is open, check, accept, as one step: they run
  within one call of the node.
* **WireCodec.** `Layout` is the table of the fields of all message types in the order the
  code reads them; `ReadField`, `FieldBytes` and the error they stop with follow
  `Reader` and `Writer`. Bytes are digits of base 32 instead of 256, which changes
  no branch. `Send` encodes, the network changes the bytes once, `Receive` decodes.
* **ProgramImage, WireFormats.** A builder is a script of the calls that make a program (`set_pool`, `palette`,
  `param`, sections); `BuildImage` writes the image, `ParseImage` reads it with the checks of `Program::parse` in
  their order. An image goes through the same network as a datagram. A digit is a byte: what the
  builder cuts with `as u8` is cut to one digit, lengths to two.
* **Interpreter.** One action for each arm of `step` that moves the program
  counter, the stacks or the budget, plus `FallOff`, `OutOfBudget`, `Invoke` and
  `SetBudget`. Arithmetic instructions are represented by those that can fault
  in each way. Register contents survive between invocations, as in the code.
* **Render.** A register holds a symbolic value (a term), so two programs or two
  histories give equal colours only if they compute the same thing. `Frame` is
  `lumen_frame` and the clone and split for two cores; `Pixel(c)` is one turn of
  `lumen_render_range`. `Shell` is `"Device"` for a shell that keeps history and
  runs the once section, `"CAbi"` for one that has only the C ABI's calls.
  `Frame` begins with the step of the simulation, if the program has one: the sim master runs `run_sim` on a
  machine of its own and broadcasts the elements, which are symbolic too.
  `Disciplined` is what the shell asks of a program, and `CompilerIsDisciplined` says that the compiler's are:
  a section reads the inputs it is given, what it has itself written on the way there, and what an earlier section left
  in a register that nothing writes later. An input register is none of those that once may hand on, as the shell
  writes it; the frame section runs to its end, as one that halts skips what pixels read; and a skip ends
  within its section, which the loader checks (`SkipsLand`, an assumption on `Programs`). Without any one of the three
  `RendersFromShowTime` is false.
* **Emit.** The emitter is a record `e` (code per section, next register, bindings);
  `Lower` and the operators round it return a new one with the value's place.
  `EffectMeaning` in `EffectLanguage` is the reference: it evaluates the effect
  without registers or sections.
* **Simulations.** `EmitSim` is the second half of `emit`, for the `sim` block: a loop is unrolled, an element
  is loaded into registers before the body and stored after it, a branch is a MASKTEST with one more over
  the `else` arm. `SimMeaning` is the reference: it works on the elements themselves. Whether a symbolic value counts as
  false is one fixed valuation (`IsZero`) for the machine and the reference.
* **Lexer, Parser, Formatter, EditorSession.** A text is a sequence of lexemes; the blanks
  between them are left out, but for the one after the `#` of a comment, and positions count
  lexemes. A statement is a table of steps (`ParamSteps`, `LayerSteps`...) in the order the
  code calls its helpers, so that `Need` is the code's `?`, `Want` its `expect`; the nodes
  of blocks that are open are the parser's `stack`, where the code has its call stack. A
  number is counted in steps of 10^-7, and after a save it must be the same in steps of 2^-16, as `to_q16` rounds it, a colour is the literal that was typed. `ReadDecl`,
  `ReadItem`, `SkipItem`, `CloseBlock` and the others are the branches of the parser's loops; `Type`,
  `Erase` and `Rewire` what a text editor and the node editor do to a file, `Save` is
  `lumen fmt --write`, which writes nothing if the file has an error.
* **Resolver.** `Declare`, `Withdraw`, `Check` and `Bind` work on the resolver's one table in the order
  of `resolve`; `Judge` is `check`, one operator for each arm, and gives type, rate and names read. `Linked` is
  `link_stdlib` with the library as the constant `Library`, `Compile` is `compile` as far as the emitter.
  `EmittedNames` goes where the emitter goes (lets that are read and hoisted, the other lets that are read, layer by
  layer the mask, the lets, the states, the colour and the opacity) and keeps of it only which names are in a register;
  registers and code are `Emit`'s.
* **OutputStage, FixedPoint, MeshMac.** The functions as in the source with their
  scale as constants: full scale 256 and 16 codes, words of 10 bits with 6
  fractional and tables of 8 steps, palettes of 4 stops, blocks of 2 bytes under a header of one and a
  half blocks. The hash of the noise lattice is a constant: any function will do. Nothing in the code depends on the true sizes except through
  these constants; the tables are what `scripts/gen-tables.py` would write for
  that size.

## 3. What is checked

| Run | Question | Result |
|---|---|---|
| `replay_filter` | any order of nine numbers, window of 3 | `BitmapExact`, `VerdictsTruthful`, refines `AtMostOnce` |
| `fragmented_stream` | three messages of 0, 2, 3 and 4 bytes, chunks 0 (raised to 1) and 2, buffer of 3, two datagrams in flight, numbers 14, 15, 0, 1... | `OnlyWholeMessages`, `HeldIsAPrefix`; on an ordered wire `EveryMessageArrives` |
| `secure_link` | two senders, two messages, one reboot, any number of receiver restarts, one damaged datagram | `NoncesUnique`, `OnlyWholeMessages`, `HandedUpAtMostOnce`, `NothingFromAnEarlierBoot`; on an ordered wire `EveryMessageArrives` |
| `interpreter` | every valid section of up to 3 instructions of all kinds, of up to 4 of control flow, and one that re-enters a block; every input; budgets 0, 5 and none | `StacksWellFormed`, `LoopFreeWithinCost`, `OpenBlocksFollowText`, `InvocationsEnd` |
| `wire_codec` | every message type at the limits of its fields, cut everywhere, reframed short, extended, overwritten everywhere; programs of every pool and opcode, cut and overwritten everywhere | `RoundTrip`, `PartsAreRefused`, `DecodedReencodes`, `ProgramsReadAsBuilt` |
| `compiled_effects` | every program of up to three pixel instructions with once and frame sections, over four hundred compiled effects with and without a simulation, two LEDs, two frames, every split | `RendersFromShowTime`, `FaultsCostOnlyTheRest`, `ShowsWhatTheEffectMeans`, `ElementsMoveAsWritten`, `CompilerIsDisciplined` |
| `front_end` | five files that hold every construct, two of which compile, each with any lexeme erased, one of twelve typed anywhere, or any expression replaced, then saved | `SavingKeepsTheProgram`, `SavingSettles`, `CommentsSurvive`, `NothingSkipped`, `ReadingAdvances`, `AcceptedNamesAreHeld` |
| `output_stage` | 27 frames, two brightnesses, four supplies or none, every phase, dithered or not | `WithinSupply`, `NoDimmerThanNeeded`, `HueHolds`, `DitherAverages` |
| `mesh_mac` | every pair of datagrams of up to three payload bytes | `SeamNeverShows`, `TagsTellDatagramsApart` |
| `fixed_point` | every word of ten bits an accumulator reaches, against 20 operands at the edges; noise and palettes along each of their arguments; 200 ticks of show time | `NothingFlashes`, `RootIsExact`, `CircleHasNoSeams`, `ShowTimeRuns` |
| `secure_link_wrap` | a boot whose numbers reach the end | **violates** `EveryMessageArrives`, see section 7 |
| `added_base` | an effect whose first layer adds, over the C ABI | **violates** `HalvesMatchTheWhole`, see section 7 |

Every state module but `EditorSession` has a `TypeOK`. Those of `ReplayFilter`, `FragmentedStream`, `SecureLink`,
`Interpreter`, `Render`, `MeshMac` and `OutputStage` are proved; the others hold too (add `INVARIANT TypeOK` to the
configuration) but say little, so no run lists them.

### Bounds, and why they are enough

* *Replay window.* The code's paths are: first call, advance by less than the
  width, by the width or more, behind by less than the width, by the width or more.
  A window of three and nine numbers takes each of them from every reachable bitmap,
  and the theorems of section 5 remove the bound.
* *Messages.* A message has to be empty, fit one datagram, fill its last datagram
  exactly, and exceed the buffer by one byte; lengths 0, 2, 3 and 4 with chunks 1
  and 2 and a buffer of 3 do all of these. Three messages let a fragment of the first
  meet the third. Starting at 14 of 16 puts the wrap in the middle. A number is
  not used twice within the run (`BoundsAssumption`): in the code that takes 2^32
  datagrams.
* *Link.* Two messages can be two of one sender, before and after its reboot, or one
  of each sender. `MaxMessages`, `MaxReboots` and `MaxDamaged` bound what is
  sent, `MaxLength` and `Chunk` its sizes; receptions and receiver restarts have no bound. No boot
  uses a number twice (`NumbersSufficeAssumption`), but its numbers may wrap.
* *Sections.* Four instructions hold two nested blocks or a block and a call; stacks
  of two are filled and overflowed. `SpentMax` (6) stands for `u32::MAX`: it is
  reached by saturation.
* *Codec.* Base 32 keeps a two-digit length field below 1024, and the samples put each
  variable field at zero, one, and the most its prefix can hold where that matters.
* *Images.* A byte that counts channels is full at 31 and wraps after it; pools with repeated entries, two palettes, all
  three sections, every opcode, and each check of `parse` failing on its own. What is beyond the format (a 33rd channel) is
  `WithinFormat`'s exception, and a row of section 7.
* *Rendering.* Staleness needs a writer and a later reader: two LEDs on one core, two
  frames. Two cores are two clones; a third would be another clone of the same base.
* *Programs compiled.* Each operator and built-in with operands that need no, one or two
  registers, so that every way of sharing registers between arguments, scratch and
  result occurs; chains of three lets so that registers die and are reused; two
  layers with and without mask, opacity, five blends and state.
* *Simulations.* One or two elements, up to three fields, branches with and without `else`, in one another and round
  a loop, and lets a loop adds to. With two elements the second visit meets the registers of the first.
* *Files.* One edit, then a save: what an edit does to the parser is local to the blocks that are open
  and the brackets that are, and each of the five files is edited at every place. They avoid what section 7 lists
  (a signed base of a field, a number that the seventh decimal rounds to another constant; one with seven decimals that are not missed is there), and what the formatter drops on purpose: what is at its default, all but the last of
  `version` lines or `return`s, and units of stops and points. Degrees stay small enough for 32-bit integers.
* *Names.* A name has to come from another layer, another layer's let, a mask, a state, a sim's body, a later or a slower
  let: the two files that compile have one of each, and every expression in them is replaced by each of these names.
* *Output.* Two LEDs so that the dither phase differs between them, values
  below 0, at 0, dim, half and above full scale; supplies that cover everything, must
  derate, are used up by the reserve, and are exceeded by the idle draw.
* *Fixed point.* Ten bits are few enough to take every word and enough for 4 bits of
  integer, 6 of fraction and 3 of table index with a sub-step beneath them. Operands
  are both ends of the range and both sides of the landmarks.

### Deadlock

Checked everywhere but where the modelled environment is finite and simply ends: a
stream or link after its last message (`fragmented_stream`, `secure_link`,
`secure_link_wrap`), a codec after its one datagram, a show after its last frame
(`compiled_effects`, `added_base`), an editor after its last save
(`front_end`), a MAC after its last datagram, and
an accumulator that has faulted (`fixed_point`). Those configurations say
`CHECK_DEADLOCK FALSE`. `replay_filter`, `interpreter` and `output_stage` never stop,
and TLC checks that they do not.

## 4. Fairness and liveness

* `FragmentedStream` and `SecureLink` assume weak fairness of `SendFragment` (a sender
  that began a message calls `next` until it returns None: the iterator is driven by
  a plain `for` loop) and of `ReceiveInOrder`/`ReceiveNext` (a node reads its socket
  again). Nothing is assumed of a network that loses or reorders, of reboots or of
  `LearnBoot`; `EveryMessageArrives` claims something only where `ordered` holds, in
  which no node restarts. There is no retransmission in this code, so nothing could be
  claimed elsewhere.
* `Interpreter` assumes weak fairness of the steps of a running invocation: `execute` is
  a loop in one call and does not wait for anything. Nothing obliges the shell to
  invoke again. `InvocationsEnd` rests on this alone.
* `EditorSession` states no fairness. That reading a file ends is the invariant `ReadingAdvances`: a bound on the
  number of statements read, which a parser that stands still exceeds.

## 5. What is proved

Each theorem is `Spec => []P` (or `Spec => P` for an action property) for every value of the constants
that the module's assumptions allow. The last column says whether a run checks the same definition on a small instance.

| Module | Theorem | States | Run |
|---|---|---|---|
| `ReplayFilterProofs` | `AtMostOnceDelivery`, `ExactBitmap`, `TruthfulVerdicts` | `DeliveredAtMostOnce`, `BitmapExact`, `VerdictsTruthful` | `replay_filter` |
| | `FilterImplementsAtMostOnce` | every behaviour of the filter is one of `AtMostOnce` | `replay_filter` |
| `FragmentedStreamProofs` | `WholeMessages`, `HeldPrefix` | `OnlyWholeMessages`, `HeldIsAPrefix` | `fragmented_stream` |
| `SecureLinkProofs` | `UniqueNonces`, `WholeMessages`, `PassedOnOnce`, `EarlierBootsSilent` | `NoncesUnique`, `OnlyWholeMessages`, `HandedUpAtMostOnce`, `NothingFromAnEarlierBoot` | `secure_link` |
| `InterpreterProofs` | `WellFormedStacks`, `BlocksAsWritten`, `LoopFreeCost` | `StacksWellFormed`, `OpenBlocksFollowText`, `LoopFreeWithinCost` | `interpreter` |
| | `BudgetsEnd` | `BudgetRunsOut`: every step of an invocation that goes on under a budget spends more of it and none passes it | |
| `RenderProofs` | `ShowTimeDecides`, `FaultsStayInTheirRange` | `RendersFromShowTime`, `FaultsCostOnlyTheRest` | `compiled_effects` |
| | `HalvesAgree` | `Disciplined => HalvesMatchTheWhole` | `added_base` refutes it for a program that is not disciplined |
| | `MastersAreAlike` | `AnyMasterWillDo` | |
| `MeshMacProofs` | `NoSeam`, `TagsTellApart` | `SeamNeverShows`, `TagsTellDatagramsApart` | `mesh_mac` |
| `OutputStageProofs` | `FitsSupply`, `BrightEnough`, `HueKept`, `DitherEven` | `WithinSupply`, `NoDimmerThanNeeded`, `HueHolds`, `DitherAverages` | `output_stage` |

Each module proves its inductive invariant as a theorem of its own (`FilterInvariant`, `StreamInvariant`,
`LinkInvariant`, `ControlInvariant`, `RenderInvariant`, `MacInvariant`, `OutInvariant`); type correctness is part of it or follows from it.

### The replay window

`DeliveredAtMostOnce` is not inductive: a second delivery is prevented by
the bitmap, and the bitmap only prevents it if each bit stands for the number it
claims to. `BitmapExact` says that, both ways: bit `i` is set if and only if
`highest - i` was accepted. The way back is what truthful verdicts need, since a
bit set for nothing would lose a datagram. The heart of the proof is
`CheckKeepsBitmapExact`: when the window moves by `n`, a bit at `i` of the new map is
the bit at `i - n` of the old one, which stands for the same number; the cases are the
bit of the new number itself, bits shifted in from outside (nothing accepted lies
there, because everything accepted is at most the old `highest`), and a shift of the
width or more, which empties the map. Truthfulness and the refinement then follow from
three lemmas, one for each verdict. Assumed: a positive width and a natural largest number.

### Fragmentation, without a replay window

What makes `OnlyWholeMessages` true over a network that loses, repeats and reorders is the sequence number alone,
and `StreamInv` is the statement of that. Every datagram in flight is genuine: a whole message, or
a piece of one with the flags of that piece. A fragment that is not the last says, by the number after its own, which piece
continues it (`OnlyContinuation`): no datagram in flight with that number belongs anywhere else, and the sender will not
send another one. `OnlyContinuation` has a clause for the future, without which it is not inductive: the number is not
ahead of the sender's, and if it is the number the sender uses next, the sender is in the middle of that very
message at that very byte. What is held is the beginning of a message with its only continuation (`HoldsBeginning`).
`AtWork` ties the numbers used to the messages begun, so that the assumption that no number is used twice can be spent.

Assumed (`BoundsAssumption`): `MaxMessages * (MaxLength + 1) < SequenceModulus`, that is, no number is used twice; in the
code it takes 2^32 datagrams. The first number is arbitrary, so the numbers may wrap within a message.

### The link

`LinkInv` says the same of the tags on the wire, since damage copies a tag and never makes one: every tag was sealed by
a sender, over one piece of one message, before whatever that sender seals next (`SealedBefore`); this gives unique nonces.
One tag completes a message. The number after a piece is the number of the piece after it, within one boot. For
the receiver: what is held is a beginning with its only continuation under the boot the receiver knows; what was passed on was completed by a
tag that is refused from now on, being of an earlier boot or refused by the window (`PassedOnByRefusedTag`).
That a refused number stays refused, whatever else the window is asked, is `RefusedForGood`, a lemma about
`ReplayWindow` alone. `HandedUpAtMostOnce` is then one completing tag per message plus its refusal. The
receiver's restart empties all of it, which is why the property speaks of one life.

Assumed (`LinkBoundsAssumption`, `NumbersSufficeAssumption`): finitely many senders, a positive window, and no boot that
seals more datagrams than there are numbers. The bounds on messages, reboots and damage are constants of any size.

### The interpreter

`StacksWellFormed` is inductive together with `TypeOK`, which contains that the program is valid: validation gives that
jumps, calls and skips land inside (`LoadedSection`), and each arm of `step` keeps the stacks. `OpenBlocksFollowText` needs
`BlockInv`: while a structured section runs, the number of open blocks is the number the text has open at `pc`, and each block on the
stack is as deep as the text says at its start, which is where ENDREP goes back to. Counting blocks across a position, and that
`skip_to_endrep` lands where as many are open as before, are lemmas about `Bytecode` alone. `LoopFreeWithinCost` needs `CostBound`:
what is spent is at most the cost of the instructions before `pc`, as a loop-free section only moves forward.

`BudgetRunsOut` is the safety half of `InvocationsEnd` for invocations under a budget: fairness only has to make the steps happen that it bounds.
Without a budget the counter stays at `SpentMax` once it is there, and the statement would be false; what ends an invocation then is
the text, which TLC checks.

Assumed: programs are sequences of instructions (`Init` loads one that `validate_section` accepts), every instruction
costs at least one, there are at least as many registers as inputs, and budgets are at most what the counter holds.

### The render shell

The properties compare what a machine with a past shows with what one without would, so the proof is about pairs of runs. `RunsTo`
unfolds a section into the states it passes through, one for each instruction. Two runs of one section from machines that agree on
the registers in `given` stay alike: same skip, same fault, same colours, same elements, and they agree on `given` and on all that is
`Written` before the instruction they have come to (`StageStep`, `SectionAlike`). The difficulty is `Written`, which says from the
text alone what must have been written: the induction says that of a register written at `j`, unless a skip is under way that
passes `j`, or has passed it and has not yet come to its end. A skip that ends beyond the section would break this, and none does.

`RenderInv` has three parts. `Ranges`: the cores' ranges are disjoint, and an LED not rendered yet has the history the frame began with, so
that a pixel is given the same history whichever core comes to it and when. `Ready`: each core's machine agrees with `Once`, a
machine that has only been activated, on what activation leaves for good, through any number of frames, also frames whose section faults; and,
while a range is under way, with `Framed`, that machine after this frame, on what the frame leaves for the pixels. The clone is made of
a machine that is `Ready`, which is how the second core gets it. `Shown` and `Progress`: an LED that is rendered shows what it would alone, and a core has rendered
all it has passed, or has met a pixel that would fault alone and rendered all before it. From these both properties follow; that `dt` does
not matter to a program that does not read it is one more pair of runs (`FrameAlike`). `HalvesAgree` is an induction
over the LEDs of the recursive function `WholeTo`: the one core's machine is `Ready` before each.

A program's simulation reads the time and what it has itself computed (`SimDisciplined`), so its step does the same on every machine
(`SimSteps`): a device that takes the mastership over needs the elements and nothing of the old master's registers (`AnyMasterWillDo`).

Assumed: loadable programs (`ProgramsAssumption`: what `validate_section` checks of skips), any strip, any times but zero. `OnceRuns`, a hypothesis
of the three theorems about pixels: the shell runs the once section, or no program has one. It is needed, as no call of the C ABI
runs it (section 7), and both of its halves are states of the runs: `Shell = "Device"` with any program, and the C ABI with programs
without a once section, which is all a compiled effect has if none of its `let`s is constant. A value counts as zero in one fixed way (`IsZero`), and instructions
other than those that fault, skip, emit or store build a term of what they read: the proof holds for all programs of them.

### The MAC's input

`MacInv` says that the bytes fed so far, followed by those still to be fed, are the datagram. "Fed so far" is a relation between the
feeder's state and a sequence of bytes (`Feeds`): the blocks given are the whole blocks of that sequence and the carry is its
rest. `FeedFeeds` is the heart: `AfterFeed` on a state fed `x` gives one fed `x` and then the slice, in each of its four ways
through the code. A finished tag is over the padded datagram and its length, from which the datagram can be read back
(`BlocksTellMessage`). The proof takes any block size, header length and payload.

### The output stage

The state says little, as a frame's codes depend only on the frame, the brightness, the supply and the frame number
(`OutInv`); what has to be proved is about the arithmetic. Each rounding down is bounded on both sides (`Quotients`), and the
chain of six roundings from light to current gives, for one channel, an upper and a lower bound of its draw by its price before derating
(`DrawBelowPrice`, `DrawAbovePrice`). Sums over the channels keep such bounds (`SumBound`). The factor was chosen so that the priced colour
times the factor fits what is left of the budget, by less than one step (`FactorFits`). `FrameBelowBudget` and
`FrameAboveBudget` put the three together; each loses what the property calls `PricingLoss`. `HueHolds` is two facts of one channel and
its neighbour: equal roundings keep the order (`Dimmed`, `CodesNear`), and two roundings of products cannot change a ratio by more than one code each
(`RatioBound`).

`SumOf` adds up in an order it does not say. `SumRuns` gives it a running sum over subsets, unique by the least number at which two
of them differ: the form induction takes here, in `InterpreterProofs` and `RenderProofs` too. By it a sum does not depend on the order either (`SumTakes`),
nor on what its places are called (`SumRenamed`).

`DitherAverages` is a fact about sixteen frames. The frame number wraps at a multiple of sixteen (`NumberWraps`), so an LED's
thresholds from any frame on are the sequence of `Reversed`, turned to some beginning (`ThresholdTurned`), and each comes once
(`EachThresholdOnce`): the sum of the codes is that of the codes by threshold. Each of those is the whole codes of the light and at most one more,
its carry (`RoundedByThreshold`). The thresholds are the odd multiples of half a step of `One / 16`, so the number that carry is the remainder in
steps, rounded to the nearest (`CarriesOfPeriod`): hence half a code, and not one. This is where starting half a step in matters.

Assumed: full scale and the largest code are positive, the period of the dither is 16 and twice it divides full scale, and channel current, idle current
and budget are natural numbers. The sums are unbounded integers: the code's saturate at 2^32 microamps,
more than four thousand amps.

## 6. What is only model-checked

`StreamInv`, `LinkInv` and the core of `RenderInv` were checked by TLC before they were proved, and so were `BudgetRunsOut` and `AnyMasterWillDo`; what section 5 gives a run for is also checked on the instances of
section 3. What remains with TLC, and why:

* *Liveness under fairness* (`EveryMessageArrives`, `InvocationsEnd`): out of the prover's reach.
* *Recursion over data.* `EffectLanguage`, `Emit`, `Simulations`, `Lexer`, `Parser`, `Formatter` and `Resolver` follow the
  recursion over expressions and text with RECURSIVE operators, so that the properties of the compiler and of
  `front_end` are TLC's: `ShowsWhatTheEffectMeans`, `ElementsMoveAsWritten`, `CompilerIsDisciplined` and all of `EditorSession`'s. The theorems
  of `RenderProofs` hold for any disciplined program; that the compiler makes no other is what TLC adds.
* *Numbers of one size.* `NothingFlashes`, `RootIsExact` and `CircleHasNoSeams` of `FixedPointMachine` are statements about
  tables with given entries; TLC evaluates them, a proof for all tables would have nothing to rest on.
* *Not attempted so far:* `ShowTimeRuns`, and the codec's `RoundTrip`, `PartsAreRefused` and `DecodedReencodes`, whose layouts are folded
  over, field by field.

Assumed and not checked: the AEAD and the one-time MAC are ideal; senders of a mesh have
different four-byte prefixes (`NoncesUnique` would not hold without it, and the crate
leaves choosing them to the node); a node increments its boot counter in storage before
it sends.

## 7. Disagreements between the code and its documentation

Two are shown by runs.

* **`secure_link_wrap`** - `ReplayWindow::check` compares numbers without wrapping
  (`replay.rs:69`) while reassembly wraps them and is tested for it
  (`reassembly.rs:365`, "a busy sender reaches the end of it. The arithmetic has to wrap
  with it"). A boot that reaches the end of its numbers is TooOld from then on.
* **`added_base`** - the accumulator is never cleared. A first layer with another
  blend than normal reads the pixel before it (`emit.rs:1147`), so two halves of a strip
  differ from the whole (`lumen-capi/src/lib.rs:243`, "the pixels of a frame are
  independent").

The following were met while modelling. The definition that states the documentation's
claim is in the module named; replacing the properties of the configuration by it, and
the constant where one is given, shows the violation.

| Claim | Code | To see it |
|---|---|---|
| `reassembly.rs:116` of `message()`: "Empty at any other time" | `reassembly.rs:119` returns what is held whatever the state | `FragmentedStream.cfg`, `MessageEmptyUnlessComplete` |
| `lumen-vm/src/lib.rs:33`: "no unbounded loops" | CALL may go backwards into a block (`vm.rs:753`) and the default limit is the value the counter saturates at | `Interpreter.cfg`, property `NoUnboundedLoops` |
| `program.rs:214`: checked "once at load so the interpreter never has to re-check any of it" | `vm.rs:740` does meet an empty stack: a MASKTEST may jump past a REPEAT | `Interpreter.cfg`, `NeverUnbalancedAtRunTime` |
| `lumen-lang/tests/compile.rs:392`: "the masked-off pixel should stay black" | a masked first layer emits the colour of the pixel before (`emit.rs:1146`) | `CompiledEffects.cfg`, `Programs <- MaskedBase` |
| `resolve.rs:30`: a section is "the maximum over its inputs" | the rate of a call ignores the function's body (`resolve.rs:1088`), so a function that reads `u` is hoisted | `CompiledEffects.cfg`, `Programs <- HoistedFn` |
| `lumen-lang/tests/emit_coverage.rs:341`: "the intensity multiplies each of them afterwards" | TEMP2RGB overwrites a computed intensity first (`emit.rs:1615`) | `CompiledEffects.cfg`, `Programs <- ComputedIntensity` |
| `emit.rs:89` of the pass that looks for `dt`: "asking it what it touched cannot disagree with what it emitted" | a first pass that runs out of registers answers that `dt` was not read (`emit.rs:159`); if the second pass fits with one register more, the effect's values are in the register the device writes `dt` to | `CompiledEffects.cfg`, `Programs <- AtTheLimit` |
| `emit.rs:688` of an element's fields: "which is what makes the unrolled loop mean the same thing as a real one" | a `let` in a loop or an arm takes its register beside the scratch in use (`emit.rs:436`), so the element or the arm's zero is overwritten | `CompiledEffects.cfg`, `Programs <- LetInLoop`, `Programs <- LetInArm`, `ElementsMoveAsWritten` |
| `docs/effect-language-grammar.md:182`: `dt` is available in "frame, pixel, sim" | `run_sim` writes the show time only (`vm.rs:445`) and that register is scratch in a sim | the same with `Programs <- StepByDt` |
| `docs/effect-language.md:49`: a `let` is "a named subexpression" | a sim that names one of the effect's reads the register the let has in the program for the pixels, which its own program never writes | the same with `Programs <- StepByLet` |
| `program.rs:411` of sharing slots: without it "an effect reading one channel 256 times would silently wrap" | a 257th distinct channel does, to slot 0 | `WireCodec.cfg`, `ProgramsReadAsBuilt` without `WithinFormat` |
| `docs/bytecode-vm.md:41`: prev is "this pixel's value last frame" | the C ABI passes zeros (`lumen-capi/src/lib.rs:459`) | `CompiledEffects.cfg`, `Shell = "CAbi"`, `Programs <- Trail`, `PrevIsTheLastFrame` |
| `docs/bytecode-vm.md:23`: the once section runs "on activation" | no call of the C ABI runs it | the same with `Programs <- Prepared`, `RendersFromShowTime` |
| `output.rs:239`: "a supply has to survive the peak, not the average" | a frame is compared with the budget before rounding is priced (`:227`); the reserve is half a code while dither adds up to 31/32 (`:244`) | `OutputStage.cfg`, `PeakWithinSupply`, `DitheredPeakWithinSupply` |
| `fmt.rs:66`, `tests/compile.rs:1650`: a trailing comment is kept "on the same line, which is where the author put it" | `flush_trailing` takes the next trailing comment without looking where it was (`fmt.rs:75`): after `let`s, `param`s and blocks change their order it is on another item's line; inside a `fn` or on a layer's last line it goes to the first line that asks | `FrontEnd.cfg`, `TrailingCommentsStay` |
| `tests/compile.rs:637`: "reformatting changed the compiled program" | `(-a).x` is printed `-a.x`, which is `-(a.x)` (`fmt.rs:407` has no brackets of its own) | `FrontEnd.cfg`, `Files <- SignedFiles`, `SavingKeepsTheProgram` |
| `fmt.rs:438`: "Six decimal places is more than Q16.16 can represent, so nothing is lost"; `tests/compile.rs:616`: "the program must not change" | a constant is rounded to the nearest 2^-16 (`emit.rs:1974`), so a seventh decimal can decide: `0.0000227` compiles to raw 1 and is saved as `0.000023`, which compiles to raw 2; the position of a palette's stop is cut as well | `FrontEnd.cfg`, `Files <- FineFiles` or `Files <- FineStops`, `SavingKeepsTheProgram` |
| `resolve.rs:814`: "an unknown construct is an error, never skipped" | the body of a function is never checked: a name it does not have passes the resolver, and the emitter leaves the layer out without a word (`emit.rs:1383`) or reads a binding of its caller's | `FrontEnd.cfg`, `FunctionsAreChecked` |
| `q16.rs:11`: "saturates rather than wraps" | `len2` and `len3` cut the root with `as` (`q16.rs:384`) | `FixedPoint.cfg`, `LengthsSaturate` |
| `q16.rs:353`: "one table covers every octant" | a ratio of one is clamped to entry 255 with sub-step 0 (`q16.rs:361`), so the angle dips on each diagonal | `FixedPoint.cfg`, `AnglesGrow` |
| `q16.rs:124`: multiply "rounding toward zero" | the shift at `q16.rs:127` rounds down | `FixedPoint.cfg`, `ProductsRoundTowardZero` |

Two more of the last kind need no run: `to_int` (`q16.rs:86`) says toward zero and floors,
`from_ratio` (`q16.rs:73`) says nearest and truncates.

## 8. What is not modelled, and why

* Warnings and the wording of diagnostics, gradients and baked palettes, and colour arithmetic. Types are modelled where
  they decide whether a file is refused, widths where they decide which registers are used; that the two agree is not stated.
* In the render shell a division by zero stands for every fault of the arithmetic: the domain faults of SQRT, POW, LOG and
  LOG2 and a spent budget end a section in the same way. In `Interpreter` an ASTORE always faults, as one that stores moves
  nothing that module keeps. `Encode` is given slices of equal length; the code takes the
  LEDs that both have.
* What history a masked layer's state assignment should leave: neither the documents nor
  the tests say, so effects with state under a mask are given no meaning.
* The integer hash behind the noise: any function of the lattice point does for what is checked.
* Signatures: calls into a library, no state. Frame digest: a fold without a branch.
* The characters inside lexemes (escapes in strings, digits, hex colours to linear light and back), wording of
  diagnostics, and what the functions of the standard library compute.
* The other commands of the CLI, conformance adapter, node glue, scripts: I/O around what is modelled.

## 9. Plan

1. *Done:* replay window with its abstraction and proofs; fragmentation; the secure link;
   codec and program images; interpreter; machine, render shell and sim master; code generator for layers and
   simulations; lexer, parser, formatter and resolver; output; fixed point and noise; MAC.
2. *Extend:* that the widths of the emitter are those of the resolver's types, baked palettes and gradients.
3. *Prove, done:* replay window with its refinement, fragmentation, the secure link, the interpreter's control flow,
   cost and budget, the render shell, the MAC's input, and the output stage.
4. *Prove, next:* `ShowTimeRuns` of `FixedPointMachine` (wrapping arithmetic on the show time); one level of the codec, a field read back as written;
   a bound on the steps of a section without CALL and without a budget, by its trips.

Later runs replace or join the ones here, so that there are never more than a dozen, each with
a question of its own.
