# A TLA+ model of the MetaModule plugin SDK

The SDK (4ms/metamodule-plugin-sdk) is what a plugin for the MetaModule hardware is compiled
against: the `core-interface` for native modules, the `rack-interface` that stands in for VCV
Rack's API, and a C library. Most of it is declarations whose bodies are in the firmware; what is
left in headers, and runs in the plugin, is what this project specifies, model-checks with TLC and,
for the central results, proves with TLAPS.

Contents: [the system](#the-system) · [modules](#the-modules) · [runs](#the-runs) ·
[fairness and deadlock](#fairness-and-deadlock) · [proofs](#the-proofs) ·
[findings](#findings) · [limits](#what-is-not-covered) · [plan](#plan)

To repeat a run: `tlc -workers 2 -config RingPow2.cfg RingBuffer` (module and cfg of each run are in
the table below and in `PROJECT.json`). To repeat the proofs: `tlapm RingBufferProof.tla`, and so on for
`NaturalLemmas` and each module whose name ends in Proof.


## The system

A plugin is a shared library of *modules*. The firmware makes a module, then drives it: its audio
engine patches and unpatches jacks, sends voltages to inputs and knob positions to params, calls
`update()` (native) or `process()` (Rack) once a sample, and reads outputs and lights; its GUI reads
lights and draws displays, and holds weak pointers to widgets that may go; async threads of the
plugin exchange samples with the audio thread through a ring buffer; MIDI messages go out to, and
come in from, USB and DIN.

Paths are relative to `src/`; `RI` is `rack-interface/include`, `CM` is `core-interface/CoreModules`.

| Component | State it keeps | Operations | Who it interacts with | What is hard | What makes it correct |
|---|---|---|---|---|---|
| `dsp::RingBuffer` (`RI/dsp/ringbuffer.hpp`) | atomic `start`, `end`; plain `data[S]` | push, pushBuffer, shift, shiftBuffer, clear, size, capacity, empty, full | one producer thread, one consumer thread, nothing else shared | every interleaving of the two; non-atomic data; size_t wrap; S not a power of two | a FIFO; no two threads on one slot; nothing starves |
| `DoubleRingBuffer`, `AppleRingBuffer` (same file) | indices, doubled data | startData/startIncr, endData/endIncr, push, shift | one thread | keeping the two copies equal; the move back to the front | the same FIFO, contiguous |
| `SmartCoreProcessor` (`CM/SmartCoreProcessor.hh`) | arrays of params, optional inputs, outputs, patched flags, lights; `bypassed` | set_param, set_input, mark_*_patched/unpatched, setOutput, setLED, handle_bypass, getters | engine on one side, the module's `update()` on the other | order of patching, sending and bypassing | unpatched inputs are empty; bypass routes what is patched; elements have values of their own |
| `SmartCoreProcessorPoly` (`CM/SmartCoreProcessorPoly.hh`) | arrays of voltages per channel, channel counts, `bypassed` | the same, and get_poly_*_buffer, setChannels | the same; the engine writes counts and voltages through a pointer | a mono and a polyphonic way in to the same array; counts changed from both sides; stale voltages | counts follow cables; a cable shows only its own voltages; channel 0 is SmartCoreProcessor |
| Elements (`CM/elements/*.hh`) | none: compile-time counts and indices over an array of variants | count, get_indices, mark_unused_indices, matched, set_index, sort, LED conversion | the SmartCore classes, the GUI and the patch engine, by number | kinds with several lights; the marker for "no index" | indices are disjoint and in panel order |
| `WeakPtr`, `WeakBase` (`RI/weakptr.hpp`) | per pointer a handle; per object a handle; per handle its object and count | set, get, copy, destroy; `~WeakBase` | GUI code holding widgets the firmware deletes | who frees the handle; reused addresses; copies | returns the object while it lives, then nullptr; no use after free, no leak |
| `midi::Message` (`RI/midi.hpp`) | 3 bytes, USB code | getSize, field setters, SysEx packet makers | driver (firmware), MidiGenerator | the length is worked out, not stored | every byte that means something goes out, no other |
| `dsp::MidiGenerator` (`RI/dsp/midi.hpp`) | per channel note, velocity, gate, key pressure; last pressure, controllers, wheel; transport inputs | setNoteGate, setVelocity, setKeyPressure, setChannelPressure, setCc, setPitchWheel, setClock/Start/Stop/Continue, reset, panic | a module that calls them every sample; an instrument behind `onMessage` | it suppresses what it thinks was sent | no note hangs; its memory is the instrument's state |
| `engine::Port` (`RI/engine/Port.hpp`) | voltages[PORT_MAX_CHANNELS] (4), channels, lights | setChannels, set/getVoltage*, readVoltages, writeVoltages | engine and Rack module | as in the polyphonic class | it is the jack of a native module: no voltage above the count survives, the module cannot patch it |
| triggers, pulse, divider (`RI/dsp/digital.hpp`) | a state or a counter each | process, processEvent, trigger, reset, setDivision | one module | hysteresis, the first reading, pulses that overlap, a division changed in mid-count | one trigger per crossing; a pulse as long as asked; one tick per division |
| `Decimator`, `Upsampler`, `MinBlepGenerator` (`RI/dsp/resampler.hpp`, `minblep.hpp`) | a ring of samples or of sums, an index | process, reset, insertDiscontinuity | one module | rings read backward, blocks, slots cleared when read | every sample and every jump meets every coefficient once, in order |
| `SampleRateConverter` (`RI/dsp/resampler.hpp`) | a speex resampler, four settings | setChannels, setQuality, setRates, refreshState | one module; the speex library | the library can fail; the handle replaced at each setting | the resampler is the one for the settings, none leaks |
| `RealTimeConvolver` (`RI/dsp/fir.hpp`) | spectra of the last blocks, a ring index, a tail | setKernel, processBlock | one module | a kernel that is not a whole number of blocks, a kernel replaced | the output is the convolution |
| filters, meters (`RI/dsp`, `core-interface/dsp`) | floats | process | one module | floating point | — |
| `engine::Module` (`RI/engine/Module.hpp`) | vectors of params, ports, quantities, bypass routes | configParam, configInput, configOutput, configLight, configBypass | a module's constructor; firmware | ownership of what is replaced; ids out of range | no info leaked or shared; the first route stays |
| `SharedMutex`, undo history (`RI/mutex.hpp`, `RI/history.hpp`) | none | lock, try_lock, ... | modules ported from Rack | the bodies are commented out, or in the firmware | — |
| widget events (`RI/widget`) | a context with a consumer | consume, stop propagation | firmware's dispatch | — | one consumer |
| displays, async threads, file browser, WAV stream, patch, GUI notification, MIDI ports | declared in headers; implemented in the firmware | — | firmware | cannot be read here | — |
| vendored code, `plugin-libc`, build scripts | — | — | — | third-party or sequential scripts | — |

`PROJECT.json` lists every component with its status, and under `hazards` what is hard to test in
this code, each at its line, with the properties that watch it or the reason none does.


## The modules

### RingBuffer, SizeT and FifoQueue

`RingBuffer` has the class's members `start`, `end` and `data` as variables, and a program counter,
arguments and partial copy for each of the two threads. One action is one access to shared memory:

- `PushBegin`, `PushCopy`, `PushEnd` are pushBuffer (push is the case of one element): `i = end % S`,
  one element of the two memcpys at a time, then `end += n`; `ShiftBegin`, `ShiftCopy`, `ShiftEnd`
  mirror it. `data` is not atomic in the code, so nothing is assumed of the order in which the
  copies of the two threads meet: `NoSharedSlot` says they never do.
- `AskCapacity` is capacity() or full(), `AskAvailable` size() or empty() (`Probe` picks which a
  consumer polls). The answer is kept in `room` or `avail` and used later, stale.
- `ClearLoad` and `ClearStore` are the two halves of `start = end.load()`.

Indices are added and subtracted modulo `IndexRange` (2^32 on the target); `SizeT` holds this arithmetic
for all the rings. Callers follow the class
comment: one producer, one consumer, never more than the answer to their question. clear() is left
to the consumer; by its body it writes the consumer's index, and no caller in the repository does
otherwise.

`FifoQueue` is what the class promises: a bounded sequence; batches enter whole, leave from the
front, and clear() discards a prefix. `RingBuffer` implements it with the values in the slots
`start .. end - 1` as the queue: a push takes effect at `end += n`, a shift at `start += n`.

`InServiceSpec` and `BeforeWrapSpec` restrict the behaviours, and say so by name: to those in which
S divides the range of size_t, or `end` has not wrapped yet. Outside them the class is not a FIFO
(see [findings](#findings)).

### SmartCorePoly and SmartCore

`SmartCorePoly` has the class's arrays as functions per jack and channel, and three variables for the
engine's side: the jacks it has marked (`cabledIn`, `cabledOut`), and the voltages it has `sent` over
each input's present cable. Every virtual the engine calls and every call `update()` can make
that writes is one action of the same name (`MarkInputsUnpatched` is the one-jack and the all-jacks
function; `WriteInputBuffer` is what the engine does with get_poly_input_buffer; `HandleBypass` is
the whole of handle_bypass, both loops). The class has no thread of its own and the engine calls it
from one, so a call is a step, and calls come in any order.

`SmartCore` is the monophonic class, written from its own source. It serves twice: as a model of that
class, and as the specification the polyphonic one should satisfy when only channel 0 is looked at,
because the class comment promises "Like SmartCoreProcessor".

`LateInput` says whether set_input may reach a jack that is not patched. The firmware is not here
to settle it; both answers are run.

### ElementCount, SmartCorePanel and PanelValues

`ElementCount` holds the pure functions of `CM/elements`: counts per kind, the running total,
get_indices, mark_unused_indices, matched, and set_index (with the uint8_t it takes) and get_index,
by which the firmware keeps an index and finds the element again. Of the kinds of element that count
alike and derive from the same base class one stands for the rest: a TextDisplay counts nothing, as an
image does, but is a LightElement, and so a kind of its own. An alternative param is no ParamElement.
By what they kept (the marker) these three find nothing, every other element itself and no other
(`OnlyItselfMatches`). `SmartCorePanel` takes any panel (a sequence of kinds), makes the four arrays of
the SmartCore classes as long as the counts say, and lets the engine set params and inputs by
number, the module set outputs and lights by element; setLED converts colours as convertLED does
(brightness in halves). `PanelValues` is the promise: every element has values of its own and the
engine's numbers count them in panel order. It is defined without any index.

### WeakPtr and WeakRef

`WeakPtr` has the heap in one record: the handle of each pointer and of each object, and each
handle's object, count and whether it is allocated. `Set` is set(): `Release` (decrement; the last
one tells the object and frees) and then `Share` or `Create`. Constructors, destructor and
assignment are calls of set() in the code and here. Objects are made and deleted at addresses that are
reused, and so are handles: a stale pointer is then not just dangling but wrong. The class is
documented as not thread safe, so a call is a step. `CopyObject` is the copy constructor the
compiler makes for a class that declares a destructor only; it is in `CopyingSpec`, not in `Spec`.

`WeakRef` is the promise: a pointer refers to what it was last set to while that lives.

### MidiMessage, SysEx and MidiGenerator

`MidiMessage` has getSize's chain of tests and the setters, byte by byte where they mask or shift.
`SysEx` is a sender that builds streams with the packet makers and an instrument that reads the
bytes off the wire by the rules of MIDI (F0 opens, F7 closes, real-time anywhere): the instrument is
external to the repository and only as clever as the standard asks.

`MidiGenerator` has the template's members and one action per method, with the messages of the call
in `sent`, and an instrument that starts and ends notes and keeps controllers, pressure and wheel. A
call that returns early because nothing changed is a stutter and not an action. The instrument takes
all three bytes of a message, as a USB packet brings them; what a receiver would make of getSize() is
the question of `SizeAsAsked`. `orphans` records the notes that sounded when a bare reset() forgot
them: reset() sends nothing, and that it does is the code's behaviour and not a finding.
setFrame() stores a number which Message drops, and is left out.

### RackHelpers: what one thread of a Rack module uses alone

These classes share nothing and have no thread of their own, so a call is a step of each.
`RackHelpers` is their sum: a behaviour has a `subject`, one of them, which takes every step, while
the rest stay as they began. One run and one instance then serve them all, and a state of one is
never multiplied by the states of another. (`SysEx` is among them.)

- `DoubleRing` and `AppleRing` are DoubleRingBuffer and AppleRingBuffer call by call;
  `ContiguousRings` gives both the same calls, the bulk ones (`Fill`: endData, write, endIncr; `Take`:
  startData, read, startIncr) and the single ones mixed. `SampleQueue` is the promise: what waits is
  one block, in the order it was put, and each value is taken once or cleared. DoubleRing keeps two
  copies of each slot (`Mirrored`); AppleRing moves what waits to the front, which is to be rare.
- `EdgeDetectors` has BooleanTrigger and both forms of TSchmittTrigger, for floats with its third
  state and the vectorised one (a lane of it), fed with the same readings. Against the thresholds a
  reading is low, between or high. `Process` and `ProcessEvent` are actions of their own on the same
  state, since a caller may mix them: a fall is told of by `ProcessEvent` alone, and by it always.
- `PulseAndDivider` has PulseGenerator and ClockDivider, with what the caller is `owed` and the
  `ticks` it has seen. Time is in units of which durations and
  sample times are whole numbers, and the sample time may change from call to call.
- `DelayLines` has the rings of Decimator, Upsampler and MinBlepGenerator. The kernels are left out:
  which sample, or which part of which jump, meets which coefficient is the control there is.
- `Convolver` is RealTimeConvolver with pffft external: transforming, multiplying and transforming back
  is `Convolved`. Coefficient i is 2^i and samples are 0 or 1, so the bits of an output name the
  products in it. setKernel leaves outputTail; the property says so, with the old kernel's tail in the
  first block after it and nowhere else.
- `RackPort` is an output Port with the engine that connects it. writeVoltages calls setVoltage once
  per channel, and is modelled so. It implements `SmartCorePoly` with one output (`LikeNativeJack`): a
  Rack module's port and a native module's jack are one thing to the engine.
- `RateConverter` is SampleRateConverter over an external library that makes resamplers at addresses it
  uses again, and may fail to.
- `ModuleConfig` is the config functions and configBypass. The four vectors of infos are handled by
  the same code four times; one stands for them.

### Mutated forms

A definition whose comment begins with "Mutated" stands before the one it mutates: a bug a person
could plausibly have written there (a slot not reduced modulo S, a count clamped on one side, a
note-off that names the new note). Nothing refers to them; `PROJECT.json` pairs each with a property
that fails when it takes the original's place, which shows that the property can tell.


## The runs

| Run (module / cfg) | Shows | Bounds, and why they are enough | Distinct states |
|---|---|---|---|
| `ring_pow2` (RingBuffer / RingPow2) | types, no overrun, disjoint slots, FIFO refinement, draining, for ever | S = 2, so that a batch can straddle the end of the array and the buffer can be full, half full and empty; indices wrap at 8, four laps of the array; two values, so an element out of place shows | 88 thousand |
| `ring_first_lap` (RingBuffer / RingFirstLap) | the inductive invariant, empty() exact, draining until `end` wraps, for an S that does not divide the range | S = 3, wrap at 8: two laps and a part | 98 thousand |
| `ring_wrap` (RingBuffer / RingWrap) | violation of `Drains`: finding 1 | S = 2, wrap at 4 | — |
| `poly_late` (MCSmartCorePoly / PolyLate) | counts follow cables, a cable shows its own voltages, in any order of calls | one input, two outputs, two voltages, three channels, so a count can be 0, 1, between and the maximum; setChannels from 0 to one above the maximum; three routes, two of them from jacks that are not there | 53 thousand |
| `poly_mono` (MCSmartCorePoly / PolyMono) | SmartCoreProcessor refined through channel 0; unpatched inputs silent | two inputs routed to the same output, two channels: the order of routes matters | 1,944 |
| `poly_like_mono` (MCSmartCorePoly / PolyLikeMono) | violation of `LikeSmartCore`: finding 2 | one input, one output | — |
| `weak_ptr` (WeakPtr / WeakPtr) | no freed handle touched, no leak, exact count, refinement of WeakRef | three pointers (one on a handle, two on it, one elsewhere), two objects, three handles, all reused | 808 |
| `weak_ptr_copied` (WeakPtr / WeakPtrCopied) | violation of `ImplementsWeakRef`: finding 3 | two of each | — |
| `midi` (MidiGenerator / Midi) | no note stuck, no note ended without a reason, memory equals instrument | two channels that can hold the same one of two notes; velocities 0 and 100 (the default); the wheel's centre and end; one value of pressures and controllers beside "nothing sent" | 421 thousand |
| `midi_sizes` (MidiGenerator / MidiSizes) | violation of `SizeAsAsked`: finding 4 | one channel, one note | — |
| `panel` (SmartCorePanel / Panel) | each element its own values, indices disjoint, the element of a kept index found again and no other | every panel of up to three elements of eleven kinds (0, 1, 2 and 3 lights, and a light element without any; params with and without lights; jacks): an index is a sum over what comes before, and two elements before a third show every way it can be wrong | 25 thousand |
| `rack_helpers` (RackHelpers / RackHelpers) | each helper's properties, listed under the modules above; every SysEx payload arrives byte for byte | rings of 2 slots in a block of 3, indices that wrap at 6, two values: batches straddle the end, three laps; 4 readings after a reset: up, down and up again; pulses and divisions up to 3, samples of 1 and 2; kernels of 2 x 3 taps and 2 zeros, two jumps in a frame; blocks of 2 and kernels of 0, 1, 3 and 5: none, part of a block, two and three blocks with a part; 3 channels, so a count can be 0, 1, between and the maximum; two resamplers, reused; two infos and three objects; two inputs and outputs; payloads up to 8 bytes: start, one or two continues and each of the ends, with data 0 (equal to padding) and 64 | 26 thousand |

`SizeAssumption`, `ClientAssumption`, `VoltsAssumption`, `RoutesAssumption`, `PolyAssumption`,
`WeakAssumption`, `DataAssumption`, `NoteAssumption`, `ControlAssumption`, `PanelAssumption`,
`DoubleRingAssumption`, `BlockAssumption`, `ReadingsAssumption`, `PulseAssumption`,
`DivisionAssumption`, `LineAssumption`, `ConvolverAssumption`, `PortAssumption`,
`ConverterAssumption` and `ConfigAssumption` are what is required of the constants; TLC evaluates them
in the runs above.

Two kinds of property deserve a word. `TypeOK` is not only about types: in `SmartCorePoly` it says
that no count is above MaxPolyChannels, where getInput would read past the array, and in
`RingBuffer` that slots are inside `data`. `ImplementsFifo`, `LikeSmartCore`, `ImplementsWeakRef`,
`ImplementsPanel`, `ImplementsQueue`, `AppleIsQueue` and `LikeNativeJack` are refinements: every step of the code is a step of the abstract specification,
or one that it does not see.

### Fairness and deadlock

Only `Drains` needs fairness: the consumer thread runs, which is what a scheduler owes it, and it
asks and shifts what it is told of, which is what the loop around a ring buffer does. Weak
fairness of its own steps says so: each of them stays enabled until it is taken, because the
producer can only add to what the consumer may read. Nothing is assumed of the producer: it may stop
in the middle of a push. `clear()` is fair only once begun. The other components are sequential, do
nothing unless called, and promise nothing that has to happen in the end.

Deadlock is checked in every run. No run switches it off.


## The proofs

Eight modules hold proofs, checked by tlapm to the last leaf; none rests on anything but the
assumptions on constants and the library's theorems. Every property of every run that passes is
stated by a theorem for every value of the constants, but for one, `Drains`, which is about
fairness. For `OnlyItselfMatches` the theorem has a condition (see SmartCorePanelProof).

**NaturalLemmas.** What the others share: remainders (`RemainderIs`, `SlotOfSum`, `SlotOfPlus`: n
slots on from the slot of x is the slot of x + n, across the end of an array and, where S divides the
range, of an index), induction, and sums. The library's induction theorems take an operator,
which the provers cannot instantiate; `InductionUpTo` takes a set, the numbers for which a fact
holds, and follows from its having a least element. A function that is defined by recursion is
met as what CHOOSE makes of it: one shows that a function with the defining equation exists, and
then uses the equation. `SumExists`, `SumIsOne` and `SumByAny` do this for the `SumFunction` of the
community modules, which takes the elements of its domain in an order nobody knows: the sum
does not depend on it. From them follow the laws of sums over 0 .. n - 1 (`SumOfMore`, `SumOfBoth`,
`SumOfPart`, `SumInBlocks`).

**RingBufferProof.** For every S and IndexRange with 2 S <= IndexRange. `IInv` is inductive: the
distance of the indices is at most S (`IndexInv`), what each thread was told is still safe to rely on
(`ProducerInv`: `room <= S - Size`; `ConsumerInv`: `avail <= Size`), and a copy in progress began at
the slot of its own index. The bound alone is not inductive: after a push it holds only because the
push kept to an earlier answer, and the answer stays good only because the other thread can only
improve it. `Invariance` and `Safety` (types, `NoOverrun`, `NoSharedSlot`) are for behaviours in
service; `PowerOfTwoSafety` drops the restriction when S divides IndexRange; `EmptyBeforeWrap` says
empty() is exact until `end` wraps. `NoSharedSlot` rests on arithmetic the solver lacks, which the
lemmas of NaturalLemmas supply.

`Refinement`, in the same module: for every S, width of size_t and set of values, as long as the
buffer is in service, every interleaving of the two threads implements `FifoQueue`. `FInv` adds to
`IInv` what the copies have done so far: the part of a batch already copied is in the slots after
`end` (`PushedSoFar`), the part already read is the front of the queue (`ShiftedSoFar`).
`PushCopy` writes a slot that is not among those of the contents (`WritesApart`), so the queue does
not move until `end += n`, when it grows by exactly the batch (`Publishes`); `start += n` takes
exactly what was read (`Removes`); every other step is a stutter (`Quiet`).

**SmartCorePolyProof.** For all sets of jacks, voltages, sequences of routes and channel limits.
`IInv` adds to the properties that nothing counts as sent on a jack without a cable, without which
a fresh cable could not be shown to start silent, and (unless `LateInput`) that unpatched inputs are
silent, without which a bypass could not be mapped. `Safety` gives `TypeOK`, `CountsFollowCables` and
`PresentCable`; `Unpatched` gives `UnpatchedSilent` and `Refinement` gives `LikeSmartCore`, both when `~LateInput`, action by action. The lemma
`RoutedInputType` shows that the last of several routes exists, by the well-foundedness of < on how far each is from the end.

**WeakPtrProof.** For any finite set of pointers and any objects and handles. `IInv`: an object and
its handle know each other (`OwnHandle`, `OwnTarget`), and a handle's count is the number of
pointers on it and is positive (`Counted`). set() is proved in its two halves with a heap in between,
since its release may free the very handle the object had; `SetKeeps` puts them together.
`Safety` is the four invariants; `Refinement` is `ImplementsWeakRef`.

**MidiGeneratorProof.** For any channels, notes around the default 60, velocities, controllers and
values. The invariant is the three properties of the run together. The work is in what the
instrument makes of a call's messages: `SoundedOff`, `SoundedOn` and `SoundedOffOn` for the messages
of a gate, `SoundedPanic` for the long sequence of panic(), `BendHalves` for the two halves of the
wheel. `Safety` gives `TypeOK`, `NoStuckNote`, `RemembersTruly`; `EndsOnlyForAReason` the action
property.

**ContiguousRingsProof.** For any S, any block of N >= S cells, any values, and IndexRange a multiple of S
of at least 2 S. The invariant of DoubleRing is its types, `Size <= S` and `Mirrored`: the slots of
what waits hold the same in both copies, wherever a reader may look for them. `RingsSafety`
gives `Mirrored`, `RingsRefinement` that both rings implement `SampleQueue`, `RareMoves` that AppleRing
moves its values only past the first N - S cells.

**RackHelpersProof.** Each helper on its own first, as the specification that `HelpersSpec` comes to
when that helper is its subject (`PortSpec`, `PulseSpec`, ...):

- `PortTypes` and `PortRefinement` (`LikeNativeJack`) for any channels and voltages.
- `ConverterIsInStep` for any resamplers, rates and qualities: what is in use was made for the settings
  now asked for, and nothing else is left.
- `PulsesLast` for any durations and any set of sample times, in whole numbers of one unit (the float
  rounding of `remaining` is left out): `remaining` is the longest `owed`. `DividerTicks`: the tick of a window
  of `division` calls is where the clock says (`TickAtClock`), so a set of one element.
- `ConfigSafety` for any numbers of ids, objects, inputs and outputs.
- `EdgesTrigger`: the state of each trigger is the last crossing in the readings (`EdgeInv`), so that
  either call reports a rise, and processEvent() a fall, exactly for the reading that reverses it.
- `FiltersAreConvolutions`: the ring read backward from the index is the input in order, for any
  factor and quality; `JumpsAdd`: the slot a frames ahead holds the parts that the jumps of the last
  2 Z frames have still to play there, and no slot holds one that is older.
- `PayloadsArrive`: what the instrument has `Read` of the bytes so far is what has been sent of the
  payload, and whether the stream is open. Reading is a recursion over the bytes: the lemmas
  show what appending one byte, and so a packet with padding, a status or a clock between them, does.
- `KernelConvolves`: `ConvolverInv` says that the spectra are the blocks of the signal, newest first
  back from inputPos, and that the tail is the sum of the `Late` products: those of coefficients
  that lie further into their block than the sample into its own. `ConvolvedIs` shows what
  a circular convolution of padded blocks leaves of one block of the kernel, `SumsOfBlocks` puts
  the blocks together into the `Early` and the `Late` half, and `EarlyAndLate` shows that the early
  products with a block and the late ones from before it are the whole convolution.

Then all of them together: `HelpersStep` and `HelpersAlone` show that a behaviour of `HelpersSpec` is one
of each helper, and `HelpersSafety` and `HelpersPromises` state, of the specification that is run, every
invariant and every action property of the run.

**SmartCorePanelProof.** For panels of any number of elements of any kinds. The running total is a
recursion over the panel: `PanelRefinement` rests on its being strictly monotonic where an element has
something of the kind counted, so that the stretches of the arrays that elements own are
disjoint and in order; then setOutput and setLED reach the values of their own element and no
other, and the engine's numbers count the elements' values in order (`ImplementsPanel`). `Lookup` gives
`PanelTypes` and, where the panel `Fits`, `OnlyItselfMatches`. `Fits` says that the panel has at most 255 params,
255 lights, 255 inputs and 255 outputs, because set_index keeps an index in 8 bits: the 257th light
would be found as the first, and the 256th, whose index is 255, by a TextDisplay, a light without
lights whose marker set_index cuts to 255. (`KeptIsOne` is about the elements that kept an index,
`KeptIsNone` about those that kept the marker: they find nothing, not themselves either.) The panels of the run fit; `LookupOfSmallPanels` says that up
to 85 elements always do, since no kind has more than three of anything.

**Only model-checked.** `Drains`, since liveness under fairness is beyond this prover. The violations, of
course. The conditions of the theorems are those under which the runs check the same: indices in service
for `RingBuffer`, IndexRange a multiple of S for the contiguous rings, `~LateInput` for
`UnpatchedSilent` and `LikeSmartCore`.

## Findings

Each is a run that TLC refutes against what the source or its comments say.

1. **`ring_wrap`** — `RingBuffer::empty()` is `start >= end` (`RI/dsp/ringbuffer.hpp:68`). When `end`
   has wrapped and `start` has not, it answers true however much waits, and a consumer that polls it
   starves, with the buffer full. The class comment allows for trouble "in a thousand years" and only
   if S is not a power of two; size_t is 32 bits on the target, and this is with S = 2. size() is
   right throughout (`ring_pow2`).
2. **`poly_like_mono`** — the class comment says "Like SmartCoreProcessor"; but a voltage sent to an
   unpatched input stays in channel 0 without patching it, and a bypass copies the channel to the
   output (`CM/SmartCoreProcessorPoly.hh:189`). The monophonic class counts that jack as patched.
3. **`weak_ptr_copied`** — an object copied from another has the same handle; when the copy
   goes, weak pointers to the original, which is still there, return nullptr
   (`RI/weakptr.hpp:17`).
4. **`midi_sizes`** — a channel pressure message asks for `setSize(2)` (`RI/dsp/midi.hpp:114`);
   getSize() says 1 (`RI/midi.hpp:34`), which is the status byte without the pressure.

Met on the way and not findings, since no document says otherwise: reset() leaves held notes
sounding, and puts the wheel back in memory without sending it; key pressure is remembered per
channel though it is sent for a note. They are among the hazards.


## What is not covered

- Anything whose body is in the firmware: async threads, file browser, WAV streaming, displays, MIDI
  ports and drivers, patch and GUI services, event dispatch. There is nothing to translate.
- Memory order. The indices are `std::atomic` with the default, sequentially consistent, order, so
  interleaving is what the code has. `data` is plain: `NoSharedSlot` is the absence of a race.
- Two producers, or two consumers; clear() by the producer's thread. The class excludes the first
  two in its comment.
- Floating-point code: kernels and their arithmetic, IIR, RC and slew filters, meters, TTimer. Voltages
  and samples are a few values, told apart. Of resampling, the counts of frames process() hands to
  speex, and the block and stream resamplers, whose bodies are in the firmware.
- Of Port, the getters and sums, which change nothing, setVoltageSimd, and the lights; of Module,
  what infos hold and config().
- SharedMutex: its comment promises readers and one writer, but lock() has its body commented out and
  does nothing, and try_lock() fails; there is no behaviour to check.
- In the SmartCore classes, get_led_brightness and getState with its conversion of switch
  positions, which static_asserts in the source test at every breakpoint.
- An engine that writes a channel count above MaxPolyChannels through the buffer it is given.
- Of the elements, look-up by coordinates and names (get_element_id), the sort by index, which only
  the firmware calls, and CoreHelper's compile-time names for the same indices.
- Program change and other messages that no method of MidiGenerator sends; the pressure of each key.

Seen in the source and watched by no property here:

| Where | What |
|---|---|
| `RI/dsp/ringbuffer.hpp:65` | clear() by the producer while a shift is under way leaves `start` past `end` |
| `RI/dsp/ringbuffer.hpp:106`, `:117` | DoubleRingBuffer's empty() orders indices as RingBuffer's does; endData() promises S values of room although fewer may be free |
| `CM/SmartCoreProcessorPoly.hh:51`, `:109` | voltages above an output's count survive it; a count above MaxPolyChannels written by the engine is read past the array |
| `CM/elements/elements_index.hh:92`, `:34` | set_index cuts an index to 8 bits; get_index knows no AltParamElement and answers with the marker, which becomes the param index 255: with 256 params that is another element's (`OnlyItselfMatches` has what happens with fewer: the element is not found by what it kept) |
| `CM/elements/elements_index.hh:22`, `:69` | the same for a TextDisplay, a LightElement without lights: the marker becomes the light index 255 |
| `RI/midi.hpp:155` | the USB code of a SysEx packet stays when the Message is used again |
| `RI/dsp/midi.hpp:73` | two channels may hold one note, and the first to let go ends it |
| `RI/dsp/midi.hpp:43`, `:96` | reset() and panic() put the wheel back without sending it; key pressure is remembered per channel but is a note's |
| `RI/dsp/digital.hpp:67`, `:109` | the vectorised trigger starts low and fires for an input high from the start; with equal thresholds a reading on them toggles the float one at every call |
| `RI/dsp/digital.hpp:96` | reset() of the float trigger sets UNINITIALIZED, as its first state; the entry for API v1.5.0 in CHANGELOG.md:144 says 0, which is LOW |
| `RI/dsp/minblep.hpp:45` | a jump at the very end of a frame may round to one past the impulse |
| `RI/dsp/resampler.hpp:26` | a copied SampleRateConverter destroys the same resampler twice |
| `RI/engine/Port.hpp:47`, `:125` | getVoltages and setChannels take any int; the caller keeps to the range |
| `RI/engine/Module.hpp:86`, `:115` | a pointer from an earlier configParam dangles after a second; configSwitch and configButton write through the nullptr that an id out of range gives them |


## Plan

All five steps that were planned first are done: RingBuffer with FifoQueue; SmartCorePoly with
SmartCore; WeakPtr with WeakRef; the MIDI modules; the elements. So are those planned next: the port,
the contiguous rings, the triggers, the index kept with an element, the ring of MinBlepGenerator, and
the proof that RingBuffer implements FifoQueue.

The proofs of the helpers, of their composition and of the panels, planned after that, are done too.

What is left, in order of what it would add: an instrument that keeps pressure per key, and asks for the
wheel at rest after reset(); that a panel of more than 255 does mix up two elements, as a
theorem; the shift lines of the IIR filter. The rest of the SDK is declarations, arithmetic or
third-party code.
