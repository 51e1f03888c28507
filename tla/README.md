# zozz in TLA+

zozz is a C ABI (`ffi/`) and a set of Zig wrappers (`src/`) around the ozz-animation C++ library (`libs/ozz`).
Hosts create opaque handles (skeletons, animations, tracks, sampling contexts, archives), run jobs on them and
destroy them; every allocation of the library goes through one process-wide allocator a host may replace.

This directory holds TLA+ modules for the parts of it whose correctness depends on *sequences* of steps, the
configurations that check them with TLC, and proofs checked by TLAPS. Paths in the modules' comments are relative
to the repository. Everything here is written from the code; docs and comments of the repository appear as the
statements the code is compared with.

- [Inventory](#inventory)
- [Modules](#modules)
- [Runs](#runs), [Bounds](#bounds), [Fairness](#fairness)
- [Proofs](#proofs)
- [Where the code and its docs part](#where-the-code-and-its-docs-part)
- [Assumptions](#assumptions), [What is not modelled](#what-is-not-modelled)
- [Plan](#plan)

## Inventory

| Component | State it keeps | Operations | Hard because | Correct when |
|---|---|---|---|---|
| Allocator seam (`ffi/zozz_core.cpp`, `src/memory.zig`) | ozz's default-allocator slot, the installed `ZozzAllocator`, the live block count; on the Zig side the one variable behind the bridge and a header in every block | allocate, free (any thread, through every other component), set, reset, get, save and restore | counter and allocator are updated in separate steps by many threads; frees are routed by what is installed *now* | a block goes back to the allocator it came from; the count is exact; a restored allocator is the one that was saved |
| Sampling context (`ffi/zozz_sampling.cpp`, `sampling_job.cc`) | the animation and ratio last sampled; per channel the next key, the last key of each track, dirty flags and decompressed keys | create/resize, invalidate, sample forward, backward, far, another animation | an incremental cache over interleaved key streams, tied to an animation by address | a sample does not depend on the samples before it |
| Animation builder (`animation_builder.cc`, `animation.cc`, `animation_keyframe.h`) | the keys being sorted, the scan over them; then one buffer of spans | sort, inject keys, take time points and iframes, allocate, compress, save, load | the injection loop changes the array it scans and restarts; indices and offsets are stored in fewer bits | the streams are what the sampler relies on and read back as such; it ends |
| Archives (`ffi/zozz_archive.cpp`, `zozz_internal.h`, `ozz/base/io/archive.h`) | the file, host stream positions, latched failures, byte order | create, save, destroy; create, test, load, destroy; save and load files | host I/O may stop at any byte; tag tests read ahead and rewind; ozz itself never notices a short read | what is answered OK is what was saved, in order |
| Track triggering (`ffi/zozz_track.cpp`, `track_triggering_job.cc`, `track_builder.cc`) | caller-owned storage with a job and an iterator that points at it | run, get, next, plain copies by the host | a lazy search over loops, half-open at both ends, in two directions; storage with a pointer into itself | the edges are exactly the crossings in the range |
| Options parser (`ffi/zozz_options.cpp`, `options.cc`) | registered options in order, values, reference counts | create, register, unregister, parse, restore, destroy | shared ownership; parse failures after side effects | no option freed while held; a parse reflects its arguments only |
| Importer (`ffi/zozz_gltf*.cpp`, `gltf2ozz.cc`) | the document; the host's callbacks | create and load, import skeletons and animations through callbacks, destroy | ownership handed across callbacks that may fail; joints, nodes and channels find each other by names; steps and splines become keys | nothing leaks and nothing is destroyed twice; what is imported moves as the document does |
| Raw skeletons and skeleton builder (`ffi/zozz_offline.cpp`, `zozz_skeleton.cpp`, `skeleton_builder.cc`) | a flat list of joints; parents and names depth first | add joints, validate, flatten and nest, build, traverse | joints change order between authoring and runtime | every joint keeps its parent; children follow parents |
| Raw animations, raw tracks (`ffi/zozz_offline.cpp`, `zozz_rawtrack.cpp`, `track_sampling_job.cc`) | key lists per track | push keys, validate, optimize, build, sample | what a push accepts against what validation accepts; building adds keys and changes signs | an object built by accepted pushes validates, and samples as it was authored |
| Motion extraction, additive animations (`motion_extractor.cc`, `additive_animation_builder.cc`) | none between calls | make a raw animation, and two tracks, of another | several passes over one joint in a fixed order; what offline code takes out, other code puts back at runtime | what was taken out and what is left recombine |
| Optimizers (`decimate.h`, `animation_optimizer.cc`, `track_optimizer.cc`) | key lists | decimate within a tolerance | iterative removal, tolerances along a hierarchy | the result stays within the tolerance, its ends stay |
| Integer encoding (`group_varint.cc`, `ffi/zozz_encode.cpp`) | none | encode, decode | variable lengths | decoding gives what was encoded |
| Blending (`blending_job.cc`) | weights accumulated during a job | layers, rest pose, normalization, additive layers | full and partial layers are accumulated in different places | a joint is the average by its weights |
| Poses and local-to-model (`zozz_pose.cpp`, `local_to_model_job.cc`) | SoA transforms and matrices the host owns | pack, unpack, update all or part of a pose | partial updates skip and stop by the order of joints | after any updates a joint follows its parent |
| Skinning (`skinning_job.cc`, `zozz_skinning.cpp`) | none between calls | validate, run | 25 variants by influences, attributes and inverse transposes; all but the last vertex are loaded with a lane too many; outputs may interleave with inputs or replace them | a vertex is the weighted sum of its joints' matrices; nothing else is written, nothing read past a span |
| IK, motion blending (`*_job.cc`) | none between calls | one job each | floating-point arithmetic | arithmetic; see below |
| Maths (`base/maths/`) | none | functions of vectors, quaternions and matrices, in three builds and three forms | the same function is written several times, by shuffles and masks that differ from build to build | every build and every form is the same function |
| Handles, utilities, ABI guard, Zig wrappers, command-line tools, build | — | accessors and glue | — | — |

How they interact: every handle and every buffer of every component is a block of the allocator seam. The builder
makes the key streams the sampling context walks; archives carry them from one process to another, with the
skeletons and tracks of the other builders; the triggering job walks what `TrackBuilder` made; the importer drives
raw skeletons and animations through callbacks. Nothing runs in the background: concurrency is that of host threads,
and the only state they share inside zozz is the allocator seam (`zozz_core.h`, THREAD SAFETY). Handles are used by
one thread at a time.

`PROJECT.json` lists every component with its sources and status, and the hazards at their lines.

## Modules

### Allocator seam

`AllocatorContract` is the abstract specification: heaps, one per allocator, of blocks that are out; `Make`,
`Release` to the producing heap, and `Retarget`, allowed with nothing outstanding or between two Zig allocators.

`AllocatorSeam` is the code. `slot` is ozz's `default_allocator()` pointer, `host` and `live` the adapter's `host_`
and `live_`, `installed` the variable of `memory.zig`, `header` the `gpa` field it writes ahead of each block.
Threads allocate (`Allocate`, then `CountBlock`) and free (`Uncount`, then `FreeBlock`) in two steps each, in the
order of `zozz_core.cpp:50-85`; `HostInstalls`, `ZigInstalls`, `GetAllocator`, `RestoreAllocator` are the installing
calls, one step each under the documented requirement that no other thread is inside zozz (`Quiescent`).
`CppHostTakesSlot` is the C++ host of `zozz_core.cpp:169-172`, present when `CppAllocators` is not empty; when `CppHostCareful`, it has its blocks back before it lets `zozzSetAllocator` retake the slot. `heaps`,
`owned` and two fields of `saved` are history: which allocator made each block, which are in use, and what a saved
struct stood for.

### Animations: authoring, builder, storage, sampling

`KeyStream` describes the keyframes of one channel (translation, rotation or scale): times, offsets to the previous
key of the same track, snapshots. `WellFormed` is the interface between the two components, and `Surround` says
what a sampler has to find without reference to how streams are laid out.

`RawAuthoring` is the raw animation as a host edits it: `Push`, `SetDuration`, `SetName` and `Clear` with the checks each
call makes, and `Validate`, which is all the builder checks. `GltfImport` is the other way to get one: names made unique
(`FixupNames`), the skeleton below the roots of the scene's skins (`FindSkinRoots`, `ImportedSkeleton`), and the channels of each
joint as keys (`SampleLinearChannel`, `SampleStepChannel`, `SampleCubicSplineChannel`, then the checks of `SampleChannel`).
Its last section says what an import should give without reference to how: every node below a root once, and tracks that,
read there (`raw_animation_utils.cc`), follow the curves as glTF defines them; splines are drawn there between
control points and not by the Hermite polynomials of the code. Values of keys matter here only. `KeySorting` has the pure parts of `animation_builder.cc`
(filling in the ends, the sort order, iframes, compression) and `AnimationBuilder` composes all of it: `GltfLoad` and `GltfImportAnimation` or any
calls of `RawAuthoring`, then the build: `AnimationBuild`, the injection loop with one step per key (`Scan`, `Inject`), `NextChannel`, `TakeTimePoints` (which may fail: there can be more
than can be indexed), `TakeIFrames`, `Write`. The build leaves key values out: where a key goes is decided by times and tracks.

`AnimationStorage` is the runtime animation itself: time points shared by the channels, indices of one byte or two, offsets of
two bytes, iframes encoded as `group_varint.cc` does (`EncodeGV4Stream`, `DecodeGV4Stream`), the one buffer the spans are cut from, and the archive they are saved to and
loaded from. Its `ReadBack` is what the sampler reads, as a `KeyStream`.

`SamplingContext` is the context and the job: `Resize`, `Invalidate`, `Recycle` (the host destroys an animation and
another is created at the same address), and a sample as the steps `Sample`, `Seek`, `ReadForward`/`EndForward`,
`Rewind`/`EndRewind`, `Decompress` for each channel, then `Interpolate`. `entries`, `outdated` and `hot` are the
arrays of the same names in `sampling_job.h`; `hot[c][t]` records *which* keys were decompressed. Memory after a
resize is arbitrary: `Garbage` keys and any flags.

### Archives

`ArchiveFormat` has the bytes: endianness byte, tags, versions, values of two bytes in either order, and cursors
that zero-fill short reads as `HostReadStream` and `ConstMemoryStream` do. `Archive` has the entry points:
`OArchiveCreate`, `Save`, `OArchiveDestroy`, `SaveFile`, `IArchiveCreate`, `Test`, `Load`, `LoadPlain`, `LoadFile`,
`IArchiveDestroy`. Host streams may stop at any byte of any call, a seek may fail, and a reader may follow a file
that is still written or was cut off. `saved` and `taken` are history: the items whose save and load was answered OK.

### User tracks, motion and additive animations

`TrackSampling` has what `TrackBuilder` makes of a raw float track, float rounding to `Precision` bits, and the
reference notions (`IsCrossing`, `CrossingRatio`) defined on the track without the job's loops. `Quaternions` is `quaternion.h` in
integers, a quaternion standing for its positive multiples. `TrackSampling` also has what the builder does to quaternions (`Fixup`) and the
two samplers, of raw tracks (`RawSample`) and of built ones (`JobSample`). `RawTracks` is the host's side: `CreateRaw`, `PushKeyframe`,
`ClearKeyframes`, `BuildTrack`, `DestroyTrack` and `DestroyRaw`.

`TrackTriggering` extends it with the storage and its guard words (`StateOf`), `Run`, `Take` (get and next), `Copy` by
the host, and `operator++` with one step per key (`Yield`, `NextKey`, `LoopOver`, `Exhausted`). The reference, `Crossings`, numbers the
keys of all loops along one line and takes the crossings between the two ratios as a query goes. Whether a track is on is asked of
`JobSample`, so that triggering is compared with sampling.

`RawAnimationTools` has two tools as one step each: `ExtractMotion`, `motion_extractor.cc` pass by pass (`ExtractPosition` and `ExtractRotation`,
`BakeRotations` and `BakePositions`, `LoopRotations` and `LoopPositions`, `TurnBack`), and `BuildAdditive`, with the additive passes of the
blending job (`AddPass`, `SubPass`) that undo it. Its last sections say how a host puts together again what they took apart, through
the built tracks as they are sampled; `TracksSpec` composes triggering and the tools.

### Options

`Options` has a parser's table (`options`), the binding's own list of what is registered (`registered`), reference counts, and
the options' values and parsed flags, which a parse writes and which outlive it. Hosts create, share, register, unregister
and destroy in any order (`CreateOption`, `DestroyOption`, `Register`, `Unregister`, `DestroyParser`), static options
come and go around the global parser, which the first of them makes (`StaticConstructed`, `StaticDestroyed`,
`GlobalDestroyed`). `Parse` is a whole command line: `Offer` is one argument against the table, `Verdict` the checks after the loop in
the order in which they override each other.

### A character: skeletons, importer, poses, optimizers, blending

`Hierarchy` says what an array of parents has to be for the loops over it (`IsDepthFirst`) and what a subtree is, without
reference to a loop. `Skeletons` has the flat list a host authors, the depth-first order it is built in, and the
traversals. `Importer` has the handles: which blocks are allocated (`heap`), which the host answers for (`held`), and every
import as the steps before, in and after the host's callback, each of which may fail.

`LocalToModel` is a pose: SoA blocks of local transforms, matrices, and the job that updates a range of them one joint at a time
(`StartJob`, `Transpose`, `Write`, `Return`) between changes by the host (`SetLocal`, `SetModel`). A matrix is the sequence of
the factors it is a product of, so that any wrong or missing factor shows. `Optimizer` is `decimate.h` with its stack of segments
(`Split`, `Copy`, `Trim`) and the bounds `animation_optimizer.cc` computes for each joint. `Blending` is the job stage by
stage (`BlendLayer`, `BlendRestPose`, `Normalize`, `AddLayer`) in exact numbers.

`Character` composes them: the skeleton built by `Importer` is the one `LocalToModel` loops over and `Optimizer` computes bounds along.

### Maths

`simd_math.h` declares over 250 functions; `internal/` defines each of them twice, on SSE registers (with and without the instructions of SSE
4.1, which the compiler chooses) and on four scalars. A host runs one of them. `SimdSse` and `SimdReference` are the definitions, instruction
by instruction and lane by lane; functions that stand together share one definition, a record of what each returns of the same arguments.
`SimdMath` is what the header declares, by what the functions *mean*: a matrix inverse is Cramer's rule, a rotation is Hamilton's product with the
conjugate, `ToAffine` gives parts that make the matrix again. Lanes the header leaves undefined are `Undefined` there.

Most functions have other forms: `FloatVectors` is the scalars of `vec_float.h` and `quaternion.h`, `SimdForms` the vectors, quaternions and matrices in
structures of arrays, which compute four at once for the jobs, and `SimdQuaternion`, one in a register. They are written *in* the functions of
`simd_math.h` (`Returned`), so that they are checked over every build. So is the skinning job (`zozzSkinningJobRun` to `SkinnedVertex`), whose spans are parts of
one memory: vertex by vertex it prepares a weighted matrix (`WeightLoads`, `JointWeightsOf`, `WeightedMatrix`), with other loads for the last vertex
than for those before it, and loads, transforms and stores one attribute after the other. It is compared with `SkinnedMemory`, the memory from before with
the sum over the joints of a vertex in place of the outputs. `MathsForms` makes the calls (`Call`, `ReturnOfCall`) and compares.

Numbers (`LaneNumbers`) are residues modulo a prime: sums, products, quotients and square roots are exact, so two kernels that are one
function of the reals are equal, and one that mixes up a lane, a sign or an index is not. Where code looks at bits, a lane is the set of
its ones; where it converts a float by its bits (halves), it is sign and magnitude of the IEEE patterns. Sines and the like are functions of which
nothing is known. Tolerances become equality: nothing but 1 is near 1.

### Composition

Components meet through interfaces that are stated once: `WellFormed` is guaranteed by the builder
(`BuiltWellFormed`), also of what storage and archives give back (`RuntimeReadsBack`), and assumed of the sampler's `Stream`
constant; `IsDepthFirst` is guaranteed by the skeleton builder (`HierarchyKept`) and is what local-to-model assumes of `Hierarchies`; `AllocatorContract` is implemented by the seam
(`ImplementsContract`) and is what every other component may assume of allocation. `MCSamplingContext` checks with
two ASSUMEs that the streams it samples are those `KeySorting` builds.

## Runs

| Run | Checks | Shows |
|---|---|---|
| `seam` | TypeOK, CountIsExact, ForwardsToProducer, RestoreReturns, AcceptedIsUsed, ImplementsContract | two threads and every installing call, with a careful C++ host taking the slot now and then: each free reaches its producer, the count is exact, restores work between Zig allocators, what is accepted is what ozz uses, the contract is refined |
| `seam_cpp_uncounted` | *violates* ForwardsToProducer | blocks made while a C++ host held the slot were not counted |
| `sampling` | TypeOK, CacheFollowsKeys, AssertionsHold, SampledKeysSurround | any sequence of samples, resizes, invalidations and recycled addresses gives what a fresh context gives |
| `builder` | TypeOK, ImportKeepsMotion, ChainIntact, BuiltWellFormed, RuntimeReadsBack, Termination | a glTF document is imported as it moves or refused for a reason; what a host authored or imported is refused or built; injection keeps the order and the per-track chains and comes to an end; what is stored reads back as it was computed, from memory and from an archive |
| `builder_rounded` | *violates* DistinctTimePoints | the two keys of an imported step at the end of an animation become one time point |
| `archive` | TypeOK, SavesReachReaders, StaysInStep, TestTells, FileLoadsWhole | with I/O failing anywhere, the file holds what was saved and what is loaded was saved, in order |
| `archive_sniffing` | *violates* SniffingKeepsPosition | a tag test at the end of a stream moves it and breaks the reader |
| `archive_version` | *violates* VersionMismatchRejected | a skeleton of an unknown version loads as an empty one, OK |
| `triggering` | TypeOK, BuiltSamplesAsAuthored, MotionRecombines, DeltasGiveBack, EdgesTellTheTrack, CallsReturn | a built track gives at every ratio what the raw one does; motion and additive animations recombine to what they were made of; exact edges, forward and backward, over several loops and at loop ends; a copied storage is refused until it is run again |
| `options` | TypeOK, ReferencesAgree, TableInOrder, ParseHasNoMemory | a reference count is the number of holders, however options are shared and dropped; tables stay sorted and unambiguous; a parse owes nothing to earlier ones |
| `character` | TypeOK, SkeletonsServe, NothingLeaks, ModelsFollow, DecimatedNear, BlendIsAverage, WritesInside, BuildsKeepContract, FormsAgree | a skeleton authored or imported in any order keeps its hierarchy, along which an optimizer finds the bounds of each joint; every traversal and partial update visits the joints it is to; failing callbacks and allocations leak nothing; what is left of a reduced track stays near the keys that go, and blended joints are averages; every build and form of the maths they compute with is the same function, and so is skinning, written in them |
| `triggering_far` | *violates* CallsReturn | far from zero the loop counter stops advancing |

A violation run checks one statement of the repository that the code does not keep; see
[below](#where-the-code-and-its-docs-part).

### Bounds

- **Seam**: two threads, three blocks, one C host, one malformed struct, two Zig allocators (two are needed for the
  bridge to be re-pointed), `WordMax = 7` for `SIZE_MAX` so that an underflow would show. Threads and blocks are
  symmetric.
- **Sampling**: `SoaWidth = 2` for 4 and `FlagBits = 2` for 8, so that three SoA blocks have a partial last flag byte;
  two addresses and two animations of different sizes, one with iframes and one without, so that reuse, recycling and
  both seek paths occur; two of the three channels, which the code treats in the same way one after the other; ratios
  from below 0 to beyond the end.
- **Builder**: `MaxPreviousOffset = 8` for 65535; two of the three channels; up to five joints (`MaxJoints`; with `SoaWidth = 4`, two blocks)
  and runs of dense keys against sparse ones, so that several injections happen, also on filler tracks; times up to 32, of which injected
  ones are halves. `ByteBase = 4` makes bytes of two bits: 15 time points at most, so that both widths of indices and the build
  that fails for too many occur, and iframe entries of one to three bytes. Animations in `Drafts` get two edits (`MaxEdits`) with
  times and durations that validation has to refuse. Documents have four nodes, a root with two children and another root, two of them with the
  same name and one with none; seven sets of skins, whose roots are the scene's, one node, apart or below each other in either order; 22 curves, one of an unknown interpolation,
  of up to three keys, with keys one unit apart, at zero, off both ends, twice at the same time, in disorder, missing values or times;
  spline samples that do and do not fall on keys (`Periods`). A duration of 64 against `Full = 32` ratios makes two times one ratio;
  `BuiltWellFormed` asks for streams whose ratios are apart (`RatiosApart`), and the violation run shows one whose are not. One unit of time stands for the distance of neighbouring floats
  (`NextToZero`). `MaxKeys = 64` is never reached in the run: if it were, the build
  would be stuck and `Termination` fail.
- **Archives**: `Base` for 256 (values are two digits), short tags, at most `MaxItems` items of every kind; three types, of
  which one (the clip) has a shorter tag, because a test reads as many bytes as the *tested* tag has.
- **User tracks**: a loop of four grid points; keys are pushed in any order at ratios from one below 0 to one above 1. Explored are seven float tracks
  (empty, one key, ramps with a seam, steps, touching a threshold from either side, keys off the ends, unordered keys) with what comes before
  them, and any tracks of up to three keys at the ends and one grid point off the first one: floats of two values in any order, quaternions of four in order, one
  rotation with both signs among them and one half a turn from another, so that signs have to be carried on from key to key, over a half turn, too. Samples are taken at every half of a grid point, off both ends too.
- **Triggering**: the seven tracks, and ranges from -10 to 8 that start, end or both on loop ends. A second
  storage, `b`, is explored for two of the tracks and the ranges between three ratios (the constraint `OneOrFew`): what a
  copy can do wrong depends on the places involved, not on the length of the range.
  `Precision = 6` rounds nothing in these ranges; the violation run uses 3.
- **Motion and additive animations**: ten clips (no joint, two joints, no keys, one key with a negated rotation, half a turn on a path of three keys, a sway that tilts and
  turns, translations and rotations keyed at different times, keys out of order, times that become one ratio, no duration) and two rest poses that fit
  one joint or two; for position and rotation each, every reference, baked or not, looped or not (looped only what is baked), and two or three sets of
  components. Rotations are composed of quarter turns, for which Euler angles and rotated vectors are exact.
- **Options**: a Boolean option and a required integer of hosts, two parsers (symmetric), a static option that refuses a value and one
  that clashes with the built-in `version`; `Slots = 4`, two of which the built-in options take, so that a table can be full;
  `IntRange = 4`, so that integers wrap; six command lines with a negated name, `--`, an empty argument, a repeated option, a
  refused value and help alone or not. The global parser and hosts' parsers share no state and are explored one at a time (`OneSide`).
- **Character**: `KMaxJoints = 4`, every forest of up to four joints in every order of insertion; poses for skeletons of up to three joints
  with `SoaWidth = 2`, so that the last block is partial; `MaxTo = 3` reaches beyond the last joint. Tracks of up to five keys (four with
  steps) with values 0, 1, 3, 5 and `Tolerance = 2`, so that keys are near and far from lines. Two lanes, two layers and one additive layer:
  what is accumulated differs between the first, a further, a full and a partial one. Components that share no state
  are not interleaved (the maths are called where nothing else is alive), a callback does nothing but fill what it was lent, and a failed allocation is a call that changes nothing.
- **Maths**: `Prime = 239`, so that products of the samples wrap around and half of the residues have roots. Vectors have lanes
  that all differ; those that are normalized have exact lengths, 0 among them, and a tail beyond the lanes that count. Rotations are the 24 turns of a cube,
  scaled by factors that are negative or zero on one axis or two, and unit quaternions with every lane in use; for `ToQuaternion` and `ToAffine` this reaches
  every branch. Halves are those at ties, at the least float, at overflow, infinity and NaN. The lanes of a structure of arrays hold different arguments, of which
  some are not normalizable or invertible.
  Skinning jobs have one to three vertices of one, two, three, four or six joints, so that every preparation is taken with both kinds of loads; attributes are
  interleaved with weights and replaced in place, or lie apart, each ending where the next starts or memory ends.

### Fairness

Safety runs need none. `AnimationBuilder` has `WF(Sorting)`: the build is one call on one thread, with no step that waits, and its
only loop that is not bounded by its input is the one that injects keys; nothing makes a host start a build.
`RawAnimationTools` has `WF(Search)` in `TracksSpec`: a call of `operator++`, once entered, goes on by itself; nothing makes the host ask for
the next edge. No other module claims liveness.

## Proofs

`AllocatorSeamProofs` (any number of threads, blocks and allocators):

- `TypeCorrect`: `Spec => []TypeOK`, from `TypeInv`, which adds that a thread inside the adapter has a block.
- `CounterCorrect`, `ProducerCorrect`, `RestoreCorrect`, under `CppHostCareful` (the run
  `seam_cpp_uncounted` shows the theorem fails without it). The inductive invariant `IInv` strengthens the two
  invariants by: `BridgeBacked` (the bridge is installed, or kept in a saved struct, only once `installed` holds a
  Zig allocator, and a saved struct still means what it meant unless a Zig install came since) and `OneHand` (a block is worked on by one thread at a time and is not owned meanwhile).
  Without `OneHand` a count could be given twice for one block; without `BridgeBacked` a free could be routed
  nowhere. `ZeroMeansNone` is where counter and routing meet: an install is accepted with `live = 0` only when
  nothing is owned, and `Quiescent` then means nothing is outstanding.
- `AcceptedCorrect`: for any C++ host, careful or not, what is accepted is what ozz allocates through.
- `SeamImplementsContract`: under the same assumption every step is a step of `AllocatorContract` or a stutter.

`SamplingContextProofs` (any well-formed streams, any number of tracks, channels and addresses):

- `CacheCorrect`: `CacheInv` is the type invariant, `CacheFollowsKeys` and `InUse` (during a sample the context fits the
  animation, and the channels seeked so far are in use). Each of `ReadFollows`, `RewindFollows`, `SeekFollows` is one way to move the cache; `Rewind` needs that
  keys are `Linked` to give back exactly what was read.
- `AssertionsCorrect`: the asserts of `sampling_job.cc` hold. `RewindStops` shows that a rewind stops before the opening
  keys, because those are needed at ratio 0; `FlagsInRange` that no stray flag is acted upon.
- `SamplesCorrect`: every sample interpolates the surrounding keys of *this* animation. `HotInv` adds to the cache
  invariant that decompressed keys are the cache's own unless flagged (`HotFollows`) and what each channel has done so far
  (`Progress`). `SettledSurrounds` is the core: where neither reading on nor giving back is due, the entries of all tracks
  surround the ratio. It is what the array order (`Ordered`) is for.

`OptionsProofs` (any options, names, parsers and command lines that satisfy `OptionsAssumption` and `NamesAssumption`):

- `OptionsTypeCorrect`, `ReferencesCorrect`, `TablesCorrect` from one invariant: the three properties together, and that a
  parser that is gone lists nothing. They need each other: a count is right because the two lists agree, these agree
  because a table has no option twice, and that is kept by an insertion that finds the one place where the table stays sorted.
- `ParsesHaveNoMemory`: what a parse answers, which options it leaves parsed and with which values is what the arguments say, read there without a loop.
  The loop is a function over the number of arguments seen (`After`); that it agrees with the reading is shown for the least number of arguments at which it
  would not. `OwnBuiltins` is what the tables need besides: of the built-in options a table lists its own only. `ArgumentsAssumption` says that command
  lines are sequences.

`SkeletonProofs` (any flat list of joints in which parents come first, as `zozzRawSkeletonAddJoint` makes them):

- `BuiltSkeletonsAreGood`, `FlattenKeepsHierarchies`: what is built or flattened is the same hierarchy, depth first. `WalksVisitSubtrees`: a depth-first walk from a
  joint visits what is below it; `BreadthFirstVisitsAll`: every joint once, after its parent.
- The definitions recur over joints and the sequences of their children. That such a recursion has a value at all is `RecursionEnds`, from the least joint
  at which it would not. What the value is, is shown child by child: the list of a joint and the subtrees of some of its children is
  `Walked` (breadth first: the list of what is below them, `Leveled`), and the next child keeps it so. `SubtreeIsRange` is the core: depth first, the joints from one
  up to the first that is not below it are exactly its subtree.

`CharacterProofs` (any number of joints, any SoA width; any sequence of calls, callbacks and failures; any layers, weights and threshold; any track and tolerance):

- `ImportsLeakNothing`: `OwnersKnown` says for each import under way what is allocated beyond what the host has.
- `CharacterTypeCorrect`: what is held in handles is allocated, and a pose and a blend are of the skeleton that is alive (`HandlesMeanWhatTheyAre`).
- `SkeletonsServeTheJobs`, from `JointsKnown`: what is lent to a callback and what is added lists parents first, and a runtime skeleton is what its joints build. The rest is `SkeletonProofs`, and
  `BoundsAreOfSubtrees` for any hierarchy and animation: after the last `k` joints have told their parents, each holds the bounds of itself and of what is below those
  of its children that have (`Heard`), and one that tells its parent has heard all of its own (`BoundsGoUp`).
- `PartialUpdatesSuffice`, `UpdatesStayInside` for a pose alone, `PosesFollow`, `PosesWriteInside` while skeletons are built, posed and destroyed: `PoseInv` says where
  the loop is: it has written what is to be covered before `i`, all of it below `from`, and the block at hand is that of joint `i`. By `SubtreeIsRange` it
  may stop at the first joint that is not below `from`.
- `BlendsAreAverages`: `BlendInv` says what is accumulated after so many layers: for each joint the sums over those layers (`Summed`, by `SumTo`), wherever full and partial ones
  were accumulated, and after normalization their average (`Averaged`). `TurnedDoesNotCancel`: a rotation is put on the near side of what is there before
  it is added, so that the sum is never zero.
- `DecimationStaysNear`, from `OptimizerInv`, in three parts:
  - While segments are split (`Splitting`), the stack holds, each once, pairs of neighbours among the included keys, and every pair of neighbours that is not on it
    needs no key between them (`Candidate` is empty). That is why no key is looked at twice: a new key parts one gap only (`OneGap`). With the
    stack empty every dropped key is within the tolerance of the line it is resampled from.
  - Of the ends that are trimmed (`Trimming`): where a last key goes, the keys before it that were interpolated towards it are at the value of the key
    before, which is the weighted mean of two values a tolerance apart (`LineToConstant`), and those after it one tolerance further.
  - The bound was three tolerances in an earlier state of `DecimatedNear`, which TLC confirmed for tracks of five keys. It is not inductive, and not true: of
    a track whose values drift by a tolerance over gaps that grow (8, 64, 512, ...), key after key is trimmed, and each adds its own.

`ArchiveProofs` (any items, types, tags, versions and number base; host streams may fail at any byte):

- `TypeCorrect`, and `SavesAreWritten` from `Written`: the file is the image of what was saved, and beyond it at most the beginning of one more
  item (`FileHolds`), however often writing stopped.
- `ReadersGetWhatWasSaved`, `ReadersStayInStep`, `TestsTell`, `FilesLoadWhole` from `InStep`: a reader nothing failed is where the image of what it has taken
  ends and reads in the order of the file (`Placed`), so what it takes next is what was saved next. The lemmas about the operators carry it: what is
  encoded in either byte order is parsed to itself, a tag is told from every other, and a read across the end of the file never looks like a whole one.
- Those four have `SameRelease` as a hypothesis, that objects are of versions the reader's release loads; without it the run `archive_version` is
  a counterexample. `FormatAssumption` says that each tag ends with the one zero byte it has, as C strings do, `ArchiveAssumption` that lengths and values
  fit their two digits, and `PlainAssumption` that hosts save no plain data that starts like a tag, which `TestTag` could not tell from one.

`TracksProofs` (any keys, clips and poses; any grid of ratios):

- `TracksSampleAsAuthored`: the two samplers look for keys in different ways (the first key behind the ratio, the first at or behind it), so at a ratio
  that is a key's they interpolate on different sides of it. `SampleCases` is the core: at every ratio either both are at one key (`BothStay`: the key itself, an end of
  a stretch, or a stretch between a key and its copy at an end), or both are at one place between the same two keys (`BothMove`). What is a quaternion is compared
  as a rotation: signs are as `FixupTurns` says, so the runtime sampler, which does not look for the shortest path, is on it (`ShortWayTurns`). Between two rotations half a turn apart there are two
  shortest paths, and it is on the same one where the built track keeps the sign of the key it starts at (`OnePath`, `SignsKept`, `PathsKept`). `RawIsKnown` is the inductive invariant: keys of the kind, and a track only of valid ones.
- `MotionsRecombine`, from `MotionIsKnown`: what the last call made is what `Extracted` says of a clip that was accepted.
  - *At a key of the motion* the runtime sampler gives that key, whatever keys the builder added at the ends and on steps (`JobAtKey`, `BuiltAtKey`), a rotation up to
    its length and sign (`TurnsAtKey`). Translations are keyed at other times than rotations, and there the built track turns as the raw one does (`BuiltRotations`).
  - *Turned back and turned*, a vector is as it was (`TurnedBack`), and so is a rotation (`TurnedByMotion`). The extractor turns translations back by the motion after it was looped, as a
    host will turn them by the looped track. Looping makes the last key what the first is (`LoopedRotations`, `LoopedPositions`).
  - *Hypothesis.* `MotionIsExact`: integers can tell the motion. Its keys are rotations, before and after it is looped: their angles are among those for which `ToEuler` and
    `FromEuler` are exact. Where it is baked, vectors that it turns are whole (`TurnsWhole`) and it is on `OnePath` between its keys. The run `triggering` evaluates this for all
    its clips and settings (`MCMotionIsExact`). Of other clips, for which the code has floats, the model says nothing.
- `DeltasRecombine`: `ThereAndBack` and `BackAndThere` are the identities of quaternion products that make the two sides of `MakeDelta` and `AddPass` cancel. They are
  proved of eight integers (`ThereAndBackInNumbers`). A rotation that the job turns to the short side comes back with the other sign (`Along`). `ToolsAssumption` types clips and poses, and has the three references of `MotionExtractor::Reference`.
- `EdgesAreTold`, from `IteratorsTell`: what a host took of an iterator that was run is a beginning of the crossings of its query, those among the keys the search has passed (`HasTold`,
  `OnLoop`), and one that ended has told them all. This is so of copies, too, and of places that a host may not ask before they are run again.
  - *What the crossings are.* The keys of all loops are one line (`LoopOf`, `KeyOfLoop`). The two ratios of a query cut it, and the crossings of the query are those between the cuts (`EndsSplit`).
    On the line the track is on or off behind each key, every crossing changes that and nothing else does, so a flag that follows them is right (`ChangesAlternate`, `CrossingsTell`):
    of these the search is not a part.
  - *That the search finds them.* At a key it yields exactly when there is a crossing of the query (`KeptIsBetween`), skips the rest of a loop only when no crossing of
    the query is left in it (`NothingLeft`), and stops when none is left at all (`ExhaustedTellsAll`).
  - *Hypothesis.* `HeadsAreExact`: floats tell the grid points in the loops about the ratios of a query, ratio plus two below 2^24 grid points. Beyond that `triggering_far` is a
    counterexample even to calls that return. `TrackAssumption` has a grid of floats: `Unit` is a power of two.
- `TriggeringTypeCorrect`, from `IteratorsAreTyped` and `KeysAreTyped`: it has no such hypothesis. What a whole number of loops is rounded to is one again (`RoundedLoops`): the spacing of floats
  divides a loop or is some loops (`RoundedTo`, `PowersAdd`).

`BuilderProofs` (any animations, documents and number of keys; any bound on offsets that leaves room for a key of every track):

- `BuilderTypeCorrect`, `ChainsStayIntact` from `IInv`. `Serves` says what the keys of a channel are from the sort on, however many are injected: in order, each
  one but the first of its track naming the one before it, with a key at each end of every track and at every time that was authored. `Linking` says that
  `previouses` holds the last two keys of each track among those seen. `CutServes` is the core: what an injection does to the list. It needs two facts. `LinkedBack`: the
  last key of a track before place `i` is the one the key at `i` names, although keys are ordered by the *previous* key's time. `SecondIsNear`: there is always a
  segment to cut, which the code asserts ("valid penultimate key", `animation_builder.cc:150`), because the first two keys of all tracks come first and are as many as offsets reach over.
  `BuilderAssumption` has the bound on tracks from `Skeleton::kMaxJoints`, which `RawAnimation::Validate` tests (`raw_animation.cc:70`).
- An imported animation is one that can be authored (`ImportsAreRaw`), whatever the document: its curves are cut into keys with times (`TracksHaveTimes`), and its skeleton lists
  parents before their children, so that building it twice over renumbers joints from 0 (`JointsAreNumbered`). The nodes of a document form trees (`IsDocument`, an assumption about
  the parser's result): a node and the subtrees of some of its children are in a list once each, after their parents (`Hung`), and the next child keeps it so; children are deeper than
  their parents, which is why `ImportNode`'s recursion ends (`ImportedExists`).
- `BuildsAreWellFormed`: what is compressed is `WellFormed`, which is exactly what `SamplingContextProofs` assumes. `BuiltFrom` says that the list was not changed since it was sorted.
  An opening key's place is found by counting those before it (`OpeningKeys`), iframes take for each track the last key before a time (`FramesAre`).
- `BuiltStreamsServe`: the same without an injection, of any valid tracks; the animations of the run `sampling` are made this way.
- `RuntimesReadBack`: what is stored is read back as it was compressed. `Fitting` is the inductive invariant: keys that were looked at are near the one before in their track
  (`Near`), and what is written was compressed from them (`WrittenFrom`). From there it is about operators, in five parts:
  - *Group varint*. Four digits say a number below `ByteBase^4` (`ValueOfDigits`), the prefix says the four lengths, and bytes behind a value are masked off, so a group reads back
    whatever follows it (`GroupReadsBack`), and so does a stream, group after group (`StreamReadsBack`). The encoder stores four bytes for the last value too, and these are inside
    the buffer (`EncodedFits`). `StorageAssumption` has SoA blocks of whole groups of four.
  - *Times*. The index of a time is how many of the table are before it, and the table is sorted, so that it is found there (`TimesAreFound`); up to `MaxTimePoints` an index fits its byte or
    two (`RatiosReadBack`).
  - *Entries*. They are indices of keys and must fit four bytes. `KeysAreFew` counts: a track has one key at each time, the times are at most `MaxTimePoints` and the tracks `kMaxJoints`.
    So the builder's own test of key counts (`animation_builder.cc:522-524`) never decides, which is as well: it has `&&` between the channels, where each must fit.
  - *Archives*. A concatenation is cut into its parts by sums of their lengths (`FlattenSlices`); what is loaded has the counts that were saved (`LoadsAsSaved`).
  - *The buffer*. Spans are served by falling alignment, and each kind is a multiple of its own, so each starts aligned and the last one ends the buffer (`StoredIsAllocated`).
- All but `ImportsAreRaw` and `BuiltStreamsServe` have one hypothesis, `CutsAreWide`: where a segment is cut, there is a time between its ends. The code halves floats and does not test for it; of neighbouring floats the middle is one of them, and two keys of a track would be at one time.

Not proved, only model-checked: `ImportKeepsMotion`. Out of the
prover's reach and left to TLC: liveness (`Termination`, `CallsReturn`), anything about ENABLED, and what folds and recursive
functions compute for every input (what an imported document samples to), which needs induction over data. Where the proofs above are about a recursion, it counts:
steps of a loop, children, joints, bytes and spans; the argument is then the least count that would fail (`LeastNatural`).

## Where the code and its docs part

Each is a run that TLC finds violated; the quotations are in `PROJECT.json`.

1. `seam_cpp_uncounted`: after a C++ host has had ozz's slot, `zozzSetAllocator` retakes it although blocks that host's
   allocator made are out; their frees go elsewhere (`zozz_core.cpp:75-77` states the invariant).
2. `archive_sniffing`: testing a tag with fewer bytes left than it has latches the failure, and the rewind is
   refused (`zozz_archive.h:241-243`).
3. `archive_version`: a skeleton of an unknown version is answered OK, empty (`zozz_internal.h:327`).
4. `triggering_far`: from 2^24 on, `outer_ += 1.f` is the identity and the call does not return (`zozz_track.h:279`).
   Reproduced with the C++ code.
5. `builder_rounded`: times are made distinct before they are multiplied by the inverse of the duration, and neighbouring floats, which the
   importer makes of every step, may become the same ratio (`zozz_animation.h:45`). Where those are the last two keys of a track, sampling
   at ratio 1 divides 0 by 0: with a duration of 29/30 s, as with about one in twenty whole numbers of frames, the joint is NaN. Reproduced
   with the C++ code.

Smaller ones have no run:

- Neighbouring times with the same ratio make motion extraction refuse a valid animation, for which `zozz_optimizer.h:247` gives other reasons
  only (reproduced), and `zozzAnimationTimepoints` copies ratios out, which `zozz_animation.h:48` says are seconds.
- Triggering: when a crossing is rejected, the search of a loop stops if its key, rounded, is at or past `to` (`track_triggering_job.cc:145`); a
  crossing at the loop's end still belongs to the range when `to` is that end. Going forward it is lost, going backward not (115-120 speaks of
  consistency of the two). Reproduced with the C++ code; it takes a key that is rounded up to the end of its loop, with three bits the track 0, 3, 1 at
  0, 3, 4 of 4 and ranges from 8 on. The run `triggering` and the proof of `EdgesAreTold` stay where nothing is rounded.
- `zozzSamplingContextCreate` and `Resize` look for a failed allocation in `max_tracks()`, which is raised before allocating and never
  lowered, so it is not seen (`zozz_sampling.h:39-41` calls the answer best-effort).
- The struct `getAllocator` returns for a Zig allocator names the variable `installed`, not the allocator in it, so passing
  it back after a *Zig* temporary succeeds and leaves that one in use, which is why `RestoreReturns` has its proviso
  (`memory.zig:136-139` speaks of a non-Zig temporary).
- The assert at `animation_builder.cc:230` excludes a distance of exactly `kMaxPreviousOffset`, which the loop at line 149 keeps and the
  16 bits of the format can hold: a debug build stops where a release build is right.
- `animation.cc:139-140` says iframe entries must not be at the end of the buffer, since decoding reads up to three bytes further; without a
  name, those of the scales are.
- Options: with a Boolean `foo` and an option `nofoo` registered, `--nofoo --nofoo` succeeds, the second one setting `foo`, although a
  repeated option is fatal (`options.cc:465`); integers out of range wrap.
- Optimizers: a result may be any number of tolerances off once constant ends are trimmed, one more for each key that is (`animation_optimizer.h:78` and
  `zozz_rawtrack.h:132` say within the tolerance). A linear key after a step key is compared with a line the track does not follow and may be dropped
  with any error; `DecimatedNear` leaves such keys out (`AfterStep`).
- glTF: of two skins' roots one may lie below the other, and the joints in between are then imported twice, although the roots are called
  unique and nodes listed several times removed (`gltf2ozz.cc:518`, `:600`); `JointsAreNodes` asks for `RootsApart`. Keys at equal times are
  said to be thinned out (`gltf2ozz.cc:326`, `:340`) but make a STEP channel fail, because its steps then end before they start. Times that are not
  floats are logged as an error, and the import succeeds without the channel. The last sample of a spline may be rounded to after the last key (its
  time is a difference added back), which the assert at `gltf2ozz.cc:286` excludes.
- Motion extraction: the turn that closes a loop is not put on the near side of the identity before `NLerp`, which asks for it (`quaternion.h:307`): a
  turn of 20 degrees across 180 degrees of yaw is closed by 340 the other way, and where the first and the last rotation are equal with opposite signs,
  a turn appears in between (`motion_extractor.cc:206-208`; `motion_extractor.h:76-78` says the difference is distributed). `ZozzMotionSettings`
  says X, Y, Z of a rotation are pitch, yaw and roll *about* X, Y, Z; pitch is taken about Z and roll about X. Both reproduced with the C++ code.
- Maths, where builds and the header differ (`Departures` in `MathsForms` takes the first three out of the comparison): `HAdd4` of floats keeps y, z and w by
  `simd_math.h:318-324`; the sums are left there by SSE, copies of x by the reference. `NormalizeSafe2` and `3` and their estimates return all lanes of `_safe` on
  SSE, only those they normalize in the reference. `AreAllTrue` and its relatives look at sign bits on SSE and at any bit in the reference. `FromFloatRound`
  rounds halves to even on SSE, up in the reference. `RcpEstXNR` and `RSqrtEstXNR` lack the step the reference's other `NR` estimates have. `Clamp` of integers
  with crossed limits differs, as do `Min0` and `Max0` of NaN. `Transpose4x4` of the reference may not write where it reads. The header declares a `Min(_v)`
  that neither defines. `FloatToHalf` rounds ties up. `IsOrthogonal` does not see that the first two columns are askew, as it takes their cross product.
- Skinning: `Validate` asks nothing of strides. Vertices that share an attribute (a stride shorter than it) pass it, and all but the last are loaded with
  a lane more than the span may hold, which the comment at `skinning_job.cc:215-219` excludes; samples have strides of at least an element. The header
  asks for arrays of `vertex_count` strides (`skinning_job.h:152`), validation for one element less of padding.
- Maths, where forms differ: `Quaternion::FromEuler` turns by x about Y, by y about Z, by z about X, `Float4x4::FromEuler` about Y, X, Z in that order, with the same
  words in both headers; `ToAxisAngle` of no rotation gives an angle of 0 in SIMD and of 2 acos(w) in scalars (`Told`).
- `zozz_offline.cpp:57-59` says validation rejects hierarchies beyond a depth; `RawSkeleton::Validate` counts joints only.

## Assumptions

- Hosts keep the ABI's contract: no installing while another thread is inside zozz; handles are used by one thread at
  a time; a block is freed once; after an animation's address is reused the context is invalidated
  (`zozz_sampling.h`, `zozzSamplingContextInvalidate`) before it samples there again.
- A C++ host that takes ozz's slot does so with nothing outstanding, and gives it back likewise (`CppHostCareful`).
- A reading host asks for plain integers and binary data where they were written (they carry no tag); it may test for and load
  tagged types anywhere.
- A glTF document has nodes that form trees, the animation that is asked for, no two channels for one path of a node and splines of at
  least two keys, all of which glTF requires; the animation is imported with a skeleton of the same document.
- Streams have the form `WellFormed`; `BuiltWellFormed` checks it of the builder.
- Triggering: thresholds are crossed at grid points, so that interpolation is exact except for the rounding under study.

## What is not modelled

- Quantisation of key values and their interpolation at runtime: floating point on SIMD registers.
- glTF: the parser, transforms given as matrices, quaternions (a value is one number), the rounding of spline samples.
- The fields of objects in archives beyond a sequence of values, except for animations; user data in animations; logging.
- The raw skeleton and raw animation archives; versions are checked, migrations are not.
- Flushing in `fclose`, and everything else below `fwrite`/`fread`.
- Options: what help and version print, usage texts, how numbers and truth words are spelled.
- Rotations in user tracks and extraction other than by quarter turns; quaternions of length zero, which the builder makes the identity;
  optimizing tracks of other values than floats.
- IK, motion blending: single calls of arithmetic without state. Jobs are not written in the functions of the maths: blending and local-to-model
  have numbers and factors of their own, which tell their steps apart; only skinning is. Pointers to no matrices with a count of them, negative counts of vertices.
- Maths: rounding, how exact estimates are, overflow and NaN; what FMA and AVX change, which are roundings and encodings; the undefined shifts and
  sums of the reference's estimates and `ShiftL` (`UPSTREAM.md:167-184`). `SLerp`, `ToEuler` but for quarter turns (`Quaternions`), boxes, rectangles, the archives of these types. `math.zig`, a
  port of the scalar and SoA forms to Zig, which would be one more build to compare.
- Command-line tools (`import2ozz*.cc`), which `build.zig` does not compile; vendored parsers, build and CI.

## Plan

1. `math.zig` as a further build of the maths.
2. Motion blending and two-bone IK where their weights and early returns decide, and optimizing tracks of vectors and quaternions.
