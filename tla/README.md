# A TLA+ model of oneseismic-api

oneseismic-api is an HTTP server (Go, gin) that cuts slices, fences and
attribute maps out of seismic cubes in a blob store. The cutting is done by a
C++ core on top of OpenVDS, called through cgo. This directory holds TLA+
modules that model the parts of it where order, concurrency or an off-by-one
decides about correctness, the TLC configurations that check them, and proofs
checked by TLAPS. Paths below are relative to the root of the repository.

## 1. Inventory

| Part | Source | State and operations | What is hard |
|---|---|---|---|
| attribute pool | `internal/core/core_attributes.go`, `capi.cpp`, `cppapi_data.cpp` | channels `guard` and `errs`, one output buffer, one sub-volume; start, fetch, compute, send, release, collect, return | no lock, no join, objects freed by `defer`, failing goroutines |
| sub-volume layout | `internal/core/subvolume.cpp`, `subvolume.hpp`, `axis.cpp` | offsets and stored margins; one segment per cell | ends of the trace, tolerance, a margin that is not stored |
| data requests | `api/handlers/endpoint.go`, `request.go`, `internal/core/connection.go`, `core.go`, `datahandle.cpp` | cache key, hit, authorization, one or two handles, answer | expiring tokens, overwritten VDS, failures between two opens |
| cache | `internal/cache/cache.go` | Get and Set on ristretto, or NoCache | delayed and dropped Sets, equal keys for different questions |
| middleware | `api/middleware`, `internal/metrics/metrics.go`, `cmd/query/main.go` | gin contexts from a pool, error list, status, a goroutine per sample | contexts are reused, panics skip middleware |
| slice | `api/handlers/slice.go`, `core_slice.go`, `subcube.cpp`, `direction.cpp` | a box of voxels, made twice | order of bounds, widths of integers, units |
| fence | `api/handlers/fence.go`, `core_fence.go`, `cppapi_data.cpp` | points to traces, filled traces | points at the edge of the survey, traces of two lengths |
| attributes between surfaces | `core_attributes.go`, `cppapi_data.cpp`, `regularsurface.cpp` | aligned surface, two flags, top and bottom | turned grids, crossing and touching surfaces, cells without counterpart |
| two cubes | `datahandle.cpp`, `metadatahandle.cpp`, `coordinate_transformer.hpp` | intersection of axes, translated voxels | which cube begins first, order of dimensions, stepsizes |
| metadata | `cppapi_metadata.cpp`, `boundingbox.cpp` | axes and corners of a cube or a slice | two sources for one place |
| attribute computations | `attribute.cpp` | no state | a loop for each attribute |
| start-up, logging, health, documentation pages, `json.hpp` | `cmd/query/main.go` and others | no state that later steps depend on | nothing a model would reach |

A request passes the middleware (RequestPipeline). Its handler looks the answer
up or opens the cubes (DataRequest; Cubes, for what is in the handle), and then
executes: metadata (Cubes), a slice (Slice), a fence (Fence), or an attribute.
An attribute request makes a top and a bottom surface (RegularSurface,
AlignSurfaces), lays out a sub-volume between them (SubVolume) and reduces its
segments (Attributes), on a pool of goroutines (AttributePool).

Two chains are composed: AttributeRequest runs AlignSurfaces, SubVolume and
Attributes on shared variables, and Fence runs on the handle of Cubes. Between
the others there is no shared variable, and each takes what it needs of its
neighbours as an arbitrary choice (a handler fails, a read fails, a cell is
outside). `PROJECT.json` lists the components with their status, and the hazards
at their lines.

## 2. Modules

**AttributePool** is `getAttributes` with its goroutines. `Main` is the main
goroutine: `SubvolumeNew`, `RejectNoAttributes`, `Prepare`, `StartGoroutine` (one
turn of the loop; blocks while `guard` is full), `Collect` (`<-errs`), `Return`
(with the deferred `subvolume_free`), `CloseSurfaces`, `CloseHandle`. `Goroutine(g)`
is one chunk: `EnterAttribute`, `FetchSubvolume`, `CalcAttributes` (one position per
step), `SendError`, `ReleaseGuard`. A cell of the buffer is the zero of `make`,
the fill value, the value of an attribute at a position, or garbage computed
from samples that were never read. Calls into C++ may throw wherever the code can.

**AttributeMaps** is what the caller of the pool sees: one answer, all maps or an
error, that never changes. AttributePool implements it, with the result mapped
to `outcome` and the slices of the buffer to `maps`.

**RequestedResource** has the checks and the cache key of a request.
**DataRequest** runs requests concurrently: `ReadRequest`, `Lookup`, `Authorize`
(one HEAD per step), `OpenFails`, `UnsuitableVds`, `Open` (one VDS per step),
`ExecuteFails`, `Execute`, `Respond`, `RespondMetadata`. Its environment
applies, drops and evicts cache entries, revokes tokens and overwrites VDS. The
content of an answer is the question it answers and the versions it was read
from. `couldRead` and `atStart` are history variables.

**RequestPipeline** is the chain: `Accept`, `Block`, `Handle`, `StartMetrics`,
`ErrorHandler`, `Return`, and the metrics goroutine: `ReadPath`, `ReadVds`,
`ReadStatus`, `Observe` (both histograms) and `Count` (the counters, one per path
and storage account). What becomes of a request in its handler is its `kind`: a
rejected one fails before its VDS are set for the metrics, an unsuitable or a
failed one later. The list of VDS in a context is given by the request it is of,
and `VdsOf` has the accounts in that list.

**AttributeRequest** follows a request from its surfaces to its values.
`GetAttributesAlongSurface` begins with shifted copies (`toCdata` of
RegularSurface) and refuses negative windows; `GetAttributesBetweenSurfaces`
begins with two surfaces. `AlignSurfaces` is the loop of `align_surfaces` with
`have_crossed`, one cell per step (module AlignSurfaces: `AlignToFill`,
`AlignCell`, `EndAlignment`), and `ChooseTop` is what Go makes of the answer.
`MakeSubVolume` is `make_subvolume`, one cell per step (module SubVolume: `Skip`,
`Refuse`, `MakeSegment`, `Release`). `WriteFill`, `Reduce` and
`OutsideSpline` are `calc_attributes` for one cell, with arbitrary interpolated
samples and the attributes of module Attributes; `std::nth_element`, from which the median is
taken, leaves its elements in any order that the standard allows. Depths are integers in a unit
that divides the steps; rotations have rational sines and cosines, so that the
transformations of RegularSurface are exact.

**Cubes** is the data handle: `OpenCube` and `ReadAxis` for each cube,
`CompareSurveys`, `CombineAxis` (one dimension per step) and `MakeDouble` for two,
then `Metadata`, `ReadSubcube` (a slice, which it also describes, by four corners or by
the two ends of a line) or `ReadSamples`.
A value is the place it was read from, so that "the right values are combined"
can be said without values. **Fence** adds `GetFence`, `CheckPoint` (one point per
step) and `ReadTraces`.

**Slice** is `SliceRequest.execute`: `GetAxis`, `NewCSliceBounds`, `Constrain` and
`SetSlice` (once for the metadata, once for the data), `Describe`, `Validate`,
`Read`. `CInt` keeps `Width` bits of a number.

gin, ristretto, OpenVDS and the blob store are not part of the repository. They
are modelled by how the code uses them and marked external.

## 3. Runs

| Run | Shows | Bounds |
|---|---|---|
| pool | no use after free, no overlapping chunks, bounded concurrency, complete successes, no lost error, termination, refinement of AttributeMaps | a surface of 4 x 3: three chunks, two at a time |
| requests | data only with tokens that could read it; the answer fits the question; handles are closed after use; without a cache, and on `/metadata`, no answer is older than its request | two requests, two VDS, three tokens, nine inputs; one VDS is overwritten once |
| answered | every request is answered, also after a denied hit | two requests, four inputs |
| pipeline | exactly the reported failures carry an ErrorResponse; finished requests get into the histograms, under the status of their answer, and are counted once for each storage account | two requests with two VDS each, two contexts, two accounts of which one is shared |
| layout | surfaces are aligned with their closest points and refused exactly if they cross; they reach `make_subvolume` in order; segments hold their window, suffice for makima and stay on the trace; raw samples cover the resampled points; attributes agree | two cells; 2, 4, 5 or 6 samples; depths around the tolerance; six pairs of grids; segments of up to 4 samples |
| slice | promised voxels, same box in metadata and data, time and depth not confused | 3 x 2 x 3 voxels, up to two bounds, eight names, three vertical axes |
| cubes | two cubes are refused exactly as documented; the virtual cube has the common lines; reads and fences take the same place from both; metadata describes that place | 3 dimensions of 2 to 6 lines, in three orders; 45 relative positions, 13 unsuitable cubes; fences of up to two points |
| leak, panic, samples, wide_bound, fractional | disagreements, section 5 | |

Two goroutines at a time with a third one waiting is the least in which guard,
errs and the releases meet. Only one goroutine has to end before the last one
starts there, so `Termination` tells an unbuffered `errs` from the real one, but
not a capacity of one or more. Two requests are the least that share a
cache entry or a context; one of them names two VDS in one account, the other a
VDS in each. Short traces make every margin meet an end of the
trace. Two cells are the least on which surfaces cross, and the proofs of
section 4 cover all sizes. Two bounds are the least for "the last one takes precedence".

Limits that a reader should know:

- `FetchWithinTrace` does not hold for a trace of three samples: a segment that is
  too short is extended on the side of its preferred margin without a look at
  the trace (`subvolume.cpp:157-166`). The run leaves that size out, and the proof
  covers every other one. No document says what should happen, so it is no finding.
- `RawCoversResampled` is stated for cells in which no distance to the reference is
  rounded, that is within the tolerance of a multiple of the step of the request
  without being one. With such a distance it fails (section 5). Distances in steps of the trace
  may be anything.
- `CountedOncePerAccount` and `SampledAsAnswered` are about requests whose context goes to
  nobody else, before or after; samples shows what happens to the others. A rejected request
  is in no counter, but in the histograms (section 5). The increments of one
  request are a single step, since nothing reads the counters in between but a scrape.
- Annotations and stepsizes of Slice are whole numbers. The code also accepts fractional
  stepsizes, but a line number of a request is an int.
- `CreateDSHandle` checks the number of connections once more (`core.go:465-467`). That is
  left out of DataRequest: no other number passes `readConnectionParameters`.
- `SliceIsAsPromised` is checked with numbers that fit a C int.
  Beyond them a box can be turned around, since Go checks the order
  before `C.int` cuts the numbers. wide_bound shows the cut.
- `ClosestValueIsAligned` allows the fill value at a cell that is near the edge of the
  secondary grid, where a rectangle decides and not a distance.
- The cubes of the run cubes have whole stepsizes. fractional shows what happens
  with others. With a stepsize below 1 the code divides by 0 and converts the
  quotient to an int, which is undefined (`metadatahandle.cpp:200`); the model
  takes either end of the ints.
- Fences are read with nearest interpolation, in index and annotation
  coordinates. CDP coordinates and the other interpolations are done inside
  OpenVDS. A corner in the world is modelled by the pair of its lines; that
  `BoundingBox::annotation` cuts its lines to ints is left out.
- Numbers are exact where the code has floats.
- `OpenVDS::Close` always succeeds in the model.

Deadlock is not checked, because all these systems stop when their requests
are done; the liveness properties say that they do not stop earlier.

**Fairness.** Weak fairness of the main goroutine and of each goroutine in
AttributePool, of each request in DataRequest, and of each request and each
metrics goroutine in RequestPipeline: the Go scheduler runs what is runnable,
and a call to the store ends with data or an error. Nothing is assumed of the
environment: tokens need not be revoked and Sets need not be applied. In
RequestPipeline a request may wait for a context, which gin would
allocate; contexts come back, so the wait ends.

## 4. Proofs

`AttributePoolProofs` proves for surfaces of every shape, any number of attributes
and any cells without samples:

- `TypeCorrect`: `Spec => []TypeOK`
- `ObjectsOutliveGoroutines`: `Spec => []NoUseAfterFree`
- `ChunksAreDisjoint`: `Spec => []DisjointChunks`
- `ConcurrencyIsBounded`: `Spec => []BoundedConcurrency`

Assumptions: the surface has at least one row and one column (`ShapeAssumption`;
the core refuses an empty surface), and the inputs have their types
(`InputAssumption`).

None of the four is inductive. `getAttributes` joins no goroutine: it counts
answers. So the invariant `PoolInv` counts too: the goroutines that have sent
an answer are as many as the answers in `errs` plus those received, and those that
hold a token are as many as `guard` says (`AnswersAreCounted`). Goroutines are
started in the order of their numbers (`StartedInOrder`), so that after as many
answers as started goroutines nobody is left inside C; until then all
objects are alive (`ObjectsOfPhase`). Chunks are handed out from left to right and
end where the next one begins at the latest (`ChunksInOrder`). `PoolInit` and
`PoolStep` show that `PoolInv` holds at first and is kept by every action, and the
four theorems follow from it.

`AttributeRequestProofs` proves for surfaces and secondary grids of every size, all
values, fill values and windows:

- `SurfacesAreOrderedTheorem`: `Spec => []SurfacesAreOrdered`
- `CrossingIsRefusedTheorem`: `Spec => []CrossingIsRefused`
- `OrderIsInvariant`: `Spec => []OrderInv`
- `LayoutIsTyped`: `Spec => []TypeOK`
- `EmptyCellsAreSkipped`: `Spec => []EmptyExactlyIfSkipped`
- `SegmentsSufficeForMakima`: `Spec => []EnoughForMakima`
- `SegmentsHoldWindows`: `Spec => []SegmentHoldsWindow`
- `ResampledSegmentsFillWindows`: `Spec => []ResampledFillsWindow`
- `RawSegmentsCoverResampled`: `Spec => []RawCoversResampled`
- `FetchesStayWithinTrace`: `Spec => []FetchWithinTrace`, if no layout has exactly three
  samples (section 3)
- `ClosestValuesAreAligned`: `Spec => []ClosestValueIsAligned`

Assumptions: there is a cell (`SurfaceAssumption`); the trace has a positive step and the
tolerance a positive denominator (`StepAssumption`); a surface has as many values as its grid
has points, the step of a request is positive and a trace has at least two samples
(`RequestAssumption`); a grid has increments that are not 0, which gin requires
(`core.go:80-83`), and a cosine and a sine whose squares add up to 1
(`GridsAssumption`; exact fractions, see RegularSurface).

None of the first three is inductive alone: the loop knows of earlier cells only what its two flags say.
`AlignmentInv` ties the flags to the cells passed so far: a flag is set if some
cell was on that side, and only then, and both are never set unless the request
is refused. `OrderInv` adds that the surfaces a sub-volume is made of are ordered in every
cell that has all three values. `AlignmentInvStep` is the loop; `ChooseTopStep` needs
the point that when neither flag is set the surfaces touch in all cells they
share, so that either order will do. `OrderInv` is also an invariant of the run layout.

A segment is known to the later code only by two offsets and, where it is not the
preferred one, its top margin. `LayoutInv` says on top of `OrderInv` that the offsets of the
cells laid out so far are those of the margins `MakeSegment` chose for them, and
that these cells had passed the checks of `Refuse`. From there on it is arithmetic of one
cell: what the two roundings with a tolerance do to a distance, and how the margins
follow from it (`MarginsOfWindow`). Margins are never negative, which gives
`SegmentHoldsWindow`, and they are cut only at an end of the trace, beyond which no
point of a checked window lies; that is why the resampled points are covered.

`ClosestValuesAreAligned` needs no more of the loop than `AlignmentInv`, and that grids do not
change (`GridInv`). The rest is geometry: on the grid of the secondary
surface, where `from_cdp` takes a point, the squared distance to a point of
that grid is the sum of a square for the row and one for the column
(`DistanceOnGrid`; a rotation keeps distances). So two independent roundings find a closest
point (`RoundedIsNearest`, `ClosestCell`), also with negative increments.

`AttributeMapsProofs` goes on from `PoolInv`, under the same assumptions, and so does
the end of `AttributePoolProofs` with the first of these:

- `EveryErrorIsReported`: `Spec => []ErrorsAreReported`
- `EverySuccessIsComplete`: `Spec => []SuccessIsComplete`
- `PoolImplementsMaps`: `Spec => Abstract!Init /\ [][Abstract!Next]_(Abstract!vars)`, the
  refinement of AttributeMaps without its fairness

`ReportInv` follows an error on its way: it is its goroutine's until it is sent,
then in `errs`, then in `computeErrors`, and every error in either is of a goroutine.
With the counting of `PoolInv`, when as many answers as goroutines have been
received nothing is left in the channel (`AllAnswered`). `WrittenInv` says how far each
goroutine has written and that the chunks given out leave no gap. That a write
disturbs nobody rests on `CellsDiffer`: `a * hsize + i` names one attribute and
one position. The refinement then needs only that the result is given once
(`AnsweredOnce`): a returned map is equal to the wanted one before and after any step.

`DataRequestProofs` proves for any number of requests, tokens and blobs:

- `HandlesAreClosed`: `Spec => []HandlesClosedAfterUse`
- `AnswersAreOwn`: `Spec => []AnswersTheRequest`
- `UncachedAnswersAreFresh`: `Spec => []NoCacheNoStaleness`
- `AccessIsChecked`: `Spec => []ServedOnlyWithAccess`
- `TypesAreKept`: `Spec => []TypeOK`

Assumptions: a request has a sequence of addresses, and its fill value is not the
mark for a field that gob leaves out (`InputsAssumption`); there is a first version of
every VDS (`VersionAssumption`).

`ControlInv` says how far the loops over connections are at each point, and that
an accepted request has one or two addresses. `KeyInv` says that whatever
is under a key, or is on its way there, answers every request with that key; it needs
`KeysDetermineSubjects`, that no two requests of different meaning share a key.
`Access` counts the connections that have been checked so far, before a hit is
answered as well as while a VDS is read. `Fresh` says that what was read without a cache is
of versions no older than the request, and `NoCache` that a cache of size 0 stays empty.
The types follow from `ControlInv`, with two lemmas that all of these share: a step of a
request touches nothing of the store and of the cache but the Sets that are on
their way (`RequestIsInside`), and nothing of other requests (`OthersStay`).

`RequestPipelineProofs` proves, for any number of requests and contexts:

- `FailuresAreReported`: `Spec => []ReportedFailuresCarryErrorResponse`
- `TypesAreKept`: `Spec => []TypeOK`, in which every status is a documented one or 403
- `AccountsAreCountedOnce`: `Spec => []CountedOncePerAccount`
- `SamplesAreAsAnswered`: `Spec => []SampledAsAnswered`

Assumptions: a request names a list of VDS, each in an account (`VdsAssumption`), and the mark
for a value that is not there is no request (`NoneAssumption`).

`ChainInv` says that each request in the chain has a context of its own, which is
not in the pool, and what is in it at each point of the chain. The metrics
goroutines read contexts of others but write to none, so they cannot break it. `TypeInv`
adds to the types that a request in the chain has a context that was made for a request, so
that what it writes and what it returns is of the types of a response.

The last two are about what a goroutine has read in a context that may have changed
hands since. `UseInv` says that whatever a context holds is of a request that has used it,
and so is the path that a goroutine has read: a request that shares its context with
nobody is therefore counted by its own goroutine only.
`OwnInv` says what that goroutine has read so far: its own path, the VDS that its handler
has set, if any, and a status that is final. The status is the point of
`SamplesAreAsAnswered`: ErrorHandler may run before or after the goroutine reads it,
and `JsonStatus` changes it only for an error under status 200, with which no handler ends
(`HandledErrors`). `SamplesInv` carries this over to the samples. `MetricsInv` is
the three together with `CountedOncePerAccount`, and is inductive.

`SliceProofs` proves for axes of every length, spacing and unit, any number of bounds and
any width of `int`:

- `BoxStaysInCube`: `Spec => []TypeOK`, in which every box lies within the cube
- `NamedDomainsAreRespected`: `Spec => []NamedDomainIsRespected`
- `BoxesAreProper`: `Spec => []BoxIsProper`, if `NumbersFit`; for requests that are answered it follows from the
  next one, so no run checks it
- `SlicesAreAsPromised`: `Spec => []SliceIsAsPromised`, if `NumbersFit`

Assumptions: an axis has at least one line and a positive spacing (`AxesAssumption`),
and an `int` has a positive width (`WidthAssumption`). `NumbersFit` says that the numbers of the
requests are ints; without it the two are false, which wide_bound shows. `SliceInv`
says which checks a request has passed at each point, and that the box is the
whole cube cut by the bounds applied so far, each of which replaces the one before it
in its dimension. The box of the metadata and that of the data are each shown to be this
one, so that they agree.

`CubesProofs` and `FenceProofs` prove for cubes of any size, position, stepsize and order of
dimensions:

- `RefusalsAreAsDocumented`: `Spec => []RefusedExactlyAsDocumented`, if `WholeSteps(2)`
- `IntersectionsAreExact`: `Spec => []IntersectionIsExact`, if `WholeSteps(2)`
- `HandlesAreTyped`: `Spec => []TypeOK`, if `WholeSteps(2)`
- `CombinedLinesAreSame`: `Spec => []SameLinesAreCombined`, if `WholeSteps(2)`
- `CornersAreEnds`: `Spec => []CornersAreEndsOfAxes`, if `WholeSteps(2)`
- `FencesAreAsAsked`: `Spec => []FenceIsAsAsked`, if `WholeSteps(1)`

Assumptions: an int has room for 3 and for a negative number (`CubesAssumption`), a
request names one or two cubes with any list of axes (`RequestsAssumption`), and a fence is a
list of lists of numbers (`FencesAssumption`).
`WholeSteps(2)` says that the stepsizes of pairs of cubes are whole: `make_double_cube_axis`
cuts the stepsize to an int, and without the hypothesis the results are false, which
fractional shows. `HandleInv` follows a handle while it is opened: how many cubes and axes
have been read, that the surveys have been compared before axes are combined, and that the
combined axis of each dimension done so far is the overlap of the two. `ReadInv`
adds what a read has taken from each cube. The step from "the axes overlap" to "the
same lines are read" is in four lemmas: with a whole step the axis rebuilt from its
ends is the axis itself (`AxisOfWholeStep`), its lines are those that both cubes have
(`CombinedOverlap`), the test of the code finds axes with fewer than two common lines (`SameLinesAreDetected`), and
a voxel of the virtual cube is the same line in either cube (`VirtualAxis`).

For fences, `FenceInv` (with `HandleInv`: `FenceIsInvariant`) says what the loop over the points
has collected, which is the voxel of every point so far and where the traces without value begin; that
a refusal has a point outside; and that an answer is what `read_traces` makes of the collected
voxels. Two arguments turn this into `FenceIsAsAsked`. `inrange_with_margin` and the rounding of a
coordinate are computed in different ways, and agree: a point is in range exactly if
the line that it is rounded to is one of the handle (`PositionIsNearest`,
`LinesOfPlace`). And sample `s` of trace `p`, picked out of whole traces whose length and first
sample differ from cube to cube, is at the same depth and on the same lines in each
(`SampleIsOfVoxel`). `WholeSteps(1)` asks for whole stepsizes of single cubes, too: coordinates are
integers in the model, so that an index between two lines of a fractional stepsize would not be exact.

Only model-checked, with the reason:

- Liveness under fairness (`Termination`, `EveryRequestAnswered`,
  `FinishedRequestsAreSampled`, and with it the fairness of AttributeMaps): out of the
  prover's reach.
- `AttributesAgree`: sums, medians and extremes of a segment of any length are defined by
  folds, and need an induction over data that the prover cannot do.

All other invariants of the passing runs are proved, `FetchWithinTrace` for all traces but those of
three samples, two of Slice under `NumbersFit`, and those of Cubes and Fence under `WholeSteps`.

## 5. Disagreements

Shown by a run, and quoted in `PROJECT.json`:

- leak: a request that fails between `OpenVDS::Open` and the end of
  `CreateDSHandle` leaves the handle open.
- panic: a surface without rows panics while the request is logged, and the
  500 it gets has no ErrorResponse.
- samples: the metrics goroutine reads a context that may belong to another
  request by then, and counts its request for a storage account of that one.
- wide_bound: a bound far outside the cube, on an axis that the slice extends along, is
  accepted when its low bits name a line.
- fractional: the lines of the intersection are counted with a stepsize that is
  cut to an int.

Met while modelling, without a run:

- `internal/metrics/metrics.go:54` calls the counter the number of requests. It goes up once
  for each storage account of a request, so twice for two accounts, and not at all for a
  request that is refused before `prepareMetricsLogging` has set its VDS
  (`metrics.go:108-114`).
- `api/handlers/slice.go:87` says that bounds in the direction of the slice are
  ignored. `subcube.cpp:95` converts them like the others and refuses the request
  when they are out of range.
- `api/handlers/slice.go:72` says that directions are case-insensitive, and
  `core.go:115` refers to it for bounds. `core_slice.go:18` does not lower the
  direction of a bound.
- `core.go:85-90` lists where the fill value is used. A surface value that becomes
  the fill value when above or below is added to it gets it too (`core.go:371`,
  `subvolume.cpp:76-80`).
- `subvolume.hpp:111-114` says that the margin makes sure that all desired data
  is retrieved. A window that is short of a step of the request by less than the
  tolerance gets a resampled point below the window, which at the end of the
  trace is beyond the last raw sample (`subvolume.cpp:17`).
- `api/handlers/attributes.go:205-206` says that values outside of the data
  boundaries raise an exception. A cell outside of the survey is skipped before
  its depth is looked at (`subvolume.cpp`).
- A value of the secondary surface that equals the fill value of the primary one
  is copied, and counts as missing afterwards (`cppapi_data.cpp:413`).
- The documentation of the attributes between surfaces promises the closest point
  of the secondary surface; a cell beyond the edge of its grid by more than half
  an increment gets the fill value.

## 6. Not modelled, and the plan

Not modelled: rounding of floats, the interpolations of OpenVDS and boost, CDP
coordinates, JSON documents, multipart encoding, gzip, logging, option parsing,
the parsing of connection strings, sizes of cache entries and of answers.

Most lines of `src/` are `internal/core/nlohmann/json.hpp`, a vendored library of
20,551 lines out of about 25,300, and some of the rest is declarations, generated
documentation, logging and string handling. A share of all lines says little
here: all state-changing operations of the core and the server are mapped, except for those above.

Next, in this order:

1. `Connection`: the parsing of tokens and addresses.
2. A composition of Slice with Cubes, for slices of two cubes.
