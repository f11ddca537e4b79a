--------------------------- MODULE AttributePool ---------------------------
(***************************************************************************)
(* The goroutine pool behind the attribute endpoints: getAttributes in     *)
(* core_attributes.go, the C function `attribute' that every goroutine     *)
(* runs, and the deferred releases of its callers.                         *)
(*                                                                         *)
(* The main goroutine splits the surface into chunks and starts one        *)
(* goroutine per chunk, at most maxConcurrentGoroutines at a time (the     *)
(* channel `guard').  All of them share one subvolume and one output       *)
(* buffer without any lock.  Every goroutine reports through the buffered  *)
(* channel `errs', which the main goroutine drains only after it has       *)
(* started all of them.                                                    *)
(***************************************************************************)
EXTENDS Integers, Sequences, FiniteSets

CONSTANTS
    NRows, NCols,      \* shape of the surface
    AttributeCounts,   \* possible lengths of targetAttributes
    EmptySets          \* possible sets of positions without samples

ASSUME ShapeAssumption ==
    /\ NRows \in Nat \ {0}
    /\ NCols \in Nat \ {0}

ASSUME InputAssumption ==
    /\ AttributeCounts \subseteq Nat
    /\ EmptySets \subseteq SUBSET (0 .. NRows * NCols - 1)

VARIABLES
    nAttributes,    \* len(targetAttributes)
    badStepsize,    \* the requested stepsize is negative
    empty,          \* positions where the subvolume holds no samples
    pc,             \* control state of getAttributes and its callers
    from, to,       \* the next chunk
    nRoutines,      \* goroutines started so far
    guard,          \* number of tokens in channel guard
    errs,           \* content of channel errs
    received,       \* values taken out of errs
    computeErrors,  \* the errors among them
    live,           \* C++ objects that have not been released
    result,         \* what getAttributes returned
    gpc,            \* control state of each goroutine
    gfrom, gto,     \* chunk of each goroutine
    gi,             \* loop index of calc_attributes
    gerr,           \* what C.attribute returned
    fetched,        \* positions whose samples are in m_data
    buffer          \* the output buffer, one cell per attribute and position

mainVars   == <<pc, from, to, nRoutines, computeErrors, received, live, result>>
inputVars  == <<nAttributes, badStepsize, empty>>
chanVars   == <<guard, errs>>
chunkVars  == <<gfrom, gto>>
vars == <<inputVars, mainVars, chanVars, chunkVars, gpc, gi, gerr, fetched, buffer>>

-----------------------------------------------------------------------------
Maximum(a, b) == IF a > b THEN a ELSE b
Minimum(a, b) == IF a < b THEN a ELSE b

hsize == NRows * NCols
mapsize == hsize
chunkSize == Maximum(NRows, 1)

OneGoroutinePerRow == Maximum(NRows, 1)
maxConcurrentGoroutines == Maximum(NRows \div 2, 1)

Unbuffered == 0
errsCapacity == hsize \div chunkSize + 1

Positions == 0 .. hsize - 1

\* A goroutine is named by its number; chunks hold at least one position.
Routines == 0 .. hsize - 1

Objects == {"handle", "surfaces", "subvolume"}

NoError == <<"nil">>
GoroutineErrors == {"error"} \X Routines
Errors == GoroutineErrors \union {<<"subvolume">>, <<"arguments">>}
NoResult == <<"none">>
Success == <<"ok">>

(***************************************************************************)
(* Values of a cell of the output buffer: the zero that make() leaves      *)
(* there, the fill value, the attribute a of position i, or a number that  *)
(* was computed from samples nobody has read.                              *)
(***************************************************************************)
Zero == <<"zero">>
Fill == <<"fill">>
Garbage == <<"garbage">>
Value(a, i) == <<"value", a, i>>
Cells == {Zero, Fill, Garbage} \union ({"value"} \X Nat \X Positions)

(***************************************************************************)
(* What the caller of getAttributes is after, for attribute a at i.        *)
(***************************************************************************)
Wanted(a, i) == IF i \in empty THEN Fill ELSE Value(a, i)

(***************************************************************************)
(* The map of attribute a, as getAttributes slices it out of the buffer.   *)
(* The slice aliases the buffer, it is not a copy.                         *)
(***************************************************************************)
Map(a) == [i \in Positions |-> buffer[a * mapsize + i]]

-----------------------------------------------------------------------------
Init ==
    /\ nAttributes \in AttributeCounts
    /\ badStepsize \in BOOLEAN
    /\ empty \in EmptySets
    /\ pc = "subvolume"
    /\ from = 0
    /\ to = 0
    /\ nRoutines = 0
    /\ guard = 0
    /\ errs = <<>>
    /\ received = 0
    /\ computeErrors = <<>>
    /\ live = {"handle", "surfaces"}
    /\ result = NoResult
    /\ gpc = [g \in Routines |-> "none"]
    /\ gfrom = [g \in Routines |-> 0]
    /\ gto = [g \in Routines |-> 0]
    /\ gi = [g \in Routines |-> 0]
    /\ gerr = [g \in Routines |-> NoError]
    /\ fetched = {}
    /\ buffer = <<>>

(***************************************************************************)
(* C.subvolume_new either makes the subvolume or reports why it cannot.    *)
(***************************************************************************)
SubvolumeNew ==
    /\ pc = "subvolume"
    /\ \/ /\ live' = live \union {"subvolume"}
          /\ pc' = "prepare"
          /\ UNCHANGED result
       \/ /\ result' = <<"subvolume">>
          /\ pc' = "returned"
          /\ UNCHANGED live
    /\ UNCHANGED <<inputVars, from, to, nRoutines, computeErrors, received,
                   chanVars, chunkVars, gpc, gi, gerr, fetched, buffer>>

(***************************************************************************)
(* No attribute was asked for; the deferred subvolume_free runs on return. *)
(***************************************************************************)
RejectNoAttributes ==
    /\ pc = "prepare"
    /\ nAttributes = 0
    /\ result' = <<"arguments">>
    /\ live' = live \ {"subvolume"}
    /\ pc' = "returned"
    /\ UNCHANGED <<inputVars, from, to, nRoutines, computeErrors, received,
                   chanVars, chunkVars, gpc, gi, gerr, fetched, buffer>>

Prepare ==
    /\ pc = "prepare"
    /\ nAttributes # 0
    /\ buffer' = [c \in 0 .. mapsize * nAttributes - 1 |-> Zero]
    /\ from' = 0
    /\ to' = chunkSize
    /\ pc' = "loop"
    /\ UNCHANGED <<inputVars, nRoutines, computeErrors, received, live, result,
                   chanVars, chunkVars, gpc, gi, gerr, fetched>>

GuardTakesOneMore == guard <= maxConcurrentGoroutines
GuardHasRoom == guard < maxConcurrentGoroutines

OverlappingFrom == from + chunkSize - 1
NextFrom == from + chunkSize
NextTo == Minimum(to + chunkSize, hsize)

(***************************************************************************)
(* One turn of the loop: a token goes into guard, which blocks while the   *)
(* channel is full, and a goroutine starts with the current from and to.   *)
(***************************************************************************)
StartGoroutine ==
    /\ pc = "loop"
    /\ from < hsize
    /\ GuardHasRoom
    /\ guard' = guard + 1
    /\ gpc' = [gpc EXCEPT ![nRoutines] = "enter"]
    /\ gfrom' = [gfrom EXCEPT ![nRoutines] = from]
    /\ gto' = [gto EXCEPT ![nRoutines] = to]
    /\ nRoutines' = nRoutines + 1
    /\ from' = NextFrom
    /\ to' = NextTo
    /\ UNCHANGED <<inputVars, pc, computeErrors, received, live, result, errs,
                   gi, gerr, fetched, buffer>>

ReceivedAllButOne == received >= nRoutines - 1
ReceivedAll == received >= nRoutines

LatestOnly(err) == IF err # NoError THEN <<err>> ELSE <<>>
WithError(err) == IF err # NoError THEN Append(computeErrors, err) ELSE computeErrors

(***************************************************************************)
(* `err := <-errs', once all goroutines have been started.                 *)
(***************************************************************************)
Collect ==
    /\ pc = "loop"
    /\ from >= hsize
    /\ ~ ReceivedAll
    /\ errs # <<>>
    /\ errs' = Tail(errs)
    /\ received' = received + 1
    /\ computeErrors' = WithError(Head(errs))
    /\ UNCHANGED <<inputVars, pc, from, to, nRoutines, live, result, guard,
                   chunkVars, gpc, gi, gerr, fetched, buffer>>

(***************************************************************************)
(* Return the first error received, or the maps.  The deferred             *)
(* subvolume_free runs either way.                                         *)
(***************************************************************************)
Return ==
    /\ pc = "loop"
    /\ from >= hsize
    /\ ReceivedAll
    /\ result' = IF computeErrors # <<>> THEN Head(computeErrors) ELSE Success
    /\ live' = live \ {"subvolume"}
    /\ pc' = "returned"
    /\ UNCHANGED <<inputVars, from, to, nRoutines, computeErrors, received,
                   chanVars, chunkVars, gpc, gi, gerr, fetched, buffer>>

(***************************************************************************)
(* The deferred Close of the surfaces, then that of the data handle in     *)
(* makeDataRequest.                                                        *)
(***************************************************************************)
CloseSurfaces ==
    /\ pc = "returned"
    /\ live' = live \ {"surfaces"}
    /\ pc' = "surfacesClosed"
    /\ UNCHANGED <<inputVars, from, to, nRoutines, computeErrors, received,
                   result, chanVars, chunkVars, gpc, gi, gerr, fetched, buffer>>

CloseHandle ==
    /\ pc = "surfacesClosed"
    /\ live' = live \ {"handle"}
    /\ pc' = "closed"
    /\ UNCHANGED <<inputVars, from, to, nRoutines, computeErrors, received,
                   result, chanVars, chunkVars, gpc, gi, gerr, fetched, buffer>>

Main ==
    \/ SubvolumeNew
    \/ RejectNoAttributes
    \/ Prepare
    \/ StartGoroutine
    \/ Collect
    \/ Return
    \/ CloseSurfaces
    \/ CloseHandle

-----------------------------------------------------------------------------
(***************************************************************************)
(* C.attribute leaves with an exception, which becomes the error sent.     *)
(***************************************************************************)
Throw(g) ==
    /\ gerr' = [gerr EXCEPT ![g] = <<"error", g>>]
    /\ gpc' = [gpc EXCEPT ![g] = "send"]

(***************************************************************************)
(* The checks of `attribute' before any data is touched: an empty range,   *)
(* and the constructor of ResampledSegmentBlueprint.                       *)
(***************************************************************************)
EnterAttribute(g) ==
    /\ gpc[g] = "enter"
    /\ \/ /\ gfrom[g] >= gto[g] \/ badStepsize
          /\ Throw(g)
       \/ /\ gfrom[g] < gto[g]
          /\ ~ badStepsize
          /\ gpc' = [gpc EXCEPT ![g] = "fetch"]
          /\ UNCHANGED gerr
    /\ UNCHANGED <<inputVars, mainVars, chanVars, chunkVars, gi, fetched, buffer>>

Chunk(g) == gfrom[g] .. gto[g] - 1

(***************************************************************************)
(* fetch_subvolume: nothing is read when the chunk holds no samples;       *)
(* reading from storage may fail.                                          *)
(***************************************************************************)
FetchSubvolume(g) ==
    /\ gpc[g] = "fetch"
    /\ \/ /\ gto[g] > hsize
          /\ Throw(g)
          /\ UNCHANGED <<fetched, gi>>
       \/ /\ gto[g] <= hsize
          /\ ~ Chunk(g) \subseteq empty
          /\ Throw(g)
          /\ UNCHANGED <<fetched, gi>>
       \/ /\ gto[g] <= hsize
          /\ fetched' = fetched \union (Chunk(g) \ empty)
          /\ gi' = [gi EXCEPT ![g] = gfrom[g]]
          /\ gpc' = [gpc EXCEPT ![g] = "compute"]
          /\ UNCHANGED gerr
    /\ UNCHANGED <<inputVars, mainVars, chanVars, chunkVars, buffer>>

PositionMajorCell(a, i) == i * nAttributes + a

(***************************************************************************)
(* The cell that attribute() and AttributeMap::write address for the       *)
(* attribute a at position i.                                              *)
(***************************************************************************)
Cell(a, i) == a * hsize + i

(***************************************************************************)
(* The number calc_attributes writes for attribute a at position i.        *)
(***************************************************************************)
Computed(a, i) ==
    IF i \in empty THEN Fill
    ELSE IF i \in fetched THEN Value(a, i) ELSE Garbage

(***************************************************************************)
(* The buffer after all attributes have been written at position i.        *)
(***************************************************************************)
WriteAt(i) ==
    LET attrs(c) == {a \in 0 .. nAttributes - 1 : c = Cell(a, i)}
    IN  [c \in DOMAIN buffer |->
            IF attrs(c) = {} THEN buffer[c]
            ELSE Computed(CHOOSE a \in attrs(c) : TRUE, i)]

(***************************************************************************)
(* One turn of the loop of calc_attributes: all attributes at position gi. *)
(* Resampling a segment that has samples may throw.                        *)
(***************************************************************************)
CalcAttributes(g) ==
    /\ gpc[g] = "compute"
    /\ \/ /\ gi[g] \notin empty
          /\ Throw(g)
          /\ UNCHANGED <<gi, buffer>>
       \/ /\ buffer' = WriteAt(gi[g])
          /\ gi' = [gi EXCEPT ![g] = gi[g] + 1]
          /\ gpc' = [gpc EXCEPT ![g] = IF gi[g] + 1 < gto[g]
                                       THEN "compute" ELSE "send"]
          /\ UNCHANGED gerr
    /\ UNCHANGED <<inputVars, mainVars, chanVars, chunkVars, fetched>>

(***************************************************************************)
(* `errs <- toError(...)', which blocks while the channel is full.         *)
(***************************************************************************)
SendError(g) ==
    /\ gpc[g] = "send"
    /\ Len(errs) < errsCapacity
    /\ errs' = Append(errs, gerr[g])
    /\ gpc' = [gpc EXCEPT ![g] = "release"]
    /\ UNCHANGED <<inputVars, mainVars, guard, chunkVars, gi, gerr, fetched, buffer>>

(***************************************************************************)
(* `<-guard', after which the goroutine ends.                              *)
(***************************************************************************)
ReleaseGuard(g) ==
    /\ gpc[g] = "release"
    /\ guard > 0
    /\ guard' = guard - 1
    /\ gpc' = [gpc EXCEPT ![g] = "done"]
    /\ UNCHANGED <<inputVars, mainVars, errs, chunkVars, gi, gerr, fetched, buffer>>

Goroutine(g) ==
    \/ EnterAttribute(g)
    \/ FetchSubvolume(g)
    \/ CalcAttributes(g)
    \/ SendError(g)
    \/ ReleaseGuard(g)

Next == Main \/ \E g \in Routines : Goroutine(g)

Spec == Init /\ [][Next]_vars

(***************************************************************************)
(* The Go scheduler runs every runnable goroutine, and a read from storage *)
(* ends, with data or with an error.                                       *)
(***************************************************************************)
FairSpec == Spec /\ WF_vars(Main) /\ \A g \in Routines : WF_vars(Goroutine(g))

-----------------------------------------------------------------------------
(***************************************************************************)
(* Type invariant: the channels stay within their capacities and never     *)
(* more goroutines are started than there are positions.                   *)
(***************************************************************************)
TypeOK ==
    /\ nAttributes \in Nat
    /\ badStepsize \in BOOLEAN
    /\ empty \subseteq Positions
    /\ pc \in {"subvolume", "prepare", "loop", "returned", "surfacesClosed", "closed"}
    /\ from \in Nat
    /\ to \in Nat
    /\ nRoutines \in 0 .. hsize
    /\ guard \in 0 .. maxConcurrentGoroutines
    /\ errs \in Seq(GoroutineErrors \union {NoError})
    /\ received \in Nat
    /\ computeErrors \in Seq(GoroutineErrors)
    /\ live \subseteq Objects
    /\ result \in Errors \union {NoResult, Success}
    /\ gpc \in [Routines -> {"none", "enter", "fetch", "compute", "send", "release", "done"}]
    /\ gfrom \in [Routines -> Nat]
    /\ gto \in [Routines -> Nat]
    /\ gi \in [Routines -> Nat]
    /\ gerr \in [Routines -> GoroutineErrors \union {NoError}]
    /\ fetched \subseteq Positions
    /\ buffer \in [DOMAIN buffer -> Cells]

InC(g) == gpc[g] \in {"enter", "fetch", "compute"}

(***************************************************************************)
(* No use after free: while a goroutine is inside C.attribute, neither the *)
(* subvolume nor the surfaces it refers to nor the data handle have been   *)
(* released.  getAttributes counts answers, it does not join goroutines.   *)
(***************************************************************************)
NoUseAfterFree == \A g \in Routines : InC(g) => live = Objects

(***************************************************************************)
(* No data race: goroutines inside C.attribute at the same time work on    *)
(* disjoint parts of the subvolume and of every map, all of them inside    *)
(* the surface; this is what makes the missing locks sound.                *)
(***************************************************************************)
DisjointChunks ==
    \A g \in Routines : InC(g) =>
        /\ Chunk(g) \subseteq Positions
        /\ \A h \in Routines \ {g} : InC(h) => Chunk(g) \intersect Chunk(h) = {}

(***************************************************************************)
(* The guard limits what it is there to limit: at no time are more than    *)
(* maxConcurrentGoroutines goroutines inside C.attribute.                  *)
(***************************************************************************)
BoundedConcurrency ==
    Cardinality({g \in Routines : InC(g)}) <= Maximum(NRows \div 2, 1)

(***************************************************************************)
(* A success is complete: when getAttributes returned without an error,    *)
(* every map holds, at every position, the value of that attribute at that *)
(* position; in no cell the zero the buffer was made with, a value of      *)
(* another position or one computed from samples that were never read.     *)
(***************************************************************************)
SuccessIsComplete ==
    result = Success =>
        \A a \in 0 .. nAttributes - 1 : Map(a) = [i \in Positions |-> Wanted(a, i)]

(***************************************************************************)
(* No error is lost and none is invented: once getAttributes has returned  *)
(* from its loop, it returned an error exactly if some goroutine failed,   *)
(* and that error is the one of a goroutine.                               *)
(***************************************************************************)
ErrorsAreReported ==
    pc \in {"returned", "surfacesClosed", "closed"} /\ nRoutines > 0 =>
        IF \A g \in Routines : gerr[g] = NoError
        THEN result = Success
        ELSE \E g \in Routines : gerr[g] # NoError /\ result = gerr[g]

(***************************************************************************)
(* The request finishes and leaves no goroutine behind: getAttributes      *)
(* returns, its callers release everything, and all goroutines end, no     *)
(* matter which of them fail.  No answer is collected before the last      *)
(* goroutine is started, and that one may wait for a token: errs must be   *)
(* able to take the answers of all that have to end before.                *)
(***************************************************************************)
Finished ==
    /\ pc = "closed"
    /\ live = {}
    /\ \A g \in Routines : gpc[g] \in {"none", "done"}

Termination == <>[]Finished

(***************************************************************************)
(* For its caller the pool is one operation: it answers once, with all the *)
(* maps or with an error, and what it has answered never changes, although *)
(* the maps are slices of the buffer that the goroutines write to.         *)
(***************************************************************************)
Outcome ==
    IF result = NoResult THEN "running"
    ELSE IF result = Success THEN "ok" ELSE "error"

Maps == IF result = Success THEN [a \in 0 .. nAttributes - 1 |-> Map(a)] ELSE <<>>

Abstract == INSTANCE AttributeMaps WITH outcome <- Outcome, maps <- Maps

ImplementsAttributeMaps == Abstract!Spec

=============================================================================
