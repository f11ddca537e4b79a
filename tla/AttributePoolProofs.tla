------------------------ MODULE AttributePoolProofs -------------------------
(***************************************************************************)
(* Safety of the goroutine pool for surfaces of every shape.               *)
(*                                                                         *)
(* getAttributes never joins its goroutines; it counts the answers it has  *)
(* received.  The argument is therefore one of counting: the goroutines    *)
(* that have answered are exactly as many as the answers in the channel    *)
(* and the answers received, and only started goroutines can answer.       *)
(***************************************************************************)
EXTENDS AttributePool, FiniteSetTheorems, TLAPS

\* Goroutines that have sent their answer, and those that hold a token.
Sent == {g \in Routines : gpc[g] \in {"release", "done"}}
Holding == {g \in Routines : gpc[g] \notin {"none", "done"}}

\* Exactly the goroutines with a number below nRoutines have been started.
StartedInOrder ==
    /\ nRoutines <= from
    /\ \A g \in Routines : gpc[g] = "none" <=> g >= nRoutines
    /\ pc \in {"subvolume", "prepare"} => nRoutines = 0 /\ from = 0

AnswersAreCounted ==
    /\ Len(errs) + received = Cardinality(Sent)
    /\ guard = Cardinality(Holding)
    /\ pc \in {"returned", "surfacesClosed", "closed"} => received >= nRoutines

ObjectsOfPhase ==
    /\ pc = "subvolume" => live = {"handle", "surfaces"}
    /\ pc \in {"prepare", "loop"} => live = Objects

\* Chunks are handed out from left to right.
ChunksInOrder ==
    /\ pc = "loop" => to <= hsize /\ to <= from + chunkSize
    /\ \A g \in Routines : g < nRoutines => gto[g] <= hsize /\ gto[g] <= from
    /\ \A g, h \in Routines : g < h /\ h < nRoutines => gto[g] <= gfrom[h]

PoolInv ==
    /\ TypeOK
    /\ StartedInOrder
    /\ AnswersAreCounted
    /\ ObjectsOfPhase
    /\ ChunksInOrder

-----------------------------------------------------------------------------
(***************************************************************************)
(* The sizes that getAttributes computes are positive, and a first chunk   *)
(* fits in the surface.                                                    *)
(***************************************************************************)
LEMMA Sizes ==
    /\ hsize \in Nat \ {0}
    /\ chunkSize \in Nat \ {0}
    /\ chunkSize <= hsize
    /\ maxConcurrentGoroutines \in Nat \ {0}
<1>1. NRows \in Nat /\ NRows >= 1 /\ NCols \in Nat /\ NCols >= 1
  BY ShapeAssumption
<1>2. NRows * NCols \in Nat /\ NRows <= NRows * NCols
  BY <1>1, SMT
<1>3. chunkSize = NRows
  BY <1>1 DEF chunkSize, Maximum
<1>4. maxConcurrentGoroutines \in Nat \ {0}
  BY <1>1 DEF maxConcurrentGoroutines, Maximum
<1> QED
  BY <1>1, <1>2, <1>3, <1>4 DEF hsize

(***************************************************************************)
(* Sets of goroutines are finite, and one more or one fewer goroutine      *)
(* counts as one.                                                          *)
(***************************************************************************)
LEMMA RoutinesAreFinite ==
    ASSUME NEW S, S \subseteq Routines
    PROVE  IsFiniteSet(S) /\ Cardinality(S) \in Nat
<1>1. IsFiniteSet(Routines)
  BY Sizes, FS_Interval DEF Routines
<1> QED
  BY <1>1, FS_Subset, FS_CardinalityType

\* Putting one element into a finite set that lacks it.
LEMMA OneMore ==
    ASSUME NEW S, S \subseteq Routines, NEW g \in Routines, g \notin S
    PROVE  Cardinality(S \union {g}) = Cardinality(S) + 1
  BY RoutinesAreFinite, FS_AddElement

\* Taking one element out of a finite set that has it.
LEMMA OneFewer ==
    ASSUME NEW S, S \subseteq Routines, NEW g \in S
    PROVE  Cardinality(S \ {g}) = Cardinality(S) - 1 /\ Cardinality(S) > 0
<1>1. S \ {g} \subseteq Routines /\ g \notin S \ {g} /\ g \in Routines
  OBVIOUS
<1>2. S = (S \ {g}) \union {g}
  OBVIOUS
<1>3. Cardinality(S) = Cardinality(S \ {g}) + 1
  BY <1>1, <1>2, OneMore
<1> QED
  BY <1>1, <1>3, RoutinesAreFinite

(***************************************************************************)
(* Writing the attributes of a position keeps the buffer a buffer.         *)
(***************************************************************************)
LEMMA WriteAtType ==
    ASSUME TypeOK, NEW n \in Nat
    PROVE  WriteAt(n) \in [DOMAIN buffer -> Cells]
<1> DEFINE attrs(c) == {a \in 0 .. nAttributes - 1 : c = Cell(a, n)}
<1>1. SUFFICES ASSUME NEW c \in DOMAIN buffer, attrs(c) # {}
               PROVE  Computed(CHOOSE a \in attrs(c) : TRUE, n) \in Cells
  BY DEF WriteAt, TypeOK
<1> DEFINE a == CHOOSE x \in attrs(c) : TRUE
<1>2. a \in attrs(c)
  BY <1>1
<1> HIDE DEF a
<1>3. a \in Nat
  <2>1. nAttributes \in Nat
    BY DEF TypeOK
  <2>2. a \in 0 .. nAttributes - 1
    BY <1>2
  <2> QED
    BY <2>1, <2>2
<1>4. Computed(a, n) \in Cells
  BY <1>3 DEF Computed, Cells, Fill, Garbage, Value, TypeOK
<1> QED
  BY <1>4 DEF a

-----------------------------------------------------------------------------
(***************************************************************************)
(* A step inside C.attribute moves one goroutine on, no further than to    *)
(* the sending of its answer; nobody has answered and nobody has let go of *)
(* a token by it.                                                          *)
(***************************************************************************)
InsideC(g) ==
    /\ InC(g)
    /\ \E next \in {"fetch", "compute", "send"} : gpc' = [gpc EXCEPT ![g] = next]
    /\ UNCHANGED <<mainVars, chanVars, chunkVars>>

\* Such a step keeps what the invariant says of the other goroutines.
LEMMA StepInsideC ==
    ASSUME PoolInv, NEW g \in Routines, InsideC(g)
    PROVE  StartedInOrder' /\ AnswersAreCounted' /\ ObjectsOfPhase' /\ ChunksInOrder'
<1>1. gpc \in [Routines -> {"none", "enter", "fetch", "compute", "send", "release", "done"}]
  BY DEF PoolInv, TypeOK
<1>2. PICK next \in {"fetch", "compute", "send"} : gpc' = [gpc EXCEPT ![g] = next]
  BY ZenonT(30) DEF InsideC
<1>3. gpc[g] \in {"enter", "fetch", "compute"}
  BY DEF InsideC, InC
<1>4. Sent' = Sent /\ Holding' = Holding
  BY <1>1, <1>2, <1>3 DEF Sent, Holding
<1>5. \A h \in Routines : gpc'[h] = "none" <=> gpc[h] = "none"
  BY <1>1, <1>2, <1>3
<1> QED
  BY <1>4, <1>5 DEF InsideC, mainVars, chanVars, chunkVars, PoolInv, StartedInOrder,
     AnswersAreCounted, ObjectsOfPhase, ChunksInOrder

(***************************************************************************)
(* The initial states satisfy the invariant.                               *)
(***************************************************************************)
LEMMA PoolInit == Init => PoolInv
<1> SUFFICES ASSUME Init PROVE PoolInv
  OBVIOUS
<1> USE Sizes
<1>1. TypeOK
  BY InputAssumption DEF Init, TypeOK, Positions, hsize, Objects, Cells
<1>2. Sent = {} /\ Holding = {}
  BY DEF Init, Sent, Holding
<1>3. StartedInOrder
  BY DEF Init, StartedInOrder, Routines
<1>4. AnswersAreCounted
  BY <1>2, FS_EmptySet DEF Init, AnswersAreCounted
<1>5. ObjectsOfPhase /\ ChunksInOrder
  BY DEF Init, ObjectsOfPhase, ChunksInOrder, Routines
<1> QED
  BY <1>1, <1>3, <1>4, <1>5 DEF PoolInv

(***************************************************************************)
(* What a goroutine may have as its error.                                 *)
(***************************************************************************)
LEMMA ErrorType ==
    ASSUME NEW g \in Routines PROVE <<"error", g>> \in GoroutineErrors
  BY DEF GoroutineErrors

(***************************************************************************)
(* Every step preserves the invariant.                                     *)
(***************************************************************************)
LEMMA PoolStep == PoolInv /\ [Next]_vars => PoolInv'
<1> SUFFICES ASSUME PoolInv, [Next]_vars PROVE PoolInv'
  OBVIOUS
<1>0. TypeOK /\ StartedInOrder /\ AnswersAreCounted /\ ObjectsOfPhase /\ ChunksInOrder
  BY DEF PoolInv
<1>a. /\ from \in Nat /\ to \in Nat /\ received \in Nat /\ nRoutines \in 0 .. hsize
      /\ guard \in 0 .. maxConcurrentGoroutines
      /\ gfrom \in [Routines -> Nat] /\ gto \in [Routines -> Nat] /\ gi \in [Routines -> Nat]
      /\ gpc \in [Routines -> {"none", "enter", "fetch", "compute", "send", "release", "done"}]
  BY <1>0 DEF TypeOK
<1>b. Len(errs) \in Nat /\ Cardinality(Sent) \in Nat /\ Cardinality(Holding) \in Nat
  <2>1. Len(errs) \in Nat
    <3>1. errs \in Seq(GoroutineErrors \union {NoError})
      BY <1>0 DEF TypeOK
    <3> QED
      BY <3>1
  <2>2. Sent \subseteq Routines /\ Holding \subseteq Routines
    BY DEF Sent, Holding
  <2> QED
    BY <2>1, <2>2, RoutinesAreFinite
<1>c. Routines \subseteq Nat /\ \A n \in Nat : n \in Routines <=> n < hsize
  BY Sizes DEF Routines
<1> USE Sizes, <1>0
<1>1. CASE SubvolumeNew
  <2>1. TypeOK'
    BY <1>1 DEF SubvolumeNew, inputVars, chanVars, chunkVars, TypeOK, Objects, Errors
  <2>2. Sent' = Sent /\ Holding' = Holding
    BY <1>1 DEF SubvolumeNew, Sent, Holding
  <2>3. StartedInOrder' /\ AnswersAreCounted'
    <3>1. nRoutines = 0 /\ nRoutines' = nRoutines /\ received' = received /\ received >= 0
      BY <1>1, <1>a DEF SubvolumeNew, StartedInOrder
    <3>2. StartedInOrder'
      BY <1>1, <3>1 DEF SubvolumeNew, StartedInOrder
    <3>3. AnswersAreCounted'
      BY <1>1, <2>2, <3>1 DEF SubvolumeNew, chanVars, AnswersAreCounted
    <3> QED
      BY <3>2, <3>3
  <2>4. ObjectsOfPhase' /\ ChunksInOrder'
    BY <1>1 DEF SubvolumeNew, chunkVars, ObjectsOfPhase, ChunksInOrder, StartedInOrder, TypeOK, Objects
  <2> QED
    BY <2>1, <2>3, <2>4 DEF PoolInv
<1>2. CASE RejectNoAttributes
  <2>1. TypeOK'
    BY <1>2 DEF RejectNoAttributes, inputVars, chanVars, chunkVars, TypeOK, Objects, Errors
  <2>2. Sent' = Sent /\ Holding' = Holding
    BY <1>2 DEF RejectNoAttributes, Sent, Holding
  <2>3. StartedInOrder' /\ AnswersAreCounted'
    BY <1>2, <2>2 DEF RejectNoAttributes, chanVars, StartedInOrder, AnswersAreCounted, TypeOK
  <2>4. ObjectsOfPhase' /\ ChunksInOrder'
    BY <1>2 DEF RejectNoAttributes, chunkVars, ObjectsOfPhase, ChunksInOrder, StartedInOrder, TypeOK, Objects
  <2> QED
    BY <2>1, <2>3, <2>4 DEF PoolInv
<1>3. CASE Prepare
  <2>1. TypeOK'
    BY <1>3 DEF Prepare, inputVars, chanVars, chunkVars, TypeOK, Objects, Cells
  <2>2. Sent' = Sent /\ Holding' = Holding
    BY <1>3 DEF Prepare, Sent, Holding
  <2>3. StartedInOrder' /\ AnswersAreCounted'
    BY <1>3, <2>2 DEF Prepare, chanVars, StartedInOrder, AnswersAreCounted, TypeOK
  <2>4. ObjectsOfPhase' /\ ChunksInOrder'
    BY <1>3 DEF Prepare, chunkVars, ObjectsOfPhase, ChunksInOrder, StartedInOrder, TypeOK, Objects
  <2> QED
    BY <2>1, <2>3, <2>4 DEF PoolInv
<1>4. CASE StartGoroutine
  <2>1. nRoutines \in Routines /\ nRoutines < hsize /\ gpc[nRoutines] = "none"
    BY <1>4 DEF StartGoroutine, StartedInOrder, TypeOK, Routines
  <2>2. TypeOK'
    <3>1. guard' \in 0 .. maxConcurrentGoroutines /\ nRoutines' \in 0 .. hsize
      BY <1>4, <1>a, <2>1 DEF StartGoroutine, GuardHasRoom
    <3>2. from' \in Nat /\ to' \in Nat
      BY <1>4, <1>a DEF StartGoroutine, NextFrom, NextTo, Minimum
    <3>3. /\ gfrom' \in [Routines -> Nat] /\ gto' \in [Routines -> Nat]
          /\ gpc' \in [Routines -> {"none", "enter", "fetch", "compute", "send", "release", "done"}]
      BY <1>4, <1>a, <2>1 DEF StartGoroutine
    <3> QED
      BY ZenonT(30), <1>4, <3>1, <3>2, <3>3 DEF StartGoroutine, inputVars, TypeOK
  <2>3. Sent' = Sent /\ Holding' = Holding \union {nRoutines} /\ nRoutines \notin Holding
    BY ZenonT(30), <1>4, <2>1 DEF StartGoroutine, Sent, Holding, TypeOK
  <2>4. Cardinality(Holding') = Cardinality(Holding) + 1
    BY <2>1, <2>3, OneMore DEF Holding
  <2>5. AnswersAreCounted'
    BY <1>4, <2>3, <2>4 DEF StartGoroutine, AnswersAreCounted
  <2>6. StartedInOrder'
    <3>1. nRoutines' <= from'
      BY <1>4, <1>a DEF StartGoroutine, NextFrom, StartedInOrder
    <3>2. \A g \in Routines : gpc'[g] = "none" <=> g >= nRoutines'
      BY <1>4, <1>a, <1>c, <2>1 DEF StartGoroutine, StartedInOrder
    <3> QED
      BY <1>4, <3>1, <3>2 DEF StartGoroutine, StartedInOrder
  <2>7. ObjectsOfPhase'
    BY <1>4 DEF StartGoroutine, ObjectsOfPhase
  <2>8. ChunksInOrder'
    <3>1. to <= hsize /\ to <= from + chunkSize /\ from' = from + chunkSize
      BY <1>4 DEF StartGoroutine, NextFrom, ChunksInOrder
    <3>2. to' <= hsize /\ to' <= from' + chunkSize
      BY <1>4, <1>a, <3>1 DEF StartGoroutine, NextTo, Minimum
    <3>3. \A g \in Routines : g < nRoutines' => gto'[g] <= hsize /\ gto'[g] <= from'
      BY <1>4, <1>a, <1>c, <2>1, <3>1 DEF StartGoroutine, ChunksInOrder
    <3>4. \A g, h \in Routines : g < h /\ h < nRoutines' => gto'[g] <= gfrom'[h]
      BY <1>4, <1>a, <1>c, <2>1 DEF StartGoroutine, ChunksInOrder
    <3> QED
      BY <3>2, <3>3, <3>4 DEF ChunksInOrder
  <2> QED
    BY <2>2, <2>5, <2>6, <2>7, <2>8 DEF PoolInv
<1>5. CASE Collect
  <2>1. /\ Head(errs) \in GoroutineErrors \union {NoError}
        /\ Tail(errs) \in Seq(GoroutineErrors \union {NoError})
        /\ Len(Tail(errs)) = Len(errs) - 1
        /\ Len(errs) \in Nat
    BY <1>5 DEF Collect, TypeOK
  <2>2. computeErrors' \in Seq(GoroutineErrors)
    BY <1>5, <2>1 DEF Collect, WithError, TypeOK
  <2>3. TypeOK'
    <3>1. received' \in Nat /\ errs' \in Seq(GoroutineErrors \union {NoError})
      BY <1>5, <1>a, <2>1 DEF Collect
    <3> QED
      BY ZenonT(30), <1>5, <2>2, <3>1 DEF Collect, inputVars, chunkVars, TypeOK
  <2>4. Sent' = Sent /\ Holding' = Holding
    BY <1>5 DEF Collect, Sent, Holding
  <2>5. AnswersAreCounted'
    BY <1>5, <2>1, <2>4 DEF Collect, AnswersAreCounted, TypeOK
  <2>6. StartedInOrder' /\ ObjectsOfPhase' /\ ChunksInOrder'
    BY <1>5 DEF Collect, chunkVars, StartedInOrder, ObjectsOfPhase, ChunksInOrder
  <2> QED
    BY <2>3, <2>5, <2>6 DEF PoolInv
<1>6. CASE Return
  <2>1. TypeOK'
    <3>1. computeErrors \in Seq(GoroutineErrors)
      BY DEF TypeOK
    <3>2. result' \in Errors \union {NoResult, Success}
      BY <1>6, <3>1 DEF Return, Errors
    <3> QED
      BY <1>6, <3>2 DEF Return, inputVars, chanVars, chunkVars, TypeOK
  <2>2. Sent' = Sent /\ Holding' = Holding
    BY <1>6 DEF Return, Sent, Holding
  <2>3. StartedInOrder' /\ AnswersAreCounted'
    BY <1>6, <2>2 DEF Return, chanVars, StartedInOrder, AnswersAreCounted, TypeOK, ReceivedAll
  <2>4. ObjectsOfPhase' /\ ChunksInOrder'
    BY <1>6 DEF Return, chunkVars, ObjectsOfPhase, ChunksInOrder, StartedInOrder, TypeOK, Objects
  <2> QED
    BY <2>1, <2>3, <2>4 DEF PoolInv
<1>7. CASE CloseSurfaces
  <2>1. TypeOK'
    BY <1>7 DEF CloseSurfaces, inputVars, chanVars, chunkVars, TypeOK, Objects
  <2>2. Sent' = Sent /\ Holding' = Holding
    BY <1>7 DEF CloseSurfaces, Sent, Holding
  <2>3. StartedInOrder' /\ AnswersAreCounted'
    BY <1>7, <2>2 DEF CloseSurfaces, chanVars, StartedInOrder, AnswersAreCounted, TypeOK
  <2>4. ObjectsOfPhase' /\ ChunksInOrder'
    BY <1>7 DEF CloseSurfaces, chunkVars, ObjectsOfPhase, ChunksInOrder, StartedInOrder, TypeOK, Objects
  <2> QED
    BY <2>1, <2>3, <2>4 DEF PoolInv
<1>8. CASE CloseHandle
  <2>1. TypeOK'
    BY <1>8 DEF CloseHandle, inputVars, chanVars, chunkVars, TypeOK, Objects
  <2>2. Sent' = Sent /\ Holding' = Holding
    BY <1>8 DEF CloseHandle, Sent, Holding
  <2>3. StartedInOrder' /\ AnswersAreCounted'
    BY <1>8, <2>2 DEF CloseHandle, chanVars, StartedInOrder, AnswersAreCounted, TypeOK
  <2>4. ObjectsOfPhase' /\ ChunksInOrder'
    BY <1>8 DEF CloseHandle, chunkVars, ObjectsOfPhase, ChunksInOrder, StartedInOrder, TypeOK, Objects
  <2> QED
    BY <2>1, <2>3, <2>4 DEF PoolInv
<1>9. ASSUME NEW g \in Routines, EnterAttribute(g) PROVE PoolInv'
  <2>1. TypeOK'
    BY ZenonT(30), <1>9, ErrorType DEF EnterAttribute, Throw, inputVars, mainVars, chanVars, chunkVars, TypeOK
  <2>2. InsideC(g)
    BY <1>9 DEF EnterAttribute, Throw, InsideC, InC
  <2> QED
    BY <2>1, <2>2, StepInsideC DEF PoolInv
<1>10. ASSUME NEW g \in Routines, FetchSubvolume(g) PROVE PoolInv'
  <2>1. Chunk(g) \subseteq Nat /\ (gto[g] <= hsize => Chunk(g) \subseteq Positions)
    BY <1>10, <1>a DEF Chunk, Positions
  <2>2. fetched' \subseteq Positions
    BY <1>10, <2>1 DEF FetchSubvolume, TypeOK
  <2>3. TypeOK'
    BY ZenonT(30), <1>10, <2>2, ErrorType DEF FetchSubvolume, Throw, inputVars, mainVars, chanVars, chunkVars, TypeOK
  <2>4. InsideC(g)
    BY <1>10 DEF FetchSubvolume, Throw, InsideC, InC
  <2> QED
    BY <2>3, <2>4, StepInsideC DEF PoolInv
<1>11. ASSUME NEW g \in Routines, CalcAttributes(g) PROVE PoolInv'
  <2>1. gi[g] \in Nat
    BY <1>11 DEF TypeOK
  <2>2. WriteAt(gi[g]) \in [DOMAIN buffer -> Cells]
    BY <2>1, WriteAtType
  <2>3. buffer' \in [DOMAIN buffer' -> Cells]
    BY <1>11, <2>2 DEF CalcAttributes, TypeOK
  <2>4. TypeOK'
    <3>1. gi' \in [Routines -> Nat]
      BY <1>11, <1>a, <2>1 DEF CalcAttributes
    <3>2. gpc' \in [Routines -> {"none", "enter", "fetch", "compute", "send", "release", "done"}]
      BY <1>11, <1>a DEF CalcAttributes, Throw
    <3>3. gerr' \in [Routines -> GoroutineErrors \union {NoError}]
      BY ZenonT(30), <1>11, ErrorType DEF CalcAttributes, Throw, TypeOK
    <3> QED
      BY ZenonT(30), <1>11, <2>3, <3>1, <3>2, <3>3
         DEF CalcAttributes, inputVars, mainVars, chanVars, chunkVars, TypeOK
  <2>5. InsideC(g)
    BY <1>11 DEF CalcAttributes, Throw, InsideC, InC
  <2> QED
    BY <2>4, <2>5, StepInsideC DEF PoolInv
<1>12. ASSUME NEW g \in Routines, SendError(g) PROVE PoolInv'
  <2>1. /\ errs' \in Seq(GoroutineErrors \union {NoError})
        /\ Len(errs') = Len(errs) + 1
        /\ Len(errs) \in Nat
    <3>1. gerr[g] \in GoroutineErrors \union {NoError} /\ errs' = Append(errs, gerr[g])
      BY <1>12 DEF SendError, TypeOK
    <3>2. errs \in Seq(GoroutineErrors \union {NoError})
      BY DEF TypeOK
    <3> QED
      BY <3>1, <3>2
  <2>2. TypeOK'
    BY ZenonT(30), <1>12, <2>1 DEF SendError, inputVars, mainVars, chunkVars, TypeOK
  <2>3. Sent' = Sent \union {g} /\ g \notin Sent /\ Holding' = Holding
    BY <1>12 DEF SendError, Sent, Holding, TypeOK
  <2>4. Cardinality(Sent') = Cardinality(Sent) + 1
    BY <2>3, OneMore DEF Sent
  <2>5. AnswersAreCounted'
    <3>1. Len(errs) + received = Cardinality(Sent)
      BY DEF AnswersAreCounted
    <3>2. received' = received /\ guard' = guard /\ pc' = pc /\ nRoutines' = nRoutines
      BY <1>12 DEF SendError, mainVars
    <3>3. Len(errs') + received' = Cardinality(Sent')
      BY <1>a, <2>1, <2>4, <3>1, <3>2
    <3> QED
      BY <2>3, <3>2, <3>3 DEF AnswersAreCounted
  <2>6. StartedInOrder' /\ ObjectsOfPhase' /\ ChunksInOrder'
    BY <1>12 DEF SendError, mainVars, chunkVars, StartedInOrder, ObjectsOfPhase, ChunksInOrder, TypeOK
  <2> QED
    BY <2>2, <2>5, <2>6 DEF PoolInv
<1>13. ASSUME NEW g \in Routines, ReleaseGuard(g) PROVE PoolInv'
  <2>1. TypeOK'
    <3>1. guard' \in 0 .. maxConcurrentGoroutines
      BY <1>13, <1>a DEF ReleaseGuard
    <3> QED
      BY ZenonT(30), <1>13, <3>1 DEF ReleaseGuard, inputVars, mainVars, chunkVars, TypeOK
  <2>2. Sent' = Sent /\ Holding' = Holding \ {g} /\ g \in Holding
    BY <1>13 DEF ReleaseGuard, Sent, Holding, TypeOK
  <2>3. Cardinality(Holding') = Cardinality(Holding) - 1
    BY <2>2, OneFewer DEF Holding
  <2>4. AnswersAreCounted'
    BY <1>13, <2>2, <2>3 DEF ReleaseGuard, mainVars, AnswersAreCounted
  <2>5. StartedInOrder' /\ ObjectsOfPhase' /\ ChunksInOrder'
    BY <1>13 DEF ReleaseGuard, mainVars, chunkVars, StartedInOrder, ObjectsOfPhase, ChunksInOrder, TypeOK
  <2> QED
    BY <2>1, <2>4, <2>5 DEF PoolInv
<1>14. CASE UNCHANGED vars
  <2>1. Sent' = Sent /\ Holding' = Holding
    BY <1>14 DEF vars, Sent, Holding
  <2> QED
    BY <1>14, <2>1 DEF vars, inputVars, mainVars, chanVars, chunkVars, TypeOK, PoolInv, StartedInOrder,
       AnswersAreCounted, ObjectsOfPhase, ChunksInOrder
<1> QED
  BY <1>1, <1>2, <1>3, <1>4, <1>5, <1>6, <1>7, <1>8, <1>9, <1>10, <1>11, <1>12,
     <1>13, <1>14 DEF Next, Main, Goroutine

-----------------------------------------------------------------------------
(***************************************************************************)
(* The invariant holds throughout every run of getAttributes.              *)
(***************************************************************************)
LEMMA PoolInvariance == Spec => []PoolInv
  BY PoolInit, PoolStep, PTL DEF Spec

(***************************************************************************)
(* Type correctness of getAttributes and its goroutines: in particular the *)
(* guard never takes more tokens than its capacity.                        *)
(***************************************************************************)
THEOREM TypeCorrect == Spec => []TypeOK
<1>1. PoolInv => TypeOK
  BY DEF PoolInv
<1> QED
  BY <1>1, PoolInvariance, PTL

(***************************************************************************)
(* The conjuncts of the invariant, with the types of the variables that    *)
(* count goroutines and answers.                                           *)
(***************************************************************************)
LEMMA PoolFacts ==
    ASSUME PoolInv
    PROVE  /\ StartedInOrder /\ AnswersAreCounted /\ ObjectsOfPhase /\ ChunksInOrder
           /\ received \in Nat /\ nRoutines \in Nat /\ Len(errs) \in Nat
           /\ guard \in 0 .. maxConcurrentGoroutines
           /\ gfrom \in [Routines -> Nat] /\ gto \in [Routines -> Nat]
           /\ pc \in {"subvolume", "prepare", "loop", "returned", "surfacesClosed", "closed"}
<1>1. TypeOK /\ StartedInOrder /\ AnswersAreCounted /\ ObjectsOfPhase /\ ChunksInOrder
  BY DEF PoolInv
<1>2. errs \in Seq(GoroutineErrors \union {NoError})
  BY <1>1 DEF TypeOK
<1>3. Len(errs) \in Nat
  BY <1>2
<1>4. /\ received \in Nat /\ nRoutines \in 0 .. hsize
      /\ guard \in 0 .. maxConcurrentGoroutines
      /\ gfrom \in [Routines -> Nat] /\ gto \in [Routines -> Nat]
      /\ pc \in {"subvolume", "prepare", "loop", "returned", "surfacesClosed", "closed"}
  BY <1>1 DEF TypeOK
<1>5. nRoutines \in Nat
  BY <1>4, Sizes
<1> QED
  BY <1>1, <1>3, <1>4, <1>5

(***************************************************************************)
(* Whatever the shape of the surface and whichever goroutines fail, the    *)
(* subvolume, the surfaces and the data handle outlive every goroutine     *)
(* that is inside C.attribute, although getAttributes never joins one.     *)
(***************************************************************************)
THEOREM ObjectsOutliveGoroutines == Spec => []NoUseAfterFree
<1>1. PoolInv => NoUseAfterFree
  <2> SUFFICES ASSUME PoolInv, NEW g \in Routines, InC(g) PROVE live = Objects
    BY DEF NoUseAfterFree
  <2>0. /\ StartedInOrder /\ AnswersAreCounted /\ ObjectsOfPhase /\ ChunksInOrder
        /\ received \in Nat /\ nRoutines \in Nat /\ Len(errs) \in Nat
        /\ guard \in 0 .. maxConcurrentGoroutines
        /\ gfrom \in [Routines -> Nat] /\ gto \in [Routines -> Nat]
        /\ pc \in {"subvolume", "prepare", "loop", "returned", "surfacesClosed", "closed"}
    BY PoolFacts
  <2>1. Routines \subseteq Nat /\ nRoutines \in Nat
    BY <2>0, Sizes DEF Routines
  <2>2. g < nRoutines /\ g \notin Sent /\ nRoutines > 0
    <3>1. gpc[g] \in {"enter", "fetch", "compute"}
      BY DEF InC
    <3> QED
      BY <2>1, <3>1, <2>0 DEF StartedInOrder, Sent
  <2>3. Cardinality(Sent) < nRoutines
    <3>1. Sent \subseteq (0 .. nRoutines - 1) \ {g}
      <4>1. ASSUME NEW h \in Sent PROVE h \in (0 .. nRoutines - 1) \ {g}
        <5>1. h \in Nat /\ h < nRoutines /\ h # g
          BY <2>1, <2>2, <4>1, <2>0 DEF Sent, StartedInOrder
        <5> QED
          BY <2>1, <5>1
      <4> QED
        BY <4>1
    <3>2. IsFiniteSet(0 .. nRoutines - 1) /\ Cardinality(0 .. nRoutines - 1) = nRoutines
      <4>1. 0 \in Int /\ nRoutines - 1 \in Int /\ ~ (0 > nRoutines - 1)
        BY <2>1, <2>2
      <4> QED
        BY <2>1, <4>1, FS_Interval
    <3>3. g \in 0 .. nRoutines - 1
      BY <2>1, <2>2
    <3>4. /\ IsFiniteSet((0 .. nRoutines - 1) \ {g})
          /\ Cardinality((0 .. nRoutines - 1) \ {g}) = nRoutines - 1
      BY ZenonT(30), <3>2, <3>3, FS_RemoveElement
    <3>5. Cardinality(Sent) <= nRoutines - 1
      <4>1. Cardinality(Sent) <= Cardinality((0 .. nRoutines - 1) \ {g})
        BY ZenonT(30), <3>1, <3>4, FS_Subset
      <4> QED
        BY <3>4, <4>1
    <3>6. Cardinality(Sent) \in Nat
      BY ZenonT(30), <3>1, <3>4, FS_Subset, FS_CardinalityType
    <3> QED
      BY <2>1, <3>5, <3>6
  <2>4. received < nRoutines
    BY <2>1, <2>3, <2>0 DEF AnswersAreCounted
  <2>5. pc = "loop"
    BY <2>1, <2>2, <2>4, <2>0 DEF AnswersAreCounted, StartedInOrder
  <2> QED
    BY <2>5, <2>0 DEF ObjectsOfPhase
<1> QED
  BY <1>1, PoolInvariance, PTL

(***************************************************************************)
(* Goroutines that are inside C.attribute at the same time never share a   *)
(* position, and none has a position outside the surface: the unlocked     *)
(* writes to the subvolume and to the maps do not race.                    *)
(***************************************************************************)
THEOREM ChunksAreDisjoint == Spec => []DisjointChunks
<1>1. PoolInv => DisjointChunks
  <2> SUFFICES ASSUME PoolInv, NEW g \in Routines, InC(g)
               PROVE  /\ Chunk(g) \subseteq Positions
                      /\ \A h \in Routines \ {g} :
                            InC(h) => Chunk(g) \intersect Chunk(h) = {}
    BY DEF DisjointChunks
  <2>0. /\ StartedInOrder /\ AnswersAreCounted /\ ObjectsOfPhase /\ ChunksInOrder
        /\ received \in Nat /\ nRoutines \in Nat /\ Len(errs) \in Nat
        /\ guard \in 0 .. maxConcurrentGoroutines
        /\ gfrom \in [Routines -> Nat] /\ gto \in [Routines -> Nat]
        /\ pc \in {"subvolume", "prepare", "loop", "returned", "surfacesClosed", "closed"}
    BY PoolFacts
  <2>1. /\ hsize \in Nat /\ nRoutines \in Nat /\ Routines \subseteq Nat
        /\ gfrom \in [Routines -> Nat] /\ gto \in [Routines -> Nat]
    BY <2>0, Sizes DEF Routines
  <2>2. \A h \in Routines : InC(h) => h < nRoutines /\ gto[h] <= hsize
    BY <2>1, <2>0 DEF StartedInOrder, ChunksInOrder, InC
  <2>3. Chunk(g) \subseteq Positions
    BY <2>1, <2>2 DEF Chunk, Positions
  <2>4. ASSUME NEW h \in Routines \ {g}, InC(h)
        PROVE  Chunk(g) \intersect Chunk(h) = {}
    <3>1. g < h \/ h < g
      BY <2>1, <2>4
    <3>2. gto[g] <= gfrom[h] \/ gto[h] <= gfrom[g]
      BY <2>1, <2>2, <2>4, <3>1, <2>0 DEF ChunksInOrder
    <3> QED
      BY <2>1, <2>4, <3>2 DEF Chunk
  <2> QED
    BY <2>3, <2>4
<1> QED
  BY <1>1, PoolInvariance, PTL

(***************************************************************************)
(* The guard bounds the goroutines that are inside C.attribute at a time   *)
(* by half the number of rows, or one.                                     *)
(***************************************************************************)
THEOREM ConcurrencyIsBounded == Spec => []BoundedConcurrency
<1>1. PoolInv => BoundedConcurrency
  <2> SUFFICES ASSUME PoolInv
               PROVE  Cardinality({g \in Routines : InC(g)}) <= maxConcurrentGoroutines
    BY DEF BoundedConcurrency, maxConcurrentGoroutines
  <2>0. /\ StartedInOrder /\ AnswersAreCounted /\ ObjectsOfPhase /\ ChunksInOrder
        /\ received \in Nat /\ nRoutines \in Nat /\ Len(errs) \in Nat
        /\ guard \in 0 .. maxConcurrentGoroutines
        /\ gfrom \in [Routines -> Nat] /\ gto \in [Routines -> Nat]
        /\ pc \in {"subvolume", "prepare", "loop", "returned", "surfacesClosed", "closed"}
    BY PoolFacts
  <2>1. {g \in Routines : InC(g)} \subseteq Holding /\ Holding \subseteq Routines
    BY DEF Holding, InC
  <2>2. Cardinality({g \in Routines : InC(g)}) <= Cardinality(Holding)
    BY <2>1, RoutinesAreFinite, FS_Subset
  <2>3. /\ Cardinality({g \in Routines : InC(g)}) \in Nat
        /\ Cardinality(Holding) \in Nat
    BY <2>1, RoutinesAreFinite
  <2>4. Cardinality(Holding) <= maxConcurrentGoroutines
    BY <2>0, Sizes DEF AnswersAreCounted
  <2> QED
    BY <2>2, <2>3, <2>4, Sizes
<1> QED
  BY <1>1, PoolInvariance, PTL
-----------------------------------------------------------------------------
(***************************************************************************)
(* No error of a goroutine is lost between its C call and the result of    *)
(* getAttributes, for surfaces of every shape.                             *)
(***************************************************************************)

Ended == {"returned", "surfacesClosed", "closed"}
IsIn(x, seq) == \E k \in 1 .. Len(seq) : seq[k] = x

(***************************************************************************)
(* Where the error of a goroutine is: still its own, in errs, or received; *)
(* and what is received decides about the result.                          *)
(***************************************************************************)
ReportInv ==
    /\ \A g \in Routines : gerr[g] # NoError => gpc[g] \in {"send", "release", "done"}
    /\ \A g \in Sent : gerr[g] # NoError => IsIn(gerr[g], errs) \/ IsIn(gerr[g], computeErrors)
    /\ \A k \in 1 .. Len(errs) : errs[k] # NoError => \E g \in Routines : gerr[g] = errs[k]
    /\ \A k \in 1 .. Len(computeErrors) :
          computeErrors[k] # NoError /\ \E g \in Routines : gerr[g] = computeErrors[k]
    /\ pc \in Ended /\ nRoutines > 0 =>
          result = IF computeErrors # <<>> THEN Head(computeErrors) ELSE Success
    /\ pc \in Ended /\ nRoutines = 0 => result \in {<<"subvolume">>, <<"arguments">>}
    /\ pc \notin Ended => result = NoResult
    /\ from > 0 => nRoutines > 0

-----------------------------------------------------------------------------
(***************************************************************************)
(* An error is neither the lack of one nor a success.                      *)
(***************************************************************************)
LEMMA ErrorsDiffer ==
    ASSUME NEW e \in GoroutineErrors
    PROVE  e # NoError /\ e # Success /\ e # NoResult
  BY DEF GoroutineErrors, NoError, Success, NoResult

(***************************************************************************)
(* What the channel and the received errors are made of.                   *)
(***************************************************************************)
LEMMA QueueTypes ==
    ASSUME PoolInv
    PROVE  /\ errs \in Seq(GoroutineErrors \union {NoError})
           /\ computeErrors \in Seq(GoroutineErrors)
           /\ Len(errs) \in Nat /\ Len(computeErrors) \in Nat
           /\ gerr \in [Routines -> GoroutineErrors \union {NoError}]
           /\ gpc \in [Routines -> {"none", "enter", "fetch", "compute", "send", "release", "done"}]
           /\ from \in Nat /\ nRoutines \in Nat
<1>1. /\ errs \in Seq(GoroutineErrors \union {NoError})
      /\ computeErrors \in Seq(GoroutineErrors)
      /\ gerr \in [Routines -> GoroutineErrors \union {NoError}]
      /\ gpc \in [Routines -> {"none", "enter", "fetch", "compute", "send", "release", "done"}]
      /\ from \in Nat
  BY DEF PoolInv, TypeOK
<1> QED
  BY <1>1, PoolFacts

(***************************************************************************)
(* At first there is no error and no result.                               *)
(***************************************************************************)
LEMMA ReportInit == Init => ReportInv
<1> SUFFICES ASSUME Init PROVE ReportInv
  OBVIOUS
<1>1. \A g \in Routines : gerr[g] = NoError
  BY DEF Init
<1>2. Len(errs) = 0 /\ Len(computeErrors) = 0
  BY DEF Init
<1>3. \A g \in Sent : gerr[g] = NoError
  BY <1>1 DEF Sent
<1>4. pc = "subvolume" /\ result = NoResult /\ from = 0
  BY DEF Init
<1> QED
  BY <1>1, <1>2, <1>3, <1>4 DEF ReportInv, Ended

(***************************************************************************)
(* A step inside C.attribute may give a goroutine that has none an error;  *)
(* it sends nothing.                                                       *)
(***************************************************************************)
LEMMA ReportInsideC ==
    ASSUME PoolInv, ReportInv, NEW g \in Routines, InsideC(g),
           gerr' = gerr \/ (gerr' = [gerr EXCEPT ![g] = <<"error", g>>]
                            /\ gpc' = [gpc EXCEPT ![g] = "send"])
    PROVE  ReportInv'
<1>1. /\ gerr \in [Routines -> GoroutineErrors \union {NoError}]
      /\ gpc \in [Routines -> {"none", "enter", "fetch", "compute", "send", "release", "done"}]
  BY QueueTypes
<1>2. PICK next \in {"fetch", "compute", "send"} : gpc' = [gpc EXCEPT ![g] = next]
  BY ZenonT(30) DEF InsideC
<1>3. gpc[g] \in {"enter", "fetch", "compute"} /\ gerr[g] = NoError /\ g \notin Sent
  BY DEF InsideC, InC, ReportInv, Sent
<1>4. Sent' = Sent
  BY <1>1, <1>2, <1>3 DEF Sent
<1>5. \A h \in Routines : h # g => gerr'[h] = gerr[h] /\ gpc'[h] = gpc[h]
  BY <1>1, <1>2
<1>6. \A h \in Routines : gerr'[h] # NoError => gpc'[h] \in {"send", "release", "done"}
  <2>1. gerr'[g] # NoError => gpc'[g] = "send"
    BY <1>1, <1>3
  <2> QED
    BY <1>5, <2>1 DEF ReportInv
<1>7. /\ errs' = errs /\ computeErrors' = computeErrors /\ pc' = pc /\ result' = result
      /\ nRoutines' = nRoutines /\ from' = from
  BY DEF InsideC, mainVars, chanVars
<1>8. \A h \in Sent' : gerr'[h] # NoError => IsIn(gerr'[h], errs') \/ IsIn(gerr'[h], computeErrors')
  BY <1>3, <1>4, <1>5, <1>7 DEF ReportInv, Sent
<1>9. \A h \in Routines : gerr[h] # NoError => gerr'[h] = gerr[h]
  BY <1>3, <1>5
<1>10. \A k \in 1 .. Len(errs') : errs'[k] # NoError => \E h \in Routines : gerr'[h] = errs'[k]
  BY <1>7, <1>9 DEF ReportInv
<1>11. \A k \in 1 .. Len(computeErrors') :
          computeErrors'[k] # NoError /\ \E h \in Routines : gerr'[h] = computeErrors'[k]
  BY <1>7, <1>9 DEF ReportInv
<1>12. /\ pc' \in Ended /\ nRoutines' > 0 =>
             result' = IF computeErrors' # <<>> THEN Head(computeErrors') ELSE Success
       /\ pc' \in Ended /\ nRoutines' = 0 => result' \in {<<"subvolume">>, <<"arguments">>}
       /\ pc' \notin Ended => result' = NoResult
       /\ from' > 0 => nRoutines' > 0
  BY <1>7 DEF ReportInv
<1> QED
  BY <1>6, <1>8, <1>10, <1>11, <1>12 DEF ReportInv

(***************************************************************************)
(* No step loses an error on its way from a goroutine to the result.       *)
(***************************************************************************)
LEMMA ReportStep ==
    ASSUME PoolInv, ReportInv, [Next]_vars
    PROVE  ReportInv'
<1>0. /\ errs \in Seq(GoroutineErrors \union {NoError})
      /\ computeErrors \in Seq(GoroutineErrors)
      /\ Len(errs) \in Nat /\ Len(computeErrors) \in Nat
      /\ gerr \in [Routines -> GoroutineErrors \union {NoError}]
      /\ gpc \in [Routines -> {"none", "enter", "fetch", "compute", "send", "release", "done"}]
      /\ from \in Nat /\ nRoutines \in Nat
  BY QueueTypes
<1>a. StartedInOrder
  BY PoolFacts
\* Steps of the main goroutine that leave the errors where they are.
<1>b. ASSUME UNCHANGED <<gpc, gerr, errs, computeErrors, nRoutines>>,
             from' > 0 => nRoutines > 0,
             pc' \in Ended /\ nRoutines > 0 =>
               result' = IF computeErrors # <<>> THEN Head(computeErrors) ELSE Success,
             pc' \in Ended /\ nRoutines = 0 => result' \in {<<"subvolume">>, <<"arguments">>},
             pc' \notin Ended => result' = NoResult
      PROVE  ReportInv'
  <2>1. Sent' = Sent
    BY <1>b DEF Sent
  <2> QED
    BY <1>b, <2>1 DEF ReportInv, IsIn
<1>1. CASE SubvolumeNew
  <2>1. nRoutines = 0
    BY <1>1, <1>a DEF SubvolumeNew, StartedInOrder
  <2> QED
    BY <1>b, <1>1, <2>1 DEF SubvolumeNew, chanVars, ReportInv, Ended
<1>2. CASE RejectNoAttributes
  <2>1. nRoutines = 0
    BY <1>2, <1>a DEF RejectNoAttributes, StartedInOrder
  <2> QED
    BY <1>b, <1>2, <2>1 DEF RejectNoAttributes, chanVars, ReportInv, Ended
<1>3. CASE Prepare
  BY <1>b, <1>3 DEF Prepare, chanVars, ReportInv, Ended
<1>4. CASE StartGoroutine
  <2>1. nRoutines \in Routines \/ gpc' = gpc
    BY <1>0, <1>4 DEF StartGoroutine
  <2>2. gpc[nRoutines] = "none" \/ gpc' = gpc
    BY <1>0, <1>a, <2>1 DEF StartedInOrder
  <2>3. Sent' = Sent
    BY <1>0, <1>4, <2>1, <2>2 DEF StartGoroutine, Sent
  <2>4. \A g \in Routines : gerr'[g] # NoError => gpc'[g] \in {"send", "release", "done"}
    BY <1>0, <1>4, <2>1, <2>2 DEF StartGoroutine, ReportInv
  <2>5. /\ errs' = errs /\ computeErrors' = computeErrors /\ gerr' = gerr
        /\ pc' = pc /\ pc = "loop" /\ result' = result /\ nRoutines' > 0
    BY <1>0, <1>4 DEF StartGoroutine
  <2> QED
    BY <2>3, <2>4, <2>5 DEF ReportInv, IsIn, Ended
<1>5. CASE Collect
  <2>1. /\ pc = "loop" /\ pc' = pc /\ result' = result /\ from' = from /\ nRoutines' = nRoutines
        /\ gerr' = gerr /\ gpc' = gpc /\ errs' = Tail(errs) /\ errs # <<>>
        /\ computeErrors' = IF Head(errs) # NoError
                            THEN Append(computeErrors, Head(errs)) ELSE computeErrors
    BY <1>5 DEF Collect, WithError
  <2>2. Sent' = Sent
    BY <2>1 DEF Sent
  <2>3. /\ Len(errs') = Len(errs) - 1
        /\ \A k \in 1 .. Len(errs') : errs'[k] = errs[k + 1] /\ k + 1 \in 1 .. Len(errs)
        /\ 1 \in 1 .. Len(errs) /\ Head(errs) = errs[1]
        /\ Head(errs) \in GoroutineErrors \union {NoError}
    BY <1>0, <2>1
  <2>4. ASSUME NEW x, IsIn(x, errs), x # NoError PROVE IsIn(x, errs') \/ IsIn(x, computeErrors')
    <3>1. PICK k \in 1 .. Len(errs) : errs[k] = x
      BY <2>4 DEF IsIn
    <3>2. CASE k = 1
      <4>1. computeErrors' = Append(computeErrors, x)
        BY <2>1, <2>3, <2>4, <3>1, <3>2
      <4>2. x \in GoroutineErrors
        BY <2>3, <2>4, <3>1, <3>2
      <4>3. Len(computeErrors') = Len(computeErrors) + 1 /\ computeErrors'[Len(computeErrors) + 1] = x
        BY <1>0, <4>1, <4>2
      <4> QED
        BY <1>0, <4>3 DEF IsIn
    <3>3. CASE k # 1
      <4>1. k - 1 \in 1 .. Len(errs') /\ errs'[k - 1] = x
        BY <1>0, <2>3, <3>1, <3>3
      <4> QED
        BY <4>1 DEF IsIn
    <3> QED
      BY <3>2, <3>3
  <2>5. ASSUME NEW x, IsIn(x, computeErrors) PROVE IsIn(x, computeErrors')
    <3>1. PICK k \in 1 .. Len(computeErrors) : computeErrors[k] = x
      BY <2>5 DEF IsIn
    <3>2. k \in 1 .. Len(computeErrors') /\ computeErrors'[k] = x
      BY <1>0, <2>1, <2>3, <3>1
    <3> QED
      BY <3>2 DEF IsIn
  <2>6. \A g \in Sent' : gerr'[g] # NoError => IsIn(gerr'[g], errs') \/ IsIn(gerr'[g], computeErrors')
    BY <2>1, <2>2, <2>4, <2>5 DEF ReportInv
  <2>7. \A k \in 1 .. Len(errs') : errs'[k] # NoError => \E g \in Routines : gerr'[g] = errs'[k]
    BY <2>1, <2>3 DEF ReportInv
  <2>8. ASSUME NEW k \in 1 .. Len(computeErrors')
        PROVE  computeErrors'[k] # NoError /\ \E g \in Routines : gerr'[g] = computeErrors'[k]
    <3>1. CASE k \in 1 .. Len(computeErrors) /\ computeErrors'[k] = computeErrors[k]
      BY <2>1, <3>1 DEF ReportInv
    <3>2. CASE computeErrors'[k] = Head(errs) /\ Head(errs) # NoError
      BY <2>1, <2>3, <3>2 DEF ReportInv
    <3>3. \/ k \in 1 .. Len(computeErrors) /\ computeErrors'[k] = computeErrors[k]
          \/ computeErrors'[k] = Head(errs) /\ Head(errs) # NoError
      BY <1>0, <2>1, <2>3, <2>8
    <3> QED
      BY <3>1, <3>2, <3>3
  <2> QED
    BY <2>1, <2>6, <2>7, <2>8 DEF ReportInv, Ended
<1>6. CASE Return
  <2>1. nRoutines > 0
    BY <1>6, <1>0, Sizes DEF Return, ReportInv
  <2> QED
    BY <1>b, <1>6, <2>1 DEF Return, chanVars, Ended
<1>7. CASE CloseSurfaces
  BY <1>b, <1>7 DEF CloseSurfaces, chanVars, ReportInv, Ended
<1>8. CASE CloseHandle
  BY <1>b, <1>8 DEF CloseHandle, chanVars, ReportInv, Ended
<1>9. ASSUME NEW g \in Routines, EnterAttribute(g) \/ FetchSubvolume(g) \/ CalcAttributes(g)
      PROVE  ReportInv'
  <2>1. InsideC(g)
    BY <1>9 DEF EnterAttribute, FetchSubvolume, CalcAttributes, Throw, InsideC, InC
  <2>2. \/ gerr' = gerr
        \/ gerr' = [gerr EXCEPT ![g] = <<"error", g>>] /\ gpc' = [gpc EXCEPT ![g] = "send"]
    BY <1>9 DEF EnterAttribute, FetchSubvolume, CalcAttributes, Throw
  <2> QED
    BY <2>1, <2>2, ReportInsideC
<1>10. ASSUME NEW g \in Routines, SendError(g) PROVE ReportInv'
  <2>1. /\ pc' = pc /\ result' = result /\ from' = from /\ nRoutines' = nRoutines
        /\ gerr' = gerr /\ computeErrors' = computeErrors /\ errs' = Append(errs, gerr[g])
        /\ gpc[g] = "send" /\ gpc' = [gpc EXCEPT ![g] = "release"]
    BY <1>10 DEF SendError, mainVars
  <2>2. Sent' = Sent \union {g}
    BY <1>0, <2>1 DEF Sent
  <2>3. /\ Len(errs') = Len(errs) + 1
        /\ \A k \in 1 .. Len(errs) : errs'[k] = errs[k] /\ k \in 1 .. Len(errs')
        /\ errs'[Len(errs) + 1] = gerr[g] /\ Len(errs) + 1 \in 1 .. Len(errs')
        /\ \A k \in 1 .. Len(errs') : k \in 1 .. Len(errs) \/ k = Len(errs) + 1
    <3>1. gerr[g] \in GoroutineErrors \union {NoError}
      BY <1>0
    <3> QED
      BY <1>0, <2>1, <3>1
  <2>4. \A h \in Sent' : gerr'[h] # NoError => IsIn(gerr'[h], errs') \/ IsIn(gerr'[h], computeErrors')
    <3>1. \A x : IsIn(x, errs) => IsIn(x, errs')
      BY <2>3 DEF IsIn
    <3>2. IsIn(gerr[g], errs')
      BY <2>3 DEF IsIn
    <3> QED
      BY <2>1, <2>2, <3>1, <3>2 DEF ReportInv
  <2>5. \A k \in 1 .. Len(errs') : errs'[k] # NoError => \E h \in Routines : gerr'[h] = errs'[k]
    BY <2>1, <2>3 DEF ReportInv
  <2>6. \A h \in Routines : gerr'[h] # NoError => gpc'[h] \in {"send", "release", "done"}
    BY <1>0, <2>1 DEF ReportInv
  <2> QED
    BY <2>1, <2>4, <2>5, <2>6 DEF ReportInv
<1>11. ASSUME NEW g \in Routines, ReleaseGuard(g) PROVE ReportInv'
  <2>1. /\ pc' = pc /\ result' = result /\ from' = from /\ nRoutines' = nRoutines
        /\ gerr' = gerr /\ computeErrors' = computeErrors /\ errs' = errs
        /\ gpc[g] = "release" /\ gpc' = [gpc EXCEPT ![g] = "done"]
    BY <1>11 DEF ReleaseGuard, mainVars
  <2>2. Sent' = Sent
    BY <1>0, <2>1 DEF Sent
  <2>3. \A h \in Routines : gerr'[h] # NoError => gpc'[h] \in {"send", "release", "done"}
    BY <1>0, <2>1 DEF ReportInv
  <2> QED
    BY <2>1, <2>2, <2>3 DEF ReportInv, IsIn
<1>12. CASE UNCHANGED vars
  BY <1>b, <1>12 DEF vars, mainVars, chanVars, ReportInv
<1> QED
  BY <1>1, <1>2, <1>3, <1>4, <1>5, <1>6, <1>7, <1>8, <1>9, <1>10, <1>11, <1>12
     DEF Next, Main, Goroutine

(***************************************************************************)
(* Where the errors are, throughout every run.                             *)
(***************************************************************************)
LEMMA ReportInvariance == Spec => [](PoolInv /\ ReportInv)
<1>1. Init => PoolInv /\ ReportInv
  BY PoolInit, ReportInit
<1>2. (PoolInv /\ ReportInv) /\ [Next]_vars => (PoolInv /\ ReportInv)'
  BY PoolStep, ReportStep
<1> QED
  BY <1>1, <1>2, PTL DEF Spec

(***************************************************************************)
(* As many answers as goroutines were received: every goroutine that was   *)
(* started has answered, and nothing is left in the channel.               *)
(***************************************************************************)
LEMMA AllAnswered ==
    ASSUME PoolInv, received >= nRoutines
    PROVE  /\ Len(errs) = 0
           /\ \A g \in Routines : gpc[g] # "none" => g \in Sent
<1>0. /\ StartedInOrder /\ AnswersAreCounted
      /\ received \in Nat /\ nRoutines \in Nat /\ Len(errs) \in Nat
  BY PoolFacts
<1>1. Routines \subseteq Nat
  BY Sizes DEF Routines
<1>2. Sent \subseteq 0 .. nRoutines - 1
  <2>1. ASSUME NEW g \in Sent PROVE g \in Nat /\ g < nRoutines
    <3>1. g \in Routines /\ gpc[g] # "none"
      BY <2>1 DEF Sent
    <3> QED
      BY <1>0, <1>1, <3>1 DEF StartedInOrder
  <2> QED
    BY <1>0, <2>1
<1>3. IsFiniteSet(0 .. nRoutines - 1) /\ Cardinality(0 .. nRoutines - 1) = nRoutines
  <2>1. 0 \in Int /\ nRoutines - 1 \in Int /\ nRoutines = (IF 0 > nRoutines - 1 THEN 0 ELSE nRoutines - 1 - 0 + 1)
    BY <1>0
  <2> QED
    BY <2>1, FS_Interval
<1>4. /\ Cardinality(Sent) <= nRoutines /\ Cardinality(Sent) \in Nat
      /\ nRoutines = Cardinality(Sent) => 0 .. nRoutines - 1 = Sent
  BY ZenonT(30), <1>2, <1>3, FS_Subset, FS_CardinalityType
<1>5. Len(errs) = 0 /\ nRoutines = Cardinality(Sent)
  BY <1>0, <1>4 DEF AnswersAreCounted
<1>6. \A g \in Routines : gpc[g] # "none" => g \in 0 .. nRoutines - 1
  BY <1>0, <1>1 DEF StartedInOrder
<1> QED
  BY <1>4, <1>5, <1>6

(***************************************************************************)
(* What the invariant says about the result of a finished pool.            *)
(***************************************************************************)
LEMMA ReportedErrors ==
    ASSUME PoolInv, ReportInv
    PROVE  ErrorsAreReported
<1> SUFFICES ASSUME pc \in Ended, nRoutines > 0
             PROVE  IF \A g \in Routines : gerr[g] = NoError
                    THEN result = Success
                    ELSE \E g \in Routines : gerr[g] # NoError /\ result = gerr[g]
  BY DEF ErrorsAreReported, Ended
<1>0. computeErrors \in Seq(GoroutineErrors) /\ Len(computeErrors) \in Nat
  BY QueueTypes
<1>1. received >= nRoutines
  BY PoolFacts DEF AnswersAreCounted, Ended
<1>2. /\ Len(errs) = 0
      /\ \A g \in Routines : gpc[g] # "none" => g \in Sent
  BY <1>1, AllAnswered
<1>3. result = IF computeErrors # <<>> THEN Head(computeErrors) ELSE Success
  BY DEF ReportInv
<1>4. computeErrors # <<>> =>
        \E g \in Routines : gerr[g] # NoError /\ Head(computeErrors) = gerr[g]
  <2> SUFFICES ASSUME computeErrors # <<>>
               PROVE  \E g \in Routines : gerr[g] # NoError /\ Head(computeErrors) = gerr[g]
    OBVIOUS
  <2>1. 1 \in 1 .. Len(computeErrors) /\ Head(computeErrors) = computeErrors[1]
    BY <1>0
  <2> QED
    BY <2>1 DEF ReportInv
<1>5. ASSUME NEW g \in Routines, gerr[g] # NoError PROVE computeErrors # <<>>
  <2>1. g \in Sent
    BY <1>2, <1>5 DEF ReportInv
  <2>2. ~ IsIn(gerr[g], errs)
    BY <1>2 DEF IsIn
  <2>3. IsIn(gerr[g], computeErrors)
    BY <1>5, <2>1, <2>2 DEF ReportInv
  <2> QED
    BY <2>3 DEF IsIn
<1> QED
  BY <1>3, <1>4, <1>5

(***************************************************************************)
(* For surfaces of every shape: getAttributes returns an error exactly if  *)
(* some goroutine failed, and it is the error of one of them; none is lost *)
(* in the channel errs or in computeErrors.                                *)
(***************************************************************************)
THEOREM EveryErrorIsReported == Spec => []ErrorsAreReported
<1>1. PoolInv /\ ReportInv => ErrorsAreReported
  BY ReportedErrors
<1> QED
  BY <1>1, ReportInvariance, PTL
=============================================================================
