------------------------ MODULE AttributeMapsProofs -------------------------
(***************************************************************************)
(* The goroutine pool keeps the promise of AttributeMaps, for surfaces of  *)
(* every shape: a success is complete, and the answer does not change once *)
(* it is given.                                                            *)
(***************************************************************************)
EXTENDS AttributePoolProofs

\* Every attribute is in its cell at position i.
Written(i) == \A a \in 0 .. nAttributes - 1 : buffer[Cell(a, i)] = Wanted(a, i)

(***************************************************************************)
(* How far each goroutine has written, and that chunks leave no gap.       *)
(***************************************************************************)
Progress(g) ==
    /\ gpc[g] = "fetch" => gfrom[g] < gto[g]
    /\ gpc[g] = "compute" =>
         /\ gfrom[g] <= gi[g] /\ gi[g] < gto[g]
         /\ Chunk(g) \ empty \subseteq fetched
         /\ \A i \in gfrom[g] .. gi[g] - 1 : Written(i)
    /\ gpc[g] \in {"send", "release", "done"} /\ gerr[g] = NoError => \A i \in Chunk(g) : Written(i)

WrittenInv ==
    /\ pc = "loop" \/ nRoutines > 0 => DOMAIN buffer = 0 .. mapsize * nAttributes - 1
    /\ pc = "loop" => to = Minimum(from + chunkSize, hsize)
    /\ pc \in Ended /\ nRoutines > 0 => from >= hsize
    /\ \A i \in Positions : i < from =>
          \E g \in Routines : g < nRoutines /\ i \in Chunk(g)
    /\ \A g \in Routines : Progress(g)

-----------------------------------------------------------------------------
(***************************************************************************)
(* Products of naturals grow with their factors.                           *)
(***************************************************************************)
LEMMA ProductsGrow ==
    ASSUME NEW x \in Nat, NEW y \in Nat, NEW h \in Nat, x < y
    PROVE  x * h + h <= y * h /\ x * h \in Nat /\ y * h \in Nat
<1>1. y = x + 1 + (y - x - 1) /\ y - x - 1 \in Nat
  OBVIOUS
<1>2. \A d \in Nat : (x + 1 + d) * h = x * h + h + d * h /\ d * h \in Nat
  BY SMT
<1> QED
  BY <1>1, <1>2, SMT

(***************************************************************************)
(* The cells of two attributes or of two positions are different, and all  *)
(* of them are in the buffer.                                              *)
(***************************************************************************)
LEMMA CellsDiffer ==
    ASSUME nAttributes \in Nat,
           NEW a \in 0 .. nAttributes - 1, NEW b \in 0 .. nAttributes - 1,
           NEW i \in Positions, NEW j \in Positions
    PROVE  /\ Cell(a, i) = Cell(b, j) => a = b /\ i = j
           /\ Cell(a, i) \in 0 .. mapsize * nAttributes - 1
<1>0. /\ hsize \in Nat /\ hsize > 0 /\ a \in Nat /\ b \in Nat /\ a < nAttributes
      /\ i \in Nat /\ i < hsize /\ j \in Nat /\ j < hsize
  BY Sizes DEF Positions
<1>1. a < b => a * hsize + hsize <= b * hsize
  BY <1>0, ProductsGrow
<1>2. b < a => b * hsize + hsize <= a * hsize
  BY <1>0, ProductsGrow
<1>3. a * hsize \in Nat /\ b * hsize \in Nat /\ nAttributes * hsize \in Nat
  BY <1>0, SMT
<1>4. a * hsize + hsize <= nAttributes * hsize
  BY <1>0, ProductsGrow
<1>5. nAttributes * hsize = mapsize * nAttributes
  BY <1>0, SMT DEF mapsize
<1> HIDE DEF hsize
<1> DEFINE p == a * hsize
           q == b * hsize
           n == nAttributes * hsize
<1>6. Cell(a, i) = p + i /\ Cell(b, j) = q + j
  BY DEF Cell
<1>7. /\ p \in Nat /\ q \in Nat /\ n \in Nat /\ p + hsize <= n
      /\ a < b => p + hsize <= q
      /\ b < a => q + hsize <= p
      /\ a = b => p = q
  BY <1>1, <1>2, <1>3, <1>4
<1> HIDE DEF p, q, n
<1>8. p + i = q + j => a = b /\ i = j
  BY <1>0, <1>7
<1>9. p + i \in 0 .. n - 1
  BY <1>0, <1>7
<1> QED
  BY <1>5, <1>6, <1>8, <1>9 DEF n

(***************************************************************************)
(* AttributeMap::write at one position, for a position that has no samples *)
(* or whose samples have been read: its cells get what is wanted, and no   *)
(* other cell changes.                                                     *)
(***************************************************************************)
LEMMA WriteIsExact ==
    ASSUME nAttributes \in Nat, DOMAIN buffer = 0 .. mapsize * nAttributes - 1,
           NEW j \in Positions, j \in empty \/ j \in fetched,
           NEW i \in Positions, NEW a \in 0 .. nAttributes - 1
    PROVE  WriteAt(j)[Cell(a, i)] = IF i = j THEN Wanted(a, i) ELSE buffer[Cell(a, i)]
<1> DEFINE attrs(c) == {x \in 0 .. nAttributes - 1 : c = Cell(x, j)}
<1>1. Cell(a, i) \in DOMAIN buffer
  BY CellsDiffer
<1>2. WriteAt(j)[Cell(a, i)] = IF attrs(Cell(a, i)) = {} THEN buffer[Cell(a, i)]
                               ELSE Computed(CHOOSE x \in attrs(Cell(a, i)) : TRUE, j)
  BY <1>1 DEF WriteAt
<1>3. \A x \in attrs(Cell(a, i)) : x = a /\ i = j
  BY CellsDiffer
<1>4. i = j => a \in attrs(Cell(a, i))
  OBVIOUS
<1>5. CASE i = j
  <2>1. (CHOOSE x \in attrs(Cell(a, i)) : TRUE) = a /\ attrs(Cell(a, i)) # {}
    BY <1>3, <1>4, <1>5
  <2>2. Computed(a, j) = Wanted(a, j)
    BY DEF Computed, Wanted
  <2> HIDE DEF attrs
  <2> QED
    BY ZenonT(30), <1>2, <1>5, <2>1, <2>2
<1>6. CASE i # j
  <2>1. attrs(Cell(a, i)) = {}
    BY <1>3, <1>6
  <2> HIDE DEF attrs
  <2> QED
    BY <1>2, <1>6, <2>1
<1> QED
  BY <1>5, <1>6

-----------------------------------------------------------------------------
(***************************************************************************)
(* The types that the writing of the maps depends on.                      *)
(***************************************************************************)
LEMMA WriterTypes ==
    ASSUME PoolInv
    PROVE  /\ nAttributes \in Nat /\ from \in Nat /\ to \in Nat /\ nRoutines \in Nat
           /\ gfrom \in [Routines -> Nat] /\ gto \in [Routines -> Nat] /\ gi \in [Routines -> Nat]
           /\ gpc \in [Routines -> {"none", "enter", "fetch", "compute", "send", "release", "done"}]
           /\ gerr \in [Routines -> GoroutineErrors \union {NoError}]
           /\ Routines \subseteq Nat
           /\ \A g \in Routines : gpc[g] # "none" =>
                 g < nRoutines /\ nRoutines > 0 /\ Chunk(g) \subseteq Positions
<1>1. /\ nAttributes \in Nat /\ from \in Nat /\ to \in Nat
      /\ gfrom \in [Routines -> Nat] /\ gto \in [Routines -> Nat] /\ gi \in [Routines -> Nat]
      /\ gpc \in [Routines -> {"none", "enter", "fetch", "compute", "send", "release", "done"}]
      /\ gerr \in [Routines -> GoroutineErrors \union {NoError}]
  BY DEF PoolInv, TypeOK
<1>2. Routines \subseteq Nat /\ hsize \in Nat
  BY Sizes DEF Routines
<1>3. StartedInOrder /\ ChunksInOrder /\ nRoutines \in Nat
  BY PoolFacts
<1>4. ASSUME NEW g \in Routines, gpc[g] # "none"
      PROVE  g < nRoutines /\ nRoutines > 0 /\ Chunk(g) \subseteq Positions
  <2>1. g \in Nat /\ g < nRoutines
    BY <1>2, <1>3, <1>4 DEF StartedInOrder
  <2>2. gto[g] <= hsize /\ gfrom[g] \in Nat /\ gto[g] \in Nat
    BY <1>1, <1>3, <2>1 DEF ChunksInOrder
  <2> QED
    BY <1>2, <1>3, <2>1, <2>2 DEF Chunk, Positions
<1> QED
  BY <1>1, <1>2, <1>3, <1>4

(***************************************************************************)
(* Nothing is written before the loop, and no chunk is given out.          *)
(***************************************************************************)
LEMMA WrittenInit == Init => WrittenInv
<1> SUFFICES ASSUME Init PROVE WrittenInv
  OBVIOUS
<1>1. pc = "subvolume" /\ nRoutines = 0 /\ from = 0 /\ \A g \in Routines : gpc[g] = "none"
  BY DEF Init
<1>2. \A i \in Positions : ~ (i < 0)
  BY Sizes DEF Positions
<1> QED
  BY <1>1, <1>2 DEF WrittenInv, Progress, Ended

(***************************************************************************)
(* A goroutine that does not move keeps what it has written, if the writes *)
(* of others do.                                                           *)
(***************************************************************************)
LEMMA ProgressKept ==
    ASSUME PoolInv, NEW g \in Routines, Progress(g),
           gpc'[g] = gpc[g], gerr'[g] = gerr[g], gfrom'[g] = gfrom[g], gto'[g] = gto[g],
           gi'[g] = gi[g], empty' = empty, fetched \subseteq fetched',
           \A i \in Positions : Written(i) => Written(i)'
    PROVE  Progress(g)'
<1>1. CASE gpc[g] = "none"
  BY <1>1 DEF Progress
<1>2. CASE gpc[g] # "none"
  <2>1. Chunk(g)' = Chunk(g) /\ Chunk(g) \subseteq Positions
    BY <1>2, WriterTypes DEF Chunk
  <2>2. gfrom[g] \in Nat /\ gto[g] \in Nat /\ gi[g] \in Nat
    BY WriterTypes
  <2>3. gi[g] < gto[g] => (gfrom[g] .. gi[g] - 1) \subseteq Chunk(g)
    BY <2>2 DEF Chunk
  <2>4. gpc'[g] = "fetch" => gfrom'[g] < gto'[g]
    BY DEF Progress
  <2>5. gpc'[g] = "compute" =>
          /\ gfrom'[g] <= gi'[g] /\ gi'[g] < gto'[g]
          /\ Chunk(g)' \ empty' \subseteq fetched'
          /\ \A i \in gfrom'[g] .. gi'[g] - 1 : Written(i)'
    BY <2>1, <2>3 DEF Progress
  <2>6. gpc'[g] \in {"send", "release", "done"} /\ gerr'[g] = NoError =>
          \A i \in Chunk(g)' : Written(i)'
    BY <2>1 DEF Progress
  <2> QED
    BY <2>4, <2>5, <2>6 DEF Progress
<1> QED
  BY <1>1, <1>2

(***************************************************************************)
(* One turn of calc_attributes: the goroutine has written one position     *)
(* more, and nobody's positions are lost.                                  *)
(***************************************************************************)
LEMMA CalcWrites ==
    ASSUME PoolInv, ReportInv, WrittenInv, NEW g \in Routines, gpc[g] = "compute",
           buffer' = WriteAt(gi[g]), nAttributes' = nAttributes, empty' = empty
    PROVE  /\ \A i \in Positions : Written(i) \/ i = gi[g] => Written(i)'
           /\ DOMAIN buffer' = DOMAIN buffer
           /\ gi[g] \in Positions
<1>1. /\ nAttributes \in Nat /\ gi[g] \in Nat /\ gfrom[g] \in Nat /\ gto[g] \in Nat
      /\ nRoutines > 0 /\ Chunk(g) \subseteq Positions
  BY WriterTypes
<1>2. gi[g] \in Chunk(g) /\ Chunk(g) \ empty \subseteq fetched
  BY <1>1 DEF WrittenInv, Progress, Chunk
<1>3. gi[g] \in Positions /\ (gi[g] \in empty \/ gi[g] \in fetched)
  BY <1>1, <1>2
<1>4. DOMAIN buffer = 0 .. mapsize * nAttributes - 1
  BY <1>1 DEF WrittenInv
<1>5. \A i \in Positions : \A a \in 0 .. nAttributes - 1 :
        buffer'[Cell(a, i)] = IF i = gi[g] THEN Wanted(a, i) ELSE buffer[Cell(a, i)]
  BY <1>1, <1>3, <1>4, WriteIsExact
<1>6. \A a, i : Cell(a, i)' = Cell(a, i) /\ Wanted(a, i)' = Wanted(a, i)
  BY DEF Cell, Wanted
<1>7. ASSUME NEW i \in Positions, Written(i) \/ i = gi[g] PROVE Written(i)'
  <2>1. \A a \in 0 .. nAttributes - 1 : buffer'[Cell(a, i)] = Wanted(a, i)
    BY <1>5, <1>7 DEF Written
  <2> QED
    BY <2>1, <1>6 DEF Written
<1>8. DOMAIN buffer' = DOMAIN buffer
  BY DEF WriteAt
<1> QED
  BY <1>3, <1>7, <1>8

(***************************************************************************)
(* Starting a goroutine: its chunk follows on those given out before.      *)
(***************************************************************************)
LEMMA WrittenStart ==
    ASSUME PoolInv, WrittenInv, StartGoroutine
    PROVE  WrittenInv'
<1>0. /\ nAttributes \in Nat /\ from \in Nat /\ to \in Nat /\ nRoutines \in Nat
      /\ gfrom \in [Routines -> Nat] /\ gto \in [Routines -> Nat] /\ gi \in [Routines -> Nat]
      /\ gpc \in [Routines -> {"none", "enter", "fetch", "compute", "send", "release", "done"}]
      /\ Routines \subseteq Nat
  BY WriterTypes
<1>1. /\ from < hsize /\ pc = "loop" /\ pc' = pc /\ from' = from + chunkSize
      /\ to' = Minimum(to + chunkSize, hsize) /\ nRoutines' = nRoutines + 1
      /\ gpc' = [gpc EXCEPT ![nRoutines] = "enter"]
      /\ gfrom' = [gfrom EXCEPT ![nRoutines] = from]
      /\ gto' = [gto EXCEPT ![nRoutines] = to]
      /\ UNCHANGED <<gi, gerr, fetched, buffer, empty, nAttributes>>
  BY DEF StartGoroutine, NextFrom, NextTo, inputVars
<1>2. nRoutines \in Routines
  <2>1. nRoutines <= from
    BY PoolFacts DEF StartedInOrder
  <2> QED
    BY <1>0, <1>1, <2>1, Sizes DEF Routines
<1>3. to = Minimum(from + chunkSize, hsize)
  BY <1>1 DEF WrittenInv
<1>4. to' = Minimum(from' + chunkSize, hsize)
  BY <1>0, <1>1, <1>3, Sizes DEF Minimum
<1>5. ASSUME NEW i \in Positions, i < from'
      PROVE  \E g \in Routines : g < nRoutines' /\ i \in Chunk(g)'
  <2>0. i \in Nat /\ i < hsize
    BY Sizes DEF Positions
  <2>1. CASE i < from
    <3>1. PICK g \in Routines : g < nRoutines /\ i \in Chunk(g)
      BY <2>1 DEF WrittenInv
    <3>2. gfrom'[g] = gfrom[g] /\ gto'[g] = gto[g] /\ g < nRoutines'
      BY <1>0, <1>1, <3>1
    <3> QED
      BY <3>1, <3>2 DEF Chunk
  <2>2. CASE i >= from
    <3>1. i \in from .. to - 1
      BY <1>0, <1>1, <1>3, <1>5, <2>0, <2>2, Sizes DEF Minimum
    <3>2. gfrom'[nRoutines] = from /\ gto'[nRoutines] = to /\ nRoutines < nRoutines'
      BY <1>0, <1>1, <1>2
    <3> QED
      BY <1>2, <3>1, <3>2 DEF Chunk
  <2> QED
    BY <1>0, <2>0, <2>1, <2>2
<1>6. ASSUME NEW g \in Routines PROVE Progress(g)'
  <2>1. CASE g = nRoutines
    <3>1. gpc'[g] = "enter"
      BY <1>0, <1>1, <2>1
    <3> QED
      BY <3>1 DEF Progress
  <2>2. CASE g # nRoutines
    <3>1. gpc'[g] = gpc[g] /\ gfrom'[g] = gfrom[g] /\ gto'[g] = gto[g]
      BY <1>0, <1>1, <2>2
    <3>2. \A i \in Positions : Written(i) => Written(i)'
      BY <1>1 DEF Written, Cell, Wanted
    <3>3. Progress(g)
      BY DEF WrittenInv
    <3> QED
      BY <1>1, <3>1, <3>2, <3>3, ProgressKept
  <2> QED
    BY <2>1, <2>2
<1>7. DOMAIN buffer' = 0 .. mapsize * nAttributes' - 1
  BY <1>1 DEF WrittenInv
<1> QED
  BY <1>1, <1>4, <1>5, <1>6, <1>7 DEF WrittenInv, Ended

(***************************************************************************)
(* A step of a goroutine: what remains to be shown is its own progress,    *)
(* and that it does not undo what others have written.                     *)
(***************************************************************************)
LEMMA WrittenByOne ==
    ASSUME PoolInv, WrittenInv, NEW g \in Routines,
           UNCHANGED <<inputVars, mainVars, chunkVars>>,
           \A h \in Routines \ {g} : /\ gpc'[h] = gpc[h] /\ gerr'[h] = gerr[h] /\ gi'[h] = gi[h],
           fetched \subseteq fetched',
           \A i \in Positions : Written(i) => Written(i)',
           DOMAIN buffer' = DOMAIN buffer,
           Progress(g)'
    PROVE  WrittenInv'
<1>1. /\ pc' = pc /\ from' = from /\ to' = to /\ nRoutines' = nRoutines
      /\ empty' = empty /\ nAttributes' = nAttributes /\ gfrom' = gfrom /\ gto' = gto
  BY DEF inputVars, mainVars, chunkVars
<1>2. ASSUME NEW h \in Routines PROVE Progress(h)'
  <2>1. CASE h = g
    BY <2>1
  <2>2. CASE h # g
    <3>1. Progress(h) /\ h \in Routines \ {g}
      BY <2>2 DEF WrittenInv
    <3> QED
      BY <1>1, <3>1, ProgressKept
  <2> QED
    BY <2>1, <2>2
<1>3. \A h : Chunk(h)' = Chunk(h)
  BY <1>1 DEF Chunk
<1>4. \A i \in Positions : i < from' => \E h \in Routines : h < nRoutines' /\ i \in Chunk(h)'
  BY <1>1, <1>3 DEF WrittenInv
<1>5. /\ pc' = "loop" \/ nRoutines' > 0 => DOMAIN buffer' = 0 .. mapsize * nAttributes' - 1
      /\ pc' = "loop" => to' = Minimum(from' + chunkSize, hsize)
      /\ pc' \in Ended /\ nRoutines' > 0 => from' >= hsize
  BY <1>1 DEF WrittenInv
<1> QED
  BY <1>2, <1>4, <1>5 DEF WrittenInv

(***************************************************************************)
(* Every step keeps track of what is written.                              *)
(***************************************************************************)
LEMMA WrittenStep ==
    ASSUME PoolInv, ReportInv, WrittenInv, [Next]_vars
    PROVE  WrittenInv'
<1>0. /\ nAttributes \in Nat /\ from \in Nat /\ to \in Nat /\ nRoutines \in Nat
      /\ gfrom \in [Routines -> Nat] /\ gto \in [Routines -> Nat] /\ gi \in [Routines -> Nat]
      /\ gpc \in [Routines -> {"none", "enter", "fetch", "compute", "send", "release", "done"}]
      /\ gerr \in [Routines -> GoroutineErrors \union {NoError}]
      /\ Routines \subseteq Nat
  BY WriterTypes
\* Steps of the main goroutine that write nothing.
<1>a. ASSUME UNCHANGED <<inputVars, from, to, nRoutines, chunkVars, gpc, gi, gerr, fetched, buffer>>,
             pc' = "loop" => pc = "loop",
             pc' \in Ended /\ nRoutines > 0 => from >= hsize
      PROVE  WrittenInv'
  <2>1. \A i \in Positions : Written(i) => Written(i)'
    BY <1>a DEF Written, Cell, Wanted, inputVars
  <2>2. ASSUME NEW g \in Routines PROVE Progress(g)'
    <3>1. Progress(g)
      BY DEF WrittenInv
    <3> QED
      BY <1>a, <2>1, <3>1, ProgressKept DEF inputVars, chunkVars
  <2>3. \A g : Chunk(g)' = Chunk(g)
    BY <1>a DEF Chunk, chunkVars
  <2> QED
    BY <1>a, <2>2, <2>3 DEF WrittenInv, inputVars
<1>1. CASE SubvolumeNew
  <2>1. nRoutines = 0
    BY <1>1, PoolFacts DEF SubvolumeNew, StartedInOrder
  <2> QED
    BY <1>a, <1>1, <2>1 DEF SubvolumeNew
<1>2. CASE RejectNoAttributes
  <2>1. nRoutines = 0
    BY <1>2, PoolFacts DEF RejectNoAttributes, StartedInOrder
  <2> QED
    BY <1>a, <1>2, <2>1 DEF RejectNoAttributes
<1>3. CASE Prepare
  <2>1. nRoutines = 0 /\ nRoutines' = 0 /\ from' = 0 /\ to' = chunkSize /\ pc' = "loop"
    BY <1>3, PoolFacts DEF Prepare, StartedInOrder
  <2>2. \A g \in Routines : gpc'[g] = "none"
    BY <1>0, <1>3, <2>1, PoolFacts DEF Prepare, StartedInOrder
  <2>3. DOMAIN buffer' = 0 .. mapsize * nAttributes' - 1
    BY <1>3 DEF Prepare, inputVars
  <2>4. to' = Minimum(from' + chunkSize, hsize)
    BY <2>1, Sizes DEF Minimum
  <2>5. \A i \in Positions : ~ (i < 0)
    BY Sizes DEF Positions
  <2> QED
    BY <2>1, <2>2, <2>3, <2>4, <2>5 DEF WrittenInv, Progress, Ended
<1>4. CASE StartGoroutine
  BY <1>4, WrittenStart
<1>5. CASE Collect
  BY <1>a, <1>5 DEF Collect, WrittenInv, Ended
<1>6. CASE Return
  BY <1>a, <1>6 DEF Return
<1>7. CASE CloseSurfaces
  BY <1>a, <1>7 DEF CloseSurfaces, WrittenInv, Ended
<1>8. CASE CloseHandle
  BY <1>a, <1>8 DEF CloseHandle, WrittenInv, Ended
\* A goroutine that has failed needs no progress, and writes nothing.
<1>b. ASSUME NEW g \in Routines, Throw(g), UNCHANGED <<inputVars, mainVars, chunkVars, gi, fetched, buffer>>
      PROVE  WrittenInv'
  <2>1. gpc'[g] = "send" /\ gerr'[g] # NoError
    <3>1. gpc'[g] = "send" /\ gerr'[g] = <<"error", g>>
      BY <1>0, <1>b DEF Throw
    <3> QED
      BY <3>1, ErrorType, ErrorsDiffer
  <2>2. Progress(g)'
    BY <2>1 DEF Progress
  <2>3. \A h \in Routines \ {g} : gpc'[h] = gpc[h] /\ gerr'[h] = gerr[h] /\ gi'[h] = gi[h]
    BY <1>0, <1>b DEF Throw
  <2>4. \A i \in Positions : Written(i) => Written(i)'
    BY <1>b DEF Written, Cell, Wanted, inputVars
  <2> QED
    BY <1>b, <2>2, <2>3, <2>4, WrittenByOne
<1>9. ASSUME NEW g \in Routines, EnterAttribute(g) PROVE WrittenInv'
  <2>1. CASE Throw(g)
    BY <1>b, <1>9, <2>1 DEF EnterAttribute
  <2>2. CASE gfrom[g] < gto[g] /\ gpc' = [gpc EXCEPT ![g] = "fetch"] /\ gerr' = gerr
    <3>1. UNCHANGED <<inputVars, mainVars, chunkVars, gi, fetched, buffer>>
      BY <1>9 DEF EnterAttribute
    <3>2. gpc'[g] = "fetch" /\ gfrom'[g] < gto'[g]
      BY <1>0, <2>2, <3>1 DEF chunkVars
    <3>3. Progress(g)'
      BY <3>2 DEF Progress
    <3>4. \A h \in Routines \ {g} : gpc'[h] = gpc[h] /\ gerr'[h] = gerr[h] /\ gi'[h] = gi[h]
      BY <1>0, <2>2, <3>1
    <3>5. \A i \in Positions : Written(i) => Written(i)'
      BY <3>1 DEF Written, Cell, Wanted, inputVars
    <3> QED
      BY <3>1, <3>3, <3>4, <3>5, WrittenByOne
  <2> QED
    BY <1>9, <2>1, <2>2 DEF EnterAttribute
<1>10. ASSUME NEW g \in Routines, FetchSubvolume(g) PROVE WrittenInv'
  <2>1. CASE Throw(g) /\ UNCHANGED <<fetched, gi>>
    BY <1>b, <1>10, <2>1 DEF FetchSubvolume
  <2>2. CASE /\ fetched' = fetched \union (Chunk(g) \ empty)
             /\ gi' = [gi EXCEPT ![g] = gfrom[g]]
             /\ gpc' = [gpc EXCEPT ![g] = "compute"]
             /\ UNCHANGED gerr
    <3>1. UNCHANGED <<inputVars, mainVars, chunkVars, buffer>>
      BY <1>10 DEF FetchSubvolume
    <3>2. gfrom[g] < gto[g] /\ gfrom[g] \in Nat
      BY <1>0, <1>10 DEF FetchSubvolume, WrittenInv, Progress
    <3>3. gpc'[g] = "compute" /\ gi'[g] = gfrom[g] /\ gfrom'[g] = gfrom[g] /\ gto'[g] = gto[g]
      BY <1>0, <2>2, <3>1 DEF chunkVars
    <3>4. Chunk(g)' = Chunk(g) /\ empty' = empty
      BY <3>1 DEF Chunk, chunkVars, inputVars
    <3>5. gfrom'[g] .. gi'[g] - 1 = {}
      BY <3>2, <3>3
    <3>6. Progress(g)'
      BY <2>2, <3>2, <3>3, <3>4, <3>5 DEF Progress
    <3>7. \A h \in Routines \ {g} : gpc'[h] = gpc[h] /\ gerr'[h] = gerr[h] /\ gi'[h] = gi[h]
      BY <1>0, <2>2
    <3>8. \A i \in Positions : Written(i) => Written(i)'
      BY <3>1 DEF Written, Cell, Wanted, inputVars
    <3>9. fetched \subseteq fetched' /\ DOMAIN buffer' = DOMAIN buffer
      BY <2>2, <3>1
    <3> QED
      BY <3>1, <3>6, <3>7, <3>8, <3>9, WrittenByOne
  <2> QED
    BY <1>10, <2>1, <2>2 DEF FetchSubvolume
<1>11. ASSUME NEW g \in Routines, CalcAttributes(g) PROVE WrittenInv'
  <2>1. CASE Throw(g) /\ UNCHANGED <<gi, buffer>>
    BY <1>b, <1>11, <2>1 DEF CalcAttributes
  <2>2. CASE /\ buffer' = WriteAt(gi[g])
             /\ gi' = [gi EXCEPT ![g] = gi[g] + 1]
             /\ gpc' = [gpc EXCEPT ![g] = IF gi[g] + 1 < gto[g] THEN "compute" ELSE "send"]
             /\ UNCHANGED gerr
    <3>1. UNCHANGED <<inputVars, mainVars, chunkVars, fetched>> /\ gpc[g] = "compute"
      BY <1>11 DEF CalcAttributes
    <3>2. /\ \A i \in Positions : Written(i) \/ i = gi[g] => Written(i)'
          /\ DOMAIN buffer' = DOMAIN buffer
          /\ gi[g] \in Positions
      BY <2>2, <3>1, CalcWrites DEF inputVars
    <3>3. /\ gfrom[g] <= gi[g] /\ gi[g] < gto[g]
          /\ Chunk(g) \ empty \subseteq fetched
          /\ \A i \in gfrom[g] .. gi[g] - 1 : Written(i)
          /\ gfrom[g] \in Nat /\ gi[g] \in Nat /\ gto[g] \in Nat
          /\ Chunk(g) \subseteq Positions
      BY <1>0, <3>1, WriterTypes DEF WrittenInv, Progress
    <3>4. /\ gi'[g] = gi[g] + 1 /\ gfrom'[g] = gfrom[g] /\ gto'[g] = gto[g]
          /\ gpc'[g] = IF gi[g] + 1 < gto[g] THEN "compute" ELSE "send"
          /\ Chunk(g)' = Chunk(g) /\ empty' = empty /\ fetched' = fetched
      BY <1>0, <2>2, <3>1 DEF Chunk, chunkVars, inputVars
    <3>5. ASSUME NEW i \in gfrom[g] .. gi[g] PROVE Written(i)'
      <4>1. i \in Chunk(g)
        BY <3>3 DEF Chunk
      <4>2. i = gi[g] \/ i \in gfrom[g] .. gi[g] - 1
        BY <3>3
      <4> QED
        BY <3>2, <3>3, <4>1, <4>2
    <3>6. gfrom'[g] .. gi'[g] - 1 = gfrom[g] .. gi[g]
      BY <3>3, <3>4
    <3>7. gpc'[g] = "send" => Chunk(g)' = gfrom[g] .. gi[g]
      BY <3>3, <3>4 DEF Chunk
    <3>8. Progress(g)'
      <4>1. CASE gi[g] + 1 < gto[g]
        BY <3>3, <3>4, <3>5, <3>6, <4>1 DEF Progress
      <4>2. CASE ~ (gi[g] + 1 < gto[g])
        BY <3>4, <3>5, <3>7, <4>2 DEF Progress
      <4> QED
        BY <4>1, <4>2
    <3>9. \A h \in Routines \ {g} : gpc'[h] = gpc[h] /\ gerr'[h] = gerr[h] /\ gi'[h] = gi[h]
      BY <1>0, <2>2
    <3> QED
      BY <3>1, <3>2, <3>8, <3>9, WrittenByOne
  <2> QED
    BY <1>11, <2>1, <2>2 DEF CalcAttributes
\* Answering and letting go of the token change only the control state.
<1>12. ASSUME NEW g \in Routines, SendError(g) \/ ReleaseGuard(g) PROVE WrittenInv'
  <2>1. /\ UNCHANGED <<inputVars, mainVars, chunkVars, gi, gerr, fetched, buffer>>
        /\ gpc[g] \in {"send", "release"}
        /\ \E next \in {"release", "done"} : gpc' = [gpc EXCEPT ![g] = next]
    BY <1>12 DEF SendError, ReleaseGuard
  <2>2. gpc'[g] \in {"release", "done"} /\ gerr'[g] = gerr[g]
    BY <1>0, <2>1
  <2>3. Chunk(g)' = Chunk(g) /\ Chunk(g) \subseteq Positions
    BY <2>1, WriterTypes DEF Chunk, chunkVars
  <2>4. \A i \in Positions : Written(i) => Written(i)'
    BY <2>1 DEF Written, Cell, Wanted, inputVars
  <2>5. gerr[g] = NoError => \A i \in Chunk(g) : Written(i)
    BY <2>1 DEF WrittenInv, Progress
  <2>6. Progress(g)'
    BY <2>2, <2>3, <2>4, <2>5 DEF Progress
  <2>7. \A h \in Routines \ {g} : gpc'[h] = gpc[h] /\ gerr'[h] = gerr[h] /\ gi'[h] = gi[h]
    BY <1>0, <2>1
  <2> QED
    BY <2>1, <2>4, <2>6, <2>7, WrittenByOne
<1>13. CASE UNCHANGED vars
  BY <1>a, <1>13 DEF vars, mainVars, WrittenInv
<1> QED
  BY <1>1, <1>2, <1>3, <1>4, <1>5, <1>6, <1>7, <1>8, <1>9, <1>10, <1>11, <1>12, <1>13
     DEF Next, Main, Goroutine

(***************************************************************************)
(* All of it together, throughout every run.                               *)
(***************************************************************************)
MapsInv == PoolInv /\ ReportInv /\ WrittenInv

\* Initially and after every step.
LEMMA MapsInvariance == Spec => []MapsInv
<1>1. Init => MapsInv
  BY PoolInit, ReportInit, WrittenInit DEF MapsInv
<1>2. MapsInv /\ [Next]_vars => MapsInv'
  BY PoolStep, ReportStep, WrittenStep DEF MapsInv
<1> QED
  BY <1>1, <1>2, PTL DEF Spec

-----------------------------------------------------------------------------
(***************************************************************************)
(* A success has received the answers of all goroutines, none of which     *)
(* failed, and their chunks cover the surface.                             *)
(***************************************************************************)
LEMMA CompleteMaps ==
    ASSUME MapsInv
    PROVE  SuccessIsComplete
<1> USE DEF MapsInv
<1> SUFFICES ASSUME result = Success, NEW a \in 0 .. nAttributes - 1, NEW i \in Positions
             PROVE  buffer[a * mapsize + i] = Wanted(a, i)
  BY DEF SuccessIsComplete, Map
<1>0. nRoutines \in Nat /\ from \in Nat
  BY WriterTypes
<1>1. pc \in Ended /\ nRoutines > 0
  BY <1>0 DEF ReportInv, Success, NoResult
<1>2. received >= nRoutines
  BY <1>1, PoolFacts DEF AnswersAreCounted, Ended
<1>3. \A g \in Routines : gerr[g] = NoError
  <2>1. \A g \in Routines : gerr[g] # NoError => gerr[g] # Success
    BY WriterTypes, ErrorsDiffer
  <2> QED
    BY <1>1, <2>1, ReportedErrors DEF ErrorsAreReported, Ended
<1>4. i < from
  BY <1>0, <1>1, Sizes DEF WrittenInv, Positions
<1>5. PICK g \in Routines : g < nRoutines /\ i \in Chunk(g)
  BY <1>4 DEF WrittenInv
<1>6. gpc[g] # "none"
  BY <1>0, <1>5, PoolFacts, WriterTypes DEF StartedInOrder
<1>7. gpc[g] \in {"release", "done"}
  BY <1>2, <1>6, AllAnswered DEF Sent
<1>8. Written(i)
  BY <1>3, <1>5, <1>7 DEF WrittenInv, Progress
<1> QED
  BY <1>8 DEF Written, Cell, mapsize

(***************************************************************************)
(* For surfaces of every shape and any number of attributes: when          *)
(* getAttributes returns without an error, every map holds the value of    *)
(* its attribute, or the fill value, at every position.                    *)
(***************************************************************************)
THEOREM EverySuccessIsComplete == Spec => []SuccessIsComplete
<1>1. MapsInv => SuccessIsComplete
  BY CompleteMaps
<1> QED
  BY <1>1, MapsInvariance, PTL

(***************************************************************************)
(* The result is given once, and what was asked for never changes.         *)
(***************************************************************************)
LEMMA AnsweredOnce ==
    ASSUME MapsInv, [Next]_vars
    PROVE  /\ nAttributes' = nAttributes /\ empty' = empty
           /\ result' = result \/ result = NoResult
<1>1. pc \in Ended \/ result = NoResult
  BY DEF MapsInv, ReportInv
<1>2. CASE Main
  BY <1>1, <1>2 DEF Main, SubvolumeNew, RejectNoAttributes, Prepare, StartGoroutine, Collect,
     Return, CloseSurfaces, CloseHandle, inputVars, Ended
<1>3. CASE \E g \in Routines : Goroutine(g)
  BY ZenonT(30), <1>3 DEF Goroutine, EnterAttribute, FetchSubvolume, CalcAttributes, SendError,
     ReleaseGuard, inputVars, mainVars
<1>4. CASE UNCHANGED vars
  BY <1>4 DEF vars, inputVars, mainVars
<1> QED
  BY <1>2, <1>3, <1>4 DEF Next

\* The answer of AttributeMaps, in terms of the pool.
WantedMaps == [a \in 0 .. nAttributes - 1 |-> [i \in Positions |-> Wanted(a, i)]]

(***************************************************************************)
(* The maps are what was wanted as soon as there is a success.             *)
(***************************************************************************)
MapsWanted == Maps = IF result = Success THEN WantedMaps ELSE <<>>

\* SuccessIsComplete says so, map by map.
LEMMA MapsAreWanted == MapsInv => MapsWanted
  BY ZenonT(30), CompleteMaps DEF SuccessIsComplete, Maps, WantedMaps, MapsWanted

(***************************************************************************)
(* A step of the pool is, for its caller, the answer or nothing at all.    *)
(***************************************************************************)
LEMMA StepImplements ==
    ASSUME MapsInv, MapsInv', [Next]_vars
    PROVE  [Abstract!Next]_(Abstract!vars)
<1>1. /\ nAttributes' = nAttributes /\ empty' = empty
      /\ result' = result \/ result = NoResult
  BY AnsweredOnce
<1>2. Maps = IF result = Success THEN WantedMaps ELSE <<>>
  BY MapsAreWanted DEF MapsWanted
<1>3. Maps' = IF result' = Success THEN WantedMaps' ELSE <<>>
  <2>1. MapsWanted'
    BY MapsAreWanted, PTL
  <2> QED
    BY <2>1 DEF MapsWanted
<1>4. WantedMaps' = WantedMaps
  BY <1>1 DEF WantedMaps, Wanted
<1>5. WantedMaps = Abstract!Answer
  BY DEF WantedMaps, Wanted, Abstract!Answer
<1>6. NoResult # Success
  BY DEF NoResult, Success
<1>7. CASE result' = result
  <2>1. Maps' = Maps /\ Outcome' = Outcome
    BY <1>2, <1>3, <1>4, <1>7 DEF Outcome
  <2> QED
    BY <2>1 DEF Abstract!vars
<1>8. CASE result = NoResult /\ result' # NoResult
  <2>1. CASE result' = Success
    <3>1. Outcome = "running" /\ Outcome' = "ok" /\ Maps' = Abstract!Answer
      BY <1>3, <1>4, <1>5, <1>6, <1>8, <2>1 DEF Outcome
    <3> QED
      BY <3>1 DEF Abstract!Next, Abstract!Succeed
  <2>2. CASE result' # Success
    <3>1. Outcome = "running" /\ Outcome' = "error" /\ Maps' = Maps
      BY <1>2, <1>3, <1>6, <1>8, <2>2 DEF Outcome
    <3> QED
      BY <3>1 DEF Abstract!Next, Abstract!Fail
  <2> QED
    BY <2>1, <2>2
<1> QED
  BY <1>1, <1>7, <1>8

(***************************************************************************)
(* For surfaces of every shape, getAttributes with its goroutines          *)
(* implements AttributeMaps, but for liveness: it answers at most once,    *)
(* with an error or with all the maps, and a map that was returned is not  *)
(* written to again, although it is a slice of the shared buffer.          *)
(***************************************************************************)
THEOREM PoolImplementsMaps == Spec => Abstract!Init /\ [][Abstract!Next]_(Abstract!vars)
<1>1. Init => Abstract!Init
  BY DEF Init, Abstract!Init, Outcome, Maps, NoResult, Success
<1>2. MapsInv /\ MapsInv' /\ [Next]_vars => [Abstract!Next]_(Abstract!vars)
  BY StepImplements
<1> QED
  BY <1>1, <1>2, MapsInvariance, PTL DEF Spec
=============================================================================
