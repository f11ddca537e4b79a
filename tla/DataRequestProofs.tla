------------------------- MODULE DataRequestProofs -------------------------
(***************************************************************************)
(* Requests over a shared cache, for any number of requests, blobs, tokens *)
(* and inputs: how far each has come in its loops and that it closes the   *)
(* handles it has opened, that an answer is the request's own, how old it  *)
(* can be, that it is served with access only, and the types of it all.    *)
(***************************************************************************)
EXTENDS DataRequest, TLAPS

Busy == {"lookup", "authorize", "open", "execute", "respond"}

(***************************************************************************)
(* Where a request is, and how far its loops have come.                    *)
(***************************************************************************)
Control(r) ==
    /\ pc[r] \in States
    /\ input[r] \in Inputs
    /\ conn[r] \in Nat
    /\ layout[r] \in Seq(Nat) /\ read[r] \in Seq(Nat)
    /\ pc[r] \in Busy => IsAccepted(input[r]) /\ conn[r] \in 1 .. Len(input[r].urls)
    /\ pc[r] \in {"idle", "lookup"} => conn[r] = 1
    /\ pc[r] \in {"idle", "lookup", "authorize"} => layout[r] = <<>>
    /\ pc[r] \in {"idle", "lookup", "authorize", "open"} => read[r] = <<>>
    /\ pc[r] = "open" => Len(layout[r]) = conn[r] - 1
    /\ pc[r] = "execute" => Len(read[r]) = conn[r] - 1
    /\ Len(layout[r]) <= Len(input[r].urls) /\ Len(read[r]) <= Len(input[r].urls)

ControlInv ==
    /\ DOMAIN pc = Request /\ DOMAIN input = Request /\ DOMAIN conn = Request
    /\ DOMAIN entry = Request /\ DOMAIN authorized = Request
    /\ DOMAIN layout = Request /\ DOMAIN read = Request
    /\ DOMAIN answer = Request /\ DOMAIN couldRead = Request
    /\ version \in [Blob -> Nat]
    /\ atStart \in [Request -> [Blob -> Nat]]
    /\ \A r \in Request : Control(r)

(***************************************************************************)
(* What readConnectionParameters has checked.                              *)
(***************************************************************************)
LEMMA AcceptedInput ==
    ASSUME NEW in \in Inputs, IsAccepted(in)
    PROVE  /\ Len(in.urls) \in 1 .. 2
           /\ DOMAIN in.urls = 1 .. Len(in.urls)
           /\ \A k \in DOMAIN in.urls : Vds(in)[k] \in Blob
<1>1. in.urls \in Seq(Url)
  BY Zenon, InputsAssumption
<1>2. Len(in.urls) \in 1 .. 2
  BY DEF IsAccepted, OperatorFits
<1>3. DOMAIN in.urls = 1 .. Len(in.urls)
  BY <1>1
<1>4. ASSUME NEW k \in DOMAIN in.urls PROVE Vds(in)[k] \in Blob
  <2>1. Vds(in)[k] = in.urls[k].blob
    BY Zenon DEF Vds, NormalizeConnection
  <2>2. in.urls[k].blob # NoBlob
    BY Zenon DEF IsAccepted, NormalizeConnection
  <2>3. in.urls[k] \in Url
    BY <1>1, <1>3
  <2> QED
    BY Zenon, <2>1, <2>2, <2>3 DEF Url
<1> QED
  BY Zenon, <1>2, <1>3, <1>4

\* No request has started: nothing is open.
LEMMA ControlInit == Init => ControlInv
<1> SUFFICES ASSUME Init PROVE ControlInv
  BY Zenon
<1>1. ASSUME NEW r \in Request PROVE Control(r)
  <2>1. input[r].urls \in Seq(Url)
    BY Zenon, InputsAssumption DEF Init
  <2>2. Len(input[r].urls) >= 0 /\ Len(<<>>) = 0 /\ <<>> \in Seq(Nat)
    BY <2>1
  <2> QED
    BY Zenon, <2>1, <2>2 DEF Init, Control, States, Busy
<1>2. version \in [Blob -> Nat] /\ atStart \in [Request -> [Blob -> Nat]]
  BY Zenon DEF Init
<1> QED
  BY Zenon, <1>1, <1>2 DEF Init, ControlInv

(***************************************************************************)
(* The steps of a request leave what clients have sent, the store and the  *)
(* applied entries of the cache alone.                                     *)
(***************************************************************************)
LEMMA RequestIsInside ==
    ASSUME NEW r \in Request, Handle(r)
    PROVE  /\ input' = input /\ version' = version /\ access' = access
           /\ cacheOn' = cacheOn /\ cache' = cache
           /\ pendingSets' \subseteq pendingSets \union Set(r)
<1>1. CASE ReadRequest(r) \/ Lookup(r)
  BY Zenon, <1>1 DEF ReadRequest, Lookup, cacheVars, storeVars
<1>2. CASE Authorize(r)
  BY Zenon, <1>2 DEF Authorize, cacheVars, storeVars
<1>3. CASE OpenFails(r) \/ UnsuitableVds(r) \/ Open(r)
  BY Zenon, <1>3 DEF OpenFails, UnsuitableVds, Open, cacheVars, storeVars
<1>4. CASE ExecuteFails(r) \/ Execute(r)
  BY Zenon, <1>4 DEF ExecuteFails, Execute, cacheVars, storeVars
<1>5. CASE Respond(r) \/ RespondMetadata(r)
  BY Zenon, <1>5 DEF Respond, RespondMetadata, cacheVars, storeVars
<1> QED
  BY Zenon, <1>1, <1>2, <1>3, <1>4, <1>5 DEF Handle

(***************************************************************************)
(* The steps of a request are no steps of another one.                     *)
(***************************************************************************)
LEMMA OthersStay ==
    ASSUME ControlInv, NEW r \in Request, Handle(r), NEW s \in Request, s # r
    PROVE  /\ pc'[s] = pc[s] /\ conn'[s] = conn[s] /\ entry'[s] = entry[s]
           /\ authorized'[s] = authorized[s] /\ layout'[s] = layout[s]
           /\ read'[s] = read[s] /\ answer'[s] = answer[s] /\ atStart'[s] = atStart[s]
<1>1. CASE ReadRequest(r)
  BY Zenon, <1>1 DEF ReadRequest, Finish, ControlInv
<1>2. CASE Lookup(r)
  BY Zenon, <1>2 DEF Lookup, ControlInv
<1>3. CASE Authorize(r)
  BY Zenon, <1>3 DEF Authorize, Finish, ControlInv
<1>4. CASE OpenFails(r) \/ UnsuitableVds(r)
  BY <1>4 DEF OpenFails, UnsuitableVds, Finish, ControlInv
<1>5. CASE Open(r)
  BY Zenon, <1>5 DEF Open, ControlInv
<1>6. CASE Execute(r)
  BY Zenon, <1>6 DEF Execute, ControlInv
<1>7. CASE ExecuteFails(r)
  BY <1>7 DEF ExecuteFails, Finish, ControlInv
<1>8. CASE Respond(r) \/ RespondMetadata(r)
  BY Zenon, <1>8 DEF Respond, RespondMetadata, Finish, ControlInv
<1> QED
  BY Zenon, <1>1, <1>2, <1>3, <1>4, <1>5, <1>6, <1>7, <1>8 DEF Handle

(***************************************************************************)
(* The steps of a request.                                                 *)
(***************************************************************************)
LEMMA ControlHandle ==
    ASSUME ControlInv, NEW r \in Request, Handle(r), RecordAccess
    PROVE  ControlInv'
<1>1. input' = input /\ version' = version
  BY Zenon, RequestIsInside
<1>2. DOMAIN couldRead' = Request
  BY Zenon DEF RecordAccess
<1>c. \A s \in Request : Control(s)
  BY Zenon DEF ControlInv
<1>u. input[r].urls \in Seq(Url) /\ Len(input[r].urls) \in Nat
  BY <1>c, InputsAssumption DEF Control
<1>a. IsAccepted(input[r]) => Len(input[r].urls) \in 1 .. 2
  BY Zenon, <1>c, AcceptedInput DEF Control
<1>b. pc[r] \in Busy => TheBlob(r) \in Blob
  <2> SUFFICES ASSUME pc[r] \in Busy PROVE TheBlob(r) \in Blob
    BY Zenon
  <2>1. input[r] \in Inputs /\ IsAccepted(input[r]) /\ conn[r] \in 1 .. Len(input[r].urls)
    BY Zenon, <1>c DEF Control
  <2>2. conn[r] \in DOMAIN input[r].urls
    BY Zenon, <2>1, AcceptedInput
  <2> QED
    BY Zenon, <2>1, <2>2, AcceptedInput DEF TheBlob
<1>3. CASE ReadRequest(r)
  <2>1. UNCHANGED <<conn, layout, read, entry, authorized>>
    BY Zenon, <1>3 DEF ReadRequest
  <2>2. atStart' \in [Request -> [Blob -> Nat]]
    BY Zenon, <1>3 DEF ReadRequest, ControlInv
  <2>3. ASSUME NEW s \in Request PROVE Control(s)'
    <3>1. CASE s = r
      <4>0. pc[r] = "idle" /\ conn[r] = 1 /\ layout[r] = <<>> /\ read[r] = <<>>
            /\ Len(layout[r]) = 0 /\ Len(read[r]) = 0
        BY <1>3, <1>c DEF ReadRequest, Control
      <4>1. CASE ~ IsAccepted(input[r])
        <5>1. pc'[r] = "done"
          BY Zenon, <1>3, <4>1 DEF ReadRequest, Finish, ControlInv
        <5> QED
          BY Zenon, <3>1, <5>1, <1>1, <2>1, <1>c DEF Control, Busy, States
      <4>2. CASE IsAccepted(input[r])
        <5>1. pc' = [pc EXCEPT ![r] = IF input[r].endpoint = "metadata" THEN "open" ELSE "lookup"]
          BY Zenon, <1>3, <4>2 DEF ReadRequest
        <5>2. pc'[r] = "open" \/ pc'[r] = "lookup"
          BY Zenon, <5>1 DEF ControlInv
        <5>3. input[r] \in Inputs
          BY Zenon, <1>c DEF Control
        <5>4. Len(input[r].urls) \in 1 .. 2
          BY Zenon, <4>2, <1>a
        <5>5. 1 \in 1 .. Len(input[r].urls)
          BY <5>4
        <5>6. <<>> \in Seq(Nat)
          OBVIOUS
        <5>7. /\ conn'[r] = 1 /\ layout'[r] = <<>> /\ read'[r] = <<>> /\ input'[r] = input[r]
              /\ Len(layout'[r]) = 0 /\ Len(read'[r]) = 0
          BY Zenon, <4>0, <1>1, <2>1
        <5>8. IsAccepted(input'[r])
          BY Zenon, <5>7, <4>2
        <5> QED
          BY <3>1, <5>2, <5>3, <5>4, <5>5, <5>6, <5>7, <5>8 DEF Control, Busy, States
      <4> QED
        BY Zenon, <4>1, <4>2
    <3>2. CASE s # r
      BY Zenon, <3>2, <1>3, <1>1, <2>1, <1>c DEF ReadRequest, Finish, Control, ControlInv
    <3> QED
      BY Zenon, <3>1, <3>2
  <2> QED
    BY Zenon, <1>3, <1>1, <1>2, <2>1, <2>2, <2>3 DEF ReadRequest, Finish, ControlInv
<1>4. CASE Lookup(r)
  <2>1. UNCHANGED <<conn, layout, read, answer, atStart>>
    BY Zenon, <1>4 DEF Lookup
  <2>3. ASSUME NEW s \in Request PROVE Control(s)'
    <3>1. CASE s = r
      <4>1. pc[r] = "lookup" /\ pc'[r] \in {"authorize", "open"}
        BY Zenon, <1>4 DEF Lookup, ControlInv
      <4> QED
        BY <3>1, <4>1, <1>1, <2>1, <1>c, <1>a DEF Control, Busy, States
    <3>2. CASE s # r
      BY ZenonT(60), <3>2, <1>4, <1>1, <2>1, <1>c DEF Lookup, Control, ControlInv
    <3> QED
      BY Zenon, <3>1, <3>2
  <2> QED
    BY Zenon, <1>4, <1>1, <1>2, <2>1, <2>3 DEF Lookup, ControlInv
<1>5. CASE Authorize(r)
  <2>1. UNCHANGED <<layout, read, entry, atStart>>
    BY Zenon, <1>5 DEF Authorize
  <2>3. ASSUME NEW s \in Request PROVE Control(s)'
    <3>1. CASE s = r
      <4>1. /\ pc[r] = "authorize"
            /\ \/ ~ IsLast(r) /\ conn'[r] = conn[r] + 1 /\ pc'[r] = pc[r]
               \/ pc'[r] = "done" /\ conn'[r] = conn[r]
               \/ pc'[r] = "open" /\ conn'[r] = 1
        BY ZenonT(60), <1>5 DEF Authorize, AfterDenial, Finish, ControlInv
      <4> QED
        BY <3>1, <4>1, <1>1, <2>1, <1>c, <1>a, <1>u DEF IsLast, Control, Busy, States
    <3>2. CASE s # r
      BY ZenonT(60), <3>2, <1>5, <1>1, <2>1, <1>c DEF Authorize, Finish, Control, ControlInv
    <3> QED
      BY Zenon, <3>1, <3>2
  <2> QED
    BY ZenonT(60), <1>5, <1>1, <1>2, <2>1, <2>3 DEF Authorize, Finish, ControlInv
<1>6. CASE OpenFails(r) \/ UnsuitableVds(r)
  <2>1. UNCHANGED <<conn, layout, read, entry, authorized, atStart>> /\ pc' = [pc EXCEPT ![r] = "done"]
    BY <1>6 DEF OpenFails, UnsuitableVds, Finish
  <2>3. ASSUME NEW s \in Request PROVE Control(s)'
    BY Zenon, <1>1, <2>1, <1>c DEF Control, ControlInv, Busy, States
  <2> QED
    BY <1>6, <1>1, <1>2, <2>1, <2>3 DEF OpenFails, UnsuitableVds, Finish, ControlInv
<1>7. CASE Open(r)
  <2>1. UNCHANGED <<read, entry, authorized, answer, atStart>>
    BY Zenon, <1>7 DEF Open
  <2>2. version[TheBlob(r)] \in Nat
    BY Zenon, <1>7, <1>b DEF Open, ControlInv, Busy
  <2>3. /\ Append(layout[r], version[TheBlob(r)]) \in Seq(Nat)
        /\ Len(Append(layout[r], version[TheBlob(r)])) = Len(layout[r]) + 1
    BY <2>2, <1>c DEF Control
  <2>4. layout' = [layout EXCEPT ![r] = Append(layout[r], version[TheBlob(r)])]
    BY Zenon, <1>7 DEF Open
  <2>5. /\ layout'[r] = Append(layout[r], version[TheBlob(r)])
        /\ \A s \in Request : s # r => layout'[s] = layout[s]
    BY Zenon, <2>4 DEF ControlInv
  <2>6. pc[r] = "open" /\ IsAccepted(input[r]) /\ conn[r] \in 1 .. Len(input[r].urls)
        /\ Len(layout[r]) = conn[r] - 1 /\ read[r] = <<>> /\ Len(read[r]) = 0
    BY <1>7, <1>c, <1>a DEF Open, Control, Busy
  <2>7. ASSUME NEW s \in Request PROVE Control(s)'
    <3>1. CASE s = r
      <4>1. CASE IsLast(r)
        <5>1. pc'[r] = "execute" /\ conn'[r] = 1
          BY Zenon, <1>7, <4>1 DEF Open, ControlInv
        <5> QED
          BY <3>1, <4>1, <5>1, <1>1, <2>1, <2>3, <2>5, <2>6, <1>c, <1>a, <1>u
          DEF Control, IsLast, Busy, States
      <4>2. CASE ~ IsLast(r)
        <5>1. pc'[r] = "open" /\ conn'[r] = conn[r] + 1
          BY Zenon, <1>7, <4>2, <2>6 DEF Open, ControlInv
        <5> QED
          BY <3>1, <4>2, <5>1, <1>1, <2>1, <2>3, <2>5, <2>6, <1>c, <1>a, <1>u
          DEF Control, IsLast, Busy, States
      <4> QED
        BY Zenon, <4>1, <4>2
    <3>2. CASE s # r
      BY ZenonT(30), <3>2, <1>7, <1>1, <2>1, <2>5, <1>c DEF Open, Control, ControlInv
    <3> QED
      BY Zenon, <3>1, <3>2
  <2> QED
    BY Zenon, <1>7, <1>1, <1>2, <2>1, <2>7 DEF Open, ControlInv
<1>8. CASE Execute(r)
  <2>1. UNCHANGED <<layout, entry, authorized, answer, atStart>>
    BY Zenon, <1>8 DEF Execute
  <2>2. version[TheBlob(r)] \in Nat
    BY Zenon, <1>8, <1>b DEF Execute, ControlInv, Busy
  <2>3. /\ Append(read[r], version[TheBlob(r)]) \in Seq(Nat)
        /\ Len(Append(read[r], version[TheBlob(r)])) = Len(read[r]) + 1
    BY <2>2, <1>c DEF Control
  <2>4. read' = [read EXCEPT ![r] = Append(read[r], version[TheBlob(r)])]
    BY Zenon, <1>8 DEF Execute
  <2>5. /\ read'[r] = Append(read[r], version[TheBlob(r)])
        /\ \A s \in Request : s # r => read'[s] = read[s]
    BY Zenon, <2>4 DEF ControlInv
  <2>6. pc[r] = "execute" /\ IsAccepted(input[r]) /\ conn[r] \in 1 .. Len(input[r].urls)
        /\ Len(read[r]) = conn[r] - 1
    BY Zenon, <1>8, <1>c, <1>a DEF Execute, Control, Busy
  <2>7. ASSUME NEW s \in Request PROVE Control(s)'
    <3>1. CASE s = r
      <4>1. CASE IsLast(r)
        <5>1. pc'[r] = "respond" /\ conn'[r] = conn[r]
          BY Zenon, <1>8, <4>1 DEF Execute, ControlInv
        <5> QED
          BY <3>1, <4>1, <5>1, <1>1, <2>1, <2>3, <2>5, <2>6, <1>c, <1>a, <1>u
          DEF Control, IsLast, Busy, States
      <4>2. CASE ~ IsLast(r)
        <5>1. pc'[r] = "execute" /\ conn'[r] = conn[r] + 1
          BY Zenon, <1>8, <4>2, <2>6 DEF Execute, ControlInv
        <5> QED
          BY <3>1, <4>2, <5>1, <1>1, <2>1, <2>3, <2>5, <2>6, <1>c, <1>a, <1>u
          DEF Control, IsLast, Busy, States
      <4> QED
        BY Zenon, <4>1, <4>2
    <3>2. CASE s # r
      BY ZenonT(30), <3>2, <1>8, <1>1, <2>1, <2>5, <1>c DEF Execute, Control, ControlInv
    <3> QED
      BY Zenon, <3>1, <3>2
  <2> QED
    BY Zenon, <1>8, <1>1, <1>2, <2>1, <2>7 DEF Execute, ControlInv
<1>9. CASE ExecuteFails(r) \/ Respond(r) \/ RespondMetadata(r)
  <2>1. UNCHANGED <<conn, layout, read, entry, authorized, atStart>> /\ pc' = [pc EXCEPT ![r] = "done"]
    BY ZenonT(60), <1>9 DEF ExecuteFails, Respond, RespondMetadata, Finish
  <2>3. ASSUME NEW s \in Request PROVE Control(s)'
    BY Zenon, <1>1, <2>1, <1>c DEF Control, ControlInv, Busy, States
  <2> QED
    BY ZenonT(60), <1>9, <1>1, <1>2, <2>1, <2>3 DEF ExecuteFails, Respond, RespondMetadata, Finish, ControlInv
<1> QED
  BY Zenon, <1>3, <1>4, <1>5, <1>6, <1>7, <1>8, <1>9 DEF Handle

(***************************************************************************)
(* The store and the cache leave the requests alone.                       *)
(***************************************************************************)
LEMMA EnvironmentIsOutside ==
    ASSUME ControlInv, Environment
    PROVE  /\ UNCHANGED localVars /\ UNCHANGED atStart /\ UNCHANGED cacheOn
           /\ version' \in [Blob -> Nat]
           /\ \A b \in Blob : version[b] <= version'[b]
<1>1. CASE Overwrite
  <2>1. PICK b \in Blob : version' = [version EXCEPT ![b] = version[b] + 1]
    BY ZenonT(60), <1>1 DEF Overwrite
  <2>2. version[b] \in Nat /\ version \in [Blob -> Nat]
    BY Zenon DEF ControlInv
  <2> QED
    BY <1>1, <2>1, <2>2 DEF Overwrite, cacheVars
<1>2. CASE ApplySet \/ DropSet \/ Evict \/ Revoke
  <2>1. UNCHANGED <<localVars, atStart, cacheOn, version>>
    BY ZenonT(60), <1>2 DEF ApplySet, DropSet, Evict, Revoke, cacheVars, storeVars
  <2>2. version \in [Blob -> Nat]
    BY Zenon DEF ControlInv
  <2> QED
    BY <2>1, <2>2
<1> QED
  BY Zenon, <1>1, <1>2 DEF Environment

\* A step of one request leaves the control of the others as it is.
LEMMA ControlStep ==
    ASSUME ControlInv, [Next]_vars
    PROVE  ControlInv'
<1>1. ASSUME NEW r \in Request, Handle(r), RecordAccess PROVE ControlInv'
  BY Zenon, <1>1, ControlHandle
<1>2. CASE Environment /\ RecordAccess
  <2>1. UNCHANGED localVars /\ UNCHANGED atStart /\ version' \in [Blob -> Nat]
    BY Zenon, <1>2, EnvironmentIsOutside
  <2>2. DOMAIN couldRead' = Request
    BY Zenon, <1>2 DEF RecordAccess
  <2>3. ASSUME NEW s \in Request PROVE Control(s)'
    BY Zenon, <2>1 DEF localVars, Control, ControlInv
  <2> QED
    BY Zenon, <2>1, <2>2, <2>3 DEF localVars, ControlInv
<1>3. CASE UNCHANGED vars
  <2>1. ASSUME NEW s \in Request PROVE Control(s)'
    BY Zenon, <1>3 DEF vars, localVars, Control, ControlInv
  <2> QED
    BY Zenon, <1>3, <2>1 DEF vars, localVars, storeVars, ControlInv
<1> QED
  BY Zenon, <1>1, <1>2, <1>3 DEF Next

-----------------------------------------------------------------------------
(***************************************************************************)
(* A request that is done without having had a data handle has not opened  *)
(* all its VDS; one that had a data handle has closed it.                  *)
(***************************************************************************)
LEMMA HandleStep ==
    ASSUME ControlInv, HandlesClosedAfterUse, [Next]_vars
    PROVE  HandlesClosedAfterUse'
<1> SUFFICES ASSUME NEW s \in Request, pc'[s] = "done", Len(layout'[s]) = Len(input'[s].urls),
                    NEW k \in Conns(s)'
             PROVE  <<s, k>> \notin handles'
  BY Zenon DEF HandlesClosedAfterUse
<1>c. Control(s)
  BY Zenon DEF ControlInv
<1>1. ASSUME NEW r \in Request, Handle(r) PROVE <<s, k>> \notin handles'
  <2>0. input' = input /\ Conns(s)' = Conns(s)
    BY Zenon, <1>1, RequestIsInside DEF Conns
  <2>1. CASE s # r
    <3>1. pc'[s] = pc[s] /\ layout'[s] = layout[s]
      BY Zenon, <1>1, <2>1, OthersStay
    <3>2. handles' \subseteq handles \union {<<r, conn[r]>>}
      BY ZenonT(60), <1>1 DEF Handle, ReadRequest, Lookup, Authorize, OpenFails, UnsuitableVds, Open,
         ExecuteFails, Execute, Respond, RespondMetadata
    <3> QED
      BY Zenon, <2>0, <2>1, <3>1, <3>2 DEF HandlesClosedAfterUse
  <2>2. CASE s = r
    <3>1. CASE ExecuteFails(r) \/ Respond(r) \/ RespondMetadata(r)
      BY ZenonT(60), <2>0, <2>2, <3>1 DEF ExecuteFails, Respond, RespondMetadata, Close
    <3>2. CASE ReadRequest(r) \/ Lookup(r) \/ Authorize(r)
      <4>1. layout' = layout /\ pc[r] \in {"idle", "lookup", "authorize"}
        BY ZenonT(60), <3>2 DEF ReadRequest, Lookup, Authorize
      <4>2. layout[r] = <<>> /\ Len(layout[r]) = 0
        BY Zenon, <4>1, <2>2, <1>c DEF Control
      <4>3. input[r].urls \in Seq(Url)
        BY Zenon, <1>c, <2>2, InputsAssumption DEF Control
      <4> QED
        BY <4>1, <4>2, <4>3, <2>0, <2>2 DEF Conns
    <3>3. CASE OpenFails(r) \/ UnsuitableVds(r)
      <4>1. layout' = layout /\ pc[r] = "open"
        BY Zenon, <3>3 DEF OpenFails, UnsuitableVds
      <4> QED
        BY <4>1, <2>0, <2>2, <1>c DEF Control, Busy
    <3>4. CASE Open(r) \/ Execute(r)
      BY Zenon, <3>4, <2>2 DEF Open, Execute, ControlInv
    <3> QED
      BY Zenon, <1>1, <3>1, <3>2, <3>3, <3>4 DEF Handle
  <2> QED
    BY Zenon, <2>1, <2>2
<1>2. CASE Environment
  <2>1. UNCHANGED localVars
    BY Zenon, <1>2, EnvironmentIsOutside
  <2> QED
    BY Zenon, <2>1 DEF localVars, HandlesClosedAfterUse, Conns
<1>3. CASE UNCHANGED vars
  BY Zenon, <1>3 DEF vars, localVars, HandlesClosedAfterUse, Conns
<1> QED
  BY Zenon, <1>1, <1>2, <1>3 DEF Next

(***************************************************************************)
(* The deferred handle.Close() of makeDataRequest and metadata: for any    *)
(* number of requests, one that got a data handle leaves none open.        *)
(***************************************************************************)
THEOREM HandlesAreClosed == Spec => []HandlesClosedAfterUse
<1>1. Init => ControlInv /\ HandlesClosedAfterUse
  BY Zenon, ControlInit DEF Init, HandlesClosedAfterUse
<1>2. ControlInv /\ HandlesClosedAfterUse /\ [Next]_vars
        => ControlInv' /\ HandlesClosedAfterUse'
  BY Zenon, ControlStep, HandleStep
<1> QED
  BY <1>1, <1>2, PTL DEF Spec

-----------------------------------------------------------------------------

(***************************************************************************)
(* A key tells what is asked for: two requests with one hash mean the same *)
(* (gob leaves out a zero, isFillValueSupplied brings it back).            *)
(***************************************************************************)
LEMMA KeysDetermineSubjects ==
    ASSUME NEW a \in Inputs, NEW b \in Inputs, Hash(a) = Hash(b)
    PROVE  Subject(a) = Subject(b)
<1>1. Vds(a) = Vds(b) /\ a.op = b.op /\ a.outside = b.outside
  BY Zenon DEF Hash
<1>2. Gob(a.fill) = Gob(b.fill) /\ ((a.fill # "nil") = (b.fill # "nil"))
  BY Zenon DEF Hash
<1>3. a.fill # "absent" /\ b.fill # "absent"
  BY Zenon, InputsAssumption
<1>4. a.fill = b.fill
  BY Zenon, <1>2, <1>3 DEF Gob
<1> QED
  BY Zenon, <1>1, <1>4 DEF Subject

\* Content that answers every request with that key.
Answers(content, key) == \A in \in Inputs : Hash(in) = key => content.of = Subject(in)

(***************************************************************************)
(* Whatever is in the cache or on its way there, was hit or was answered,  *)
(* answers the requests it is for.                                         *)
(***************************************************************************)
KeyInv ==
    /\ \A key \in DOMAIN cache : Answers(cache[key], key)
    /\ \A s \in pendingSets : Answers(s[2], s[1])
    /\ \A r \in Request : pc[r] = "authorize" => entry[r].of = Subject(input[r])
    /\ AnswersTheRequest

\* A request uses an entry only under the key it looked up.
LEMMA KeyHandle ==
    ASSUME ControlInv, KeyInv, NEW r \in Request, Handle(r)
    PROVE  KeyInv'
<1>1. input' = input /\ cache' = cache
  BY Zenon, RequestIsInside
<1>2. input[r] \in Inputs
  BY Zenon DEF ControlInv, Control
<1>3. Content(r).of = Subject(input[r]) /\ Answers(Content(r), Hash(input[r]))
  BY Zenon, <1>2, KeysDetermineSubjects DEF Content, Answers
<1>4. \A key \in DOMAIN cache' : Answers(cache'[key], key)
  BY Zenon, <1>1 DEF KeyInv
<1>5. pendingSets' \subseteq pendingSets \union {<<Hash(input[r]), Content(r)>>}
  BY Zenon, RequestIsInside DEF Set
<1>6. \A s \in pendingSets' : Answers(s[2], s[1])
  BY <1>3, <1>5 DEF KeyInv
<1>7. ASSUME NEW s \in Request, pc'[s] = "authorize" PROVE entry'[s].of = Subject(input'[s])
  <2>1. CASE Lookup(r)
    <3>1. CASE s = r
      <4>1. Hash(input[r]) \in DOMAIN cache /\ entry'[r] = cache[Hash(input[r])]
        BY Zenon, <2>1, <3>1, <1>7 DEF Lookup, ControlInv
      <4> QED
        BY <1>1, <1>2, <3>1, <4>1 DEF KeyInv, Answers
    <3>2. CASE s # r
      BY Zenon, <1>1, <1>7, <2>1, <3>2 DEF Lookup, ControlInv, KeyInv
    <3> QED
      BY Zenon, <3>1, <3>2
  <2>2. CASE ~ Lookup(r)
    <3>1. entry' = entry /\ (pc'[s] = "authorize" => pc[s] = "authorize")
      BY ZenonT(60), <2>2 DEF Handle, ReadRequest, Authorize, OpenFails, UnsuitableVds, Open,
         ExecuteFails, Execute, Respond, RespondMetadata, Finish, AfterDenial, ControlInv
    <3> QED
      BY Zenon, <1>1, <1>7, <3>1 DEF KeyInv
  <2> QED
    BY Zenon, <2>1, <2>2
<1>8. ASSUME NEW s \in Request, answer'[s].status = 200
      PROVE  answer'[s].content.of = Subject(input'[s])
  <2>1. CASE answer'[s] = answer[s]
    BY <1>1, <1>8, <2>1 DEF KeyInv, AnswersTheRequest
  <2>2. CASE answer'[s] # answer[s]
    <3>1. s = r
      BY Zenon, <2>2, OthersStay
    <3>2. CASE Authorize(r)
      <4>1. pc[r] = "authorize" /\ answer'[r] = Ok(entry[r], TRUE)
        BY ZenonT(60), <2>2, <3>1, <3>2 DEF Authorize, Finish, ControlInv
      <4> QED
        BY <1>1, <3>1, <4>1 DEF KeyInv, Ok
    <3>3. CASE Respond(r) \/ RespondMetadata(r)
      <4>1. answer'[r] = Ok(Content(r), FALSE)
        BY ZenonT(60), <3>3 DEF Respond, RespondMetadata, Finish, ControlInv
      <4> QED
        BY <1>1, <1>3, <3>1, <4>1 DEF Ok
    <3>4. CASE ~ Authorize(r) /\ ~ Respond(r) /\ ~ RespondMetadata(r)
      <4>1. answer' = answer \/ \E code \in {400, 500} : answer' = [answer EXCEPT ![r] = Error(code)]
        BY ZenonT(60), <3>4 DEF Handle, ReadRequest, Lookup, OpenFails, UnsuitableVds, Open,
           ExecuteFails, Execute, Finish
      <4>2. answer'[r] \in {Error(400), Error(500)}
        BY <2>2, <3>1, <4>1 DEF ControlInv
      <4> QED
        BY <1>8, <3>1, <4>2 DEF Error
    <3> QED
      BY Zenon, <3>2, <3>3, <3>4
  <2> QED
    BY Zenon, <2>1, <2>2
<1> QED
  BY Zenon, <1>4, <1>6, <1>7, <1>8 DEF KeyInv, AnswersTheRequest

\* Evictions and late Sets do not change what an entry is of.
LEMMA KeyStep ==
    ASSUME ControlInv, KeyInv, [Next]_vars
    PROVE  KeyInv'
<1>1. ASSUME NEW r \in Request, Handle(r) PROVE KeyInv'
  BY Zenon, <1>1, KeyHandle
<1>2. CASE Environment
  <2>1. UNCHANGED localVars
    BY Zenon, <1>2, EnvironmentIsOutside
  <2>2. \A key \in DOMAIN cache' : Answers(cache'[key], key)
    <3>1. CASE ApplySet
      BY Zenon, <3>1 DEF ApplySet, KeyInv
    <3>2. CASE Evict
      BY Zenon, <3>2 DEF Evict, KeyInv
    <3>3. CASE DropSet \/ Revoke \/ Overwrite
      BY Zenon, <3>3 DEF DropSet, Revoke, Overwrite, cacheVars, KeyInv
    <3> QED
      BY Zenon, <1>2, <3>1, <3>2, <3>3 DEF Environment
  <2>3. pendingSets' \subseteq pendingSets
    BY ZenonT(60), <1>2 DEF Environment, ApplySet, DropSet, Evict, Revoke, Overwrite, cacheVars
  <2> QED
    BY Zenon, <2>1, <2>2, <2>3 DEF localVars, KeyInv, AnswersTheRequest
<1>3. CASE UNCHANGED vars
  BY Zenon, <1>3 DEF vars, localVars, cacheVars, KeyInv, AnswersTheRequest
<1> QED
  BY Zenon, <1>1, <1>2, <1>3 DEF Next

(***************************************************************************)
(* Requests that share a cache never get the answer to the question of     *)
(* another (hash, Cache.Get and Cache.Set), whatever the cache applies,    *)
(* drops or evicts.                                                        *)
(***************************************************************************)
THEOREM AnswersAreOwn == Spec => []AnswersTheRequest
<1>1. Init => ControlInv /\ KeyInv
  <2>1. Init => KeyInv
    BY DEF Init, KeyInv, AnswersTheRequest, NoAnswer
  <2> QED
    BY Zenon, <2>1, ControlInit
<1>2. ControlInv /\ KeyInv /\ [Next]_vars => ControlInv' /\ KeyInv'
  BY Zenon, ControlStep, KeyStep
<1>3. KeyInv => AnswersTheRequest
  BY Zenon DEF KeyInv
<1> QED
  BY <1>1, <1>2, <1>3, PTL DEF Spec

-----------------------------------------------------------------------------
\* Versions of the VDS of a request that were current after it arrived.
AreFresh(r, versions) ==
    \A k \in 1 .. Len(versions) : versions[k] >= atStart[r][Vds(input[r])[k]]

IsUncached(r) == ~ cacheOn \/ input[r].endpoint = "metadata"

(***************************************************************************)
(* What a request that does not use the cache has read, and answers.       *)
(***************************************************************************)
Fresh(r) ==
    /\ pc[r] # "idle" => \A b \in Blob : atStart[r][b] <= version[b]
    /\ AreFresh(r, layout[r]) /\ AreFresh(r, read[r])
    /\ input[r].endpoint = "metadata" => pc[r] # "lookup"
    /\ IsUncached(r) => pc[r] # "authorize"
    /\ pc[r] # "done" => answer[r].status # 200
    /\ answer[r].status = 200 /\ IsUncached(r) =>
         answer[r].content.layout = layout[r] /\ answer[r].content.read = read[r]

NoCache == cacheOn \/ (DOMAIN cache = {} /\ pendingSets = {})

\* A request that reads no cache is never served from it.
LEMMA NoCacheStep ==
    ASSUME NoCache, [Next]_vars
    PROVE  NoCache'
<1> SUFFICES ASSUME ~ cacheOn', DOMAIN cache = {} \/ cacheOn, pendingSets = {} \/ cacheOn
             PROVE  DOMAIN cache' = {} /\ pendingSets' = {}
  BY Zenon DEF NoCache
<1>1. cacheOn' = cacheOn
  BY Zenon, RequestIsInside DEF Next, Environment, ApplySet, DropSet, Evict, Revoke, Overwrite,
     cacheVars, vars
<1>2. DOMAIN cache = {} /\ pendingSets = {} /\ ~ cacheOn
  BY Zenon, <1>1
<1>3. ASSUME NEW r \in Request, Handle(r) PROVE cache' = cache /\ pendingSets' = pendingSets
  BY Zenon, <1>2, <1>3, RequestIsInside DEF Set
<1>4. CASE Environment
  BY Zenon, <1>2, <1>4 DEF Environment, ApplySet, DropSet, Evict, Revoke, Overwrite, cacheVars
<1>5. CASE UNCHANGED vars
  BY Zenon, <1>2, <1>5 DEF vars, cacheVars
<1> QED
  BY Zenon, <1>2, <1>3, <1>4, <1>5 DEF Next

(***************************************************************************)
(* A version that is read now is fresh, and so is a list with it appended. *)
(***************************************************************************)
LEMMA AppendFresh ==
    ASSUME ControlInv, NEW r \in Request, Fresh(r), pc[r] \in {"open", "execute"},
           NEW versions \in Seq(Nat), AreFresh(r, versions), Len(versions) = conn[r] - 1
    PROVE  AreFresh(r, Append(versions, version[TheBlob(r)]))
<1>1. input[r] \in Inputs /\ IsAccepted(input[r]) /\ conn[r] \in 1 .. Len(input[r].urls)
  BY Zenon DEF ControlInv, Control, Busy
<1>2. TheBlob(r) \in Blob /\ TheBlob(r) = Vds(input[r])[conn[r]]
  <2>1. conn[r] \in DOMAIN input[r].urls
    BY Zenon, <1>1, AcceptedInput
  <2> QED
    BY Zenon, <1>1, <2>1, AcceptedInput DEF TheBlob
<1>3. version[TheBlob(r)] \in Nat /\ atStart[r][TheBlob(r)] \in Nat
      /\ atStart[r][TheBlob(r)] <= version[TheBlob(r)]
  BY <1>2 DEF ControlInv, Fresh
<1>4. ASSUME NEW k \in 1 .. Len(Append(versions, version[TheBlob(r)]))
      PROVE  Append(versions, version[TheBlob(r)])[k] >= atStart[r][Vds(input[r])[k]]
  <2>1. Len(Append(versions, version[TheBlob(r)])) = Len(versions) + 1 /\ Len(versions) \in Nat
    BY <1>3
  <2>2. CASE k = conn[r]
    <3>1. k = Len(versions) + 1
      BY <2>2, <2>1, <1>1
    <3>2. Append(versions, version[TheBlob(r)])[k] = version[TheBlob(r)]
      BY <3>1, <1>3
    <3> QED
      BY Zenon, <3>2, <2>2, <1>2, <1>3
  <2>3. CASE k # conn[r]
    <3>1. k \in 1 .. Len(versions)
      BY <2>1, <2>3, <1>1
    <3>2. Append(versions, version[TheBlob(r)])[k] = versions[k]
      BY <3>1, <1>3
    <3> QED
      BY Zenon, <3>1, <3>2 DEF AreFresh
  <2> QED
    BY Zenon, <2>2, <2>3
<1> QED
  BY Zenon, <1>4 DEF AreFresh

\* What one request reads is current when it is read.
LEMMA FreshHandle ==
    ASSUME ControlInv, NoCache, NEW r \in Request, Fresh(r), Handle(r)
    PROVE  Fresh(r)'
<1>1. input' = input /\ version' = version /\ cacheOn' = cacheOn
  BY Zenon, RequestIsInside
<1>2. IsUncached(r)' = IsUncached(r)
  BY Zenon, <1>1 DEF IsUncached
<1>c. Control(r)
  BY Zenon DEF ControlInv
<1>3. CASE ReadRequest(r)
  <2>1. layout' = layout /\ read' = read /\ layout[r] = <<>> /\ read[r] = <<>>
        /\ atStart'[r] = version /\ answer[r].status # 200
    BY <1>3, <1>c DEF ReadRequest, Control, ControlInv, Fresh
  <2>2. AreFresh(r, layout[r])' /\ AreFresh(r, read[r])'
    BY <2>1 DEF AreFresh
  <2>3. \A b \in Blob : atStart'[r][b] <= version'[b]
    BY <1>1, <2>1 DEF ControlInv
  <2>4. CASE ~ IsAccepted(input[r])
    <3>1. pc'[r] = "done" /\ answer'[r] = Error(400)
      BY <1>3, <2>4 DEF ReadRequest, Finish, ControlInv
    <3>2. answer'[r].status # 200
      BY <3>1 DEF Error
    <3> QED
      BY Zenon, <2>2, <2>3, <3>1, <3>2 DEF Fresh
  <2>5. CASE IsAccepted(input[r])
    <3>1. answer' = answer
          /\ pc' = [pc EXCEPT ![r] = IF input[r].endpoint = "metadata" THEN "open" ELSE "lookup"]
      BY Zenon, <1>3, <2>5 DEF ReadRequest
    <3>2. pc'[r] = IF input[r].endpoint = "metadata" THEN "open" ELSE "lookup"
      BY Zenon, <3>1 DEF ControlInv
    <3> QED
      BY <1>1, <2>1, <2>2, <2>3, <3>1, <3>2 DEF Fresh
  <2> QED
    BY Zenon, <2>4, <2>5
<1>4. CASE ~ ReadRequest(r)
  <2>1. atStart' = atStart /\ pc[r] # "idle" /\ pc[r] # "done" /\ answer[r].status # 200
    BY ZenonT(60), <1>4 DEF Handle, Lookup, Authorize, OpenFails, UnsuitableVds, Open,
         ExecuteFails, Execute, Respond, RespondMetadata, Fresh
  <2>2. \A b \in Blob : atStart'[r][b] <= version'[b]
    BY Zenon, <1>1, <2>1 DEF Fresh
  <2>4. CASE Lookup(r)
    <3>1. layout' = layout /\ read' = read /\ answer' = answer /\ pc[r] = "lookup"
      BY Zenon, <2>4 DEF Lookup
    <3>2. IsUncached(r) => ~ cacheOn
      BY Zenon, <3>1 DEF IsUncached, Fresh
    <3>3. IsUncached(r) => Hash(input[r]) \notin DOMAIN cache
      BY Zenon, <3>2 DEF NoCache
    <3>4. pc'[r] = IF Hash(input[r]) \in DOMAIN cache THEN "authorize" ELSE "open"
      BY Zenon, <2>4 DEF Lookup, ControlInv
    <3>5. AreFresh(r, layout[r])' /\ AreFresh(r, read[r])'
      BY Zenon, <1>1, <2>1, <3>1 DEF AreFresh, Fresh
    <3> QED
      BY Zenon, <1>2, <2>1, <2>2, <3>1, <3>3, <3>4, <3>5 DEF Fresh
  <2>5. CASE Authorize(r)
    <3>1. layout' = layout /\ read' = read /\ pc[r] = "authorize" /\ ~ IsUncached(r)
      BY Zenon, <2>5 DEF Authorize, Fresh
    <3>2. \/ pc' = pc /\ answer' = answer
          \/ pc' = [pc EXCEPT ![r] = "open"] /\ answer' = answer
          \/ pc' = [pc EXCEPT ![r] = "done"]
      BY ZenonT(60), <2>5 DEF Authorize, Finish, AfterDenial
    <3>3. \/ pc'[r] \in {"authorize", "open"} /\ answer' = answer
          \/ pc'[r] = "done"
      BY Zenon, <3>1, <3>2 DEF ControlInv
    <3>5. AreFresh(r, layout[r])' /\ AreFresh(r, read[r])'
      BY Zenon, <1>1, <2>1, <3>1 DEF AreFresh, Fresh
    <3> QED
      BY Zenon, <1>2, <2>1, <2>2, <3>1, <3>3, <3>5 DEF Fresh
  <2>6. CASE OpenFails(r) \/ UnsuitableVds(r) \/ ExecuteFails(r)
    <3>1. layout' = layout /\ read' = read /\ pc'[r] = "done" /\ answer'[r] \in {Error(400), Error(500)}
      BY <2>6 DEF OpenFails, UnsuitableVds, ExecuteFails, Finish, ControlInv
    <3>2. answer'[r].status # 200
      BY <3>1 DEF Error
    <3>5. AreFresh(r, layout[r])' /\ AreFresh(r, read[r])'
      BY <1>1, <2>1, <3>1 DEF AreFresh, Fresh
    <3> QED
      BY Zenon, <2>2, <3>1, <3>2, <3>5 DEF Fresh
  <2>7. CASE Open(r)
    <3>1. read' = read /\ answer' = answer /\ pc[r] = "open"
          /\ layout'[r] = Append(layout[r], version[TheBlob(r)])
      BY Zenon, <2>7 DEF Open, ControlInv
    <3>2. pc'[r] \in {"open", "execute"}
      <4>1. pc' = pc \/ pc' = [pc EXCEPT ![r] = "execute"]
        BY Zenon, <2>7 DEF Open
      <4> QED
        BY Zenon, <3>1, <4>1 DEF ControlInv
    <3>3. AreFresh(r, Append(layout[r], version[TheBlob(r)]))
      BY ZenonT(60), <1>c, <3>1, AppendFresh DEF Control, Fresh
    <3>5. AreFresh(r, layout[r])' /\ AreFresh(r, read[r])'
      BY Zenon, <1>1, <2>1, <3>1, <3>3 DEF AreFresh, Fresh
    <3> QED
      BY ZenonT(60), <2>1, <2>2, <3>1, <3>2, <3>5 DEF Fresh
  <2>8. CASE Execute(r)
    <3>1. layout' = layout /\ answer' = answer /\ pc[r] = "execute"
          /\ read'[r] = Append(read[r], version[TheBlob(r)])
      BY Zenon, <2>8 DEF Execute, ControlInv
    <3>2. pc'[r] \in {"execute", "respond"}
      <4>1. pc' = pc \/ pc' = [pc EXCEPT ![r] = "respond"]
        BY Zenon, <2>8 DEF Execute
      <4> QED
        BY Zenon, <3>1, <4>1 DEF ControlInv
    <3>3. AreFresh(r, Append(read[r], version[TheBlob(r)]))
      BY ZenonT(60), <1>c, <3>1, AppendFresh DEF Control, Fresh
    <3>5. AreFresh(r, layout[r])' /\ AreFresh(r, read[r])'
      BY Zenon, <1>1, <2>1, <3>1, <3>3 DEF AreFresh, Fresh
    <3> QED
      BY Zenon, <2>1, <2>2, <3>1, <3>2, <3>5 DEF Fresh
  <2>9. CASE Respond(r) \/ RespondMetadata(r)
    <3>1. layout' = layout /\ read' = read /\ pc'[r] = "done" /\ answer'[r] = Ok(Content(r), FALSE)
      BY ZenonT(60), <2>9 DEF Respond, RespondMetadata, Finish, ControlInv
    <3>2. answer'[r].content.layout = layout[r] /\ answer'[r].content.read = read[r]
      BY <3>1 DEF Ok, Content
    <3>5. AreFresh(r, layout[r])' /\ AreFresh(r, read[r])'
      BY ZenonT(60), <1>1, <2>1, <3>1 DEF AreFresh, Fresh
    <3> QED
      BY ZenonT(60), <2>2, <3>1, <3>2, <3>5 DEF Fresh
  <2> QED
    BY Zenon, <1>4, <2>4, <2>5, <2>6, <2>7, <2>8, <2>9 DEF Handle
<1> QED
  BY Zenon, <1>3, <1>4

(***************************************************************************)
(* Versions only grow, so what was fresh for a request stays so.           *)
(***************************************************************************)
LEMMA FreshKept ==
    ASSUME ControlInv, NEW s \in Request, Fresh(s), input' = input, cacheOn' = cacheOn,
           pc'[s] = pc[s], layout'[s] = layout[s], read'[s] = read[s], answer'[s] = answer[s],
           atStart'[s] = atStart[s], version' \in [Blob -> Nat],
           \A b \in Blob : version[b] <= version'[b]
    PROVE  Fresh(s)'
<1>1. IsUncached(s)' = IsUncached(s)
  BY Zenon DEF IsUncached
<1>2. AreFresh(s, layout[s])' /\ AreFresh(s, read[s])'
  BY Zenon DEF AreFresh, Fresh
<1>3. ASSUME pc'[s] # "idle", NEW b \in Blob PROVE atStart'[s][b] <= version'[b]
  <2>1. atStart[s][b] <= version[b] /\ atStart[s][b] \in Nat /\ version[b] \in Nat /\ version'[b] \in Nat
    BY <1>3 DEF Fresh, ControlInv
  <2>2. version[b] <= version'[b]
    BY Zenon
  <2> QED
    BY <2>1, <2>2
<1> QED
  BY ZenonT(60), <1>1, <1>2, <1>3 DEF Fresh

\* A new version in the store does not make an earlier read stale.
LEMMA FreshStep ==
    ASSUME ControlInv, NoCache, \A s \in Request : Fresh(s), [Next]_vars, NEW s \in Request
    PROVE  Fresh(s)'
<1>1. ASSUME NEW r \in Request, Handle(r) PROVE Fresh(s)'
  <2>1. CASE s = r
    BY Zenon, <1>1, <2>1, FreshHandle
  <2>2. CASE s # r
    <3>1. input' = input /\ cacheOn' = cacheOn /\ version' = version
      BY Zenon, <1>1, RequestIsInside
    <3>2. version' \in [Blob -> Nat] /\ \A b \in Blob : version[b] <= version'[b]
      BY <3>1 DEF ControlInv
    <3> QED
      BY Zenon, <1>1, <2>2, <3>1, <3>2, OthersStay, FreshKept
  <2> QED
    BY Zenon, <2>1, <2>2
<1>2. CASE Environment
  <2>1. /\ UNCHANGED localVars /\ UNCHANGED atStart /\ UNCHANGED cacheOn
        /\ version' \in [Blob -> Nat] /\ \A b \in Blob : version[b] <= version'[b]
    BY Zenon, <1>2, EnvironmentIsOutside
  <2> QED
    BY Zenon, <2>1, FreshKept DEF localVars
<1>3. CASE UNCHANGED vars
  BY <1>3 DEF vars, localVars, cacheVars, storeVars, Fresh, AreFresh, IsUncached
<1> QED
  BY Zenon, <1>1, <1>2, <1>3 DEF Next

(***************************************************************************)
(* Without a cache (NewCache of size 0), and always on /metadata, nothing  *)
(* in an answer was replaced before the request arrived, however often a   *)
(* VDS is overwritten and whatever other requests do.                      *)
(***************************************************************************)
THEOREM UncachedAnswersAreFresh == Spec => []NoCacheNoStaleness
<1> DEFINE FreshInv == \A s \in Request : Fresh(s)
<1>1. Init => ControlInv /\ NoCache /\ FreshInv
  <2>1. ASSUME Init, NEW s \in Request PROVE Fresh(s)
    BY <2>1 DEF Init, Fresh, AreFresh, NoAnswer
  <2>2. Init => NoCache
    BY DEF Init, NoCache
  <2> QED
    BY Zenon, <2>1, <2>2, ControlInit
<1>2. ControlInv /\ NoCache /\ FreshInv /\ [Next]_vars => ControlInv' /\ NoCache' /\ FreshInv'
  BY Zenon, ControlStep, NoCacheStep, FreshStep
<1>3. ControlInv /\ FreshInv => NoCacheNoStaleness
  <2> SUFFICES ASSUME ControlInv, FreshInv, NEW r \in Request,
                      answer[r].status = 200, ~ cacheOn \/ ~ IsData(r)
               PROVE  /\ \A k \in DOMAIN answer[r].content.layout :
                           answer[r].content.layout[k] >= atStart[r][Vds(input[r])[k]]
                      /\ \A k \in DOMAIN answer[r].content.read :
                           answer[r].content.read[k] >= atStart[r][Vds(input[r])[k]]
    BY DEF NoCacheNoStaleness
  <2>1. IsUncached(r)
    BY Zenon DEF IsUncached, IsData
  <2>2. answer[r].content.layout = layout[r] /\ answer[r].content.read = read[r]
    BY Zenon, <2>1 DEF Fresh
  <2>3. DOMAIN layout[r] = 1 .. Len(layout[r]) /\ DOMAIN read[r] = 1 .. Len(read[r])
    BY DEF ControlInv, Control
  <2> QED
    BY <2>2, <2>3 DEF Fresh, AreFresh
<1> HIDE DEF FreshInv
<1> QED
  BY <1>1, <1>2, <1>3, PTL DEF Spec
-----------------------------------------------------------------------------
(***************************************************************************)
(* Every answer with data, from the cache or not, has been preceded by a   *)
(* check of the access to each VDS, for any number of requests.            *)
(***************************************************************************)

(***************************************************************************)
(* The connections before the current one, once they have been checked or  *)
(* read, are ones whose token could read.                                  *)
(***************************************************************************)
Access(r) ==
    /\ couldRead[r] \subseteq Conns(r)
    /\ pc[r] = "authorize" /\ authorized[r] => 1 .. conn[r] - 1 \subseteq couldRead[r]
    /\ pc[r] = "execute" /\ input[r].endpoint # "metadata" => 1 .. conn[r] - 1 \subseteq couldRead[r]
    /\ pc[r] = "respond" => Conns(r) \subseteq couldRead[r]
    /\ pc[r] # "done" => answer[r].status # 200
    /\ IsData(r) => Conns(r) \subseteq couldRead[r]

(***************************************************************************)
(* What RecordAccess records of a request that is being handled.           *)
(***************************************************************************)
LEMMA RecordedAccess ==
    ASSUME ControlInv, RecordAccess, NEW s \in Request
    PROVE  /\ couldRead'[s] \subseteq couldRead[s] \union Conns(s)
           /\ couldRead[s] \subseteq couldRead'[s]
           /\ pc[s] \in Busy /\ pc'[s] # "idle" /\ CanRead(TheToken(s), TheBlob(s))
                => conn[s] \in couldRead'[s]
<1>1. couldRead'[s] = IF pc[s] = "done" \/ pc'[s] = "idle" \/ ~ IsAccepted(input[s])
                      THEN couldRead[s] ELSE couldRead[s] \union Readable(s)
  BY Zenon DEF RecordAccess
<1>2. Readable(s) \subseteq Conns(s)
  BY Zenon DEF Readable
<1>3. ASSUME pc[s] \in Busy, pc'[s] # "idle", CanRead(TheToken(s), TheBlob(s))
      PROVE  conn[s] \in couldRead'[s]
  <2>1. input[s] \in Inputs /\ IsAccepted(input[s]) /\ conn[s] \in 1 .. Len(input[s].urls)
    BY Zenon, <1>3 DEF ControlInv, Control
  <2>2. conn[s] \in Conns(s)
    BY Zenon, <2>1, AcceptedInput DEF Conns
  <2>3. conn[s] \in Readable(s)
    BY Zenon, <1>3, <2>2 DEF Readable, TheToken, TheBlob
  <2>4. pc[s] # "done"
    BY Zenon, <1>3 DEF Busy
  <2> QED
    BY Zenon, <1>1, <1>3, <2>1, <2>3, <2>4
<1> QED
  BY Zenon, <1>1, <1>2, <1>3

\* Each path to an answer passes an access check of every VDS.
LEMMA AccessHandle ==
    ASSUME ControlInv, NEW r \in Request, Access(r), Handle(r), RecordAccess
    PROVE  Access(r)'
<1>1. input' = input /\ Conns(r)' = Conns(r)
  BY Zenon, RequestIsInside DEF Conns
<1>2. /\ couldRead'[r] \subseteq couldRead[r] \union Conns(r)
      /\ couldRead[r] \subseteq couldRead'[r]
      /\ pc[r] \in Busy /\ pc'[r] # "idle" /\ CanRead(TheToken(r), TheBlob(r))
           => conn[r] \in couldRead'[r]
  BY Zenon, RecordedAccess
<1>3. couldRead'[r] \subseteq Conns(r)
  BY Zenon, <1>2 DEF Access
<1>c. Control(r)
  BY Zenon DEF ControlInv
<1>d. pc[r] \in Busy => Conns(r) = 1 .. Len(input[r].urls) /\ Len(input[r].urls) \in Nat
                         /\ conn[r] \in 1 .. Len(input[r].urls)
  BY <1>c, AcceptedInput DEF Control, Conns
<1>4. CASE ReadRequest(r) \/ OpenFails(r) \/ UnsuitableVds(r) \/ ExecuteFails(r)
  <2>1. pc[r] # "done"
    BY <1>4 DEF ReadRequest, OpenFails, UnsuitableVds, ExecuteFails
  <2>2. \/ pc'[r] = "done" /\ answer'[r] \in {Error(400), Error(500)}
        \/ pc'[r] \in {"open", "lookup"} /\ answer' = answer
    BY <1>4 DEF ReadRequest, OpenFails, UnsuitableVds, ExecuteFails, Finish, ControlInv
  <2>3. answer'[r].status # 200
    <3>1. CASE answer' = answer
      BY Zenon, <2>1, <3>1 DEF Access
    <3>2. CASE answer'[r] \in {Error(400), Error(500)}
      BY <3>2 DEF Error
    <3> QED BY Zenon, <2>2, <3>1, <3>2
  <2> QED
    BY <1>1, <1>3, <2>2, <2>3 DEF Access, IsData
<1>5. CASE Lookup(r)
  <2>1. pc[r] = "lookup" /\ answer' = answer /\ conn'[r] = 1
    BY ZenonT(60), <1>5, <1>c DEF Lookup, Control
  <2>2. pc'[r] \in {"authorize", "open"}
    BY Zenon, <1>5 DEF Lookup, ControlInv
  <2>3. 1 .. conn'[r] - 1 = {}
    BY <2>1
  <2> QED
    BY Zenon, <1>1, <1>3, <2>1, <2>2, <2>3 DEF Access, IsData
<1>6. CASE Authorize(r)
  <2>1. pc[r] = "authorize" /\ answer[r].status # 200
    BY ZenonT(60), <1>6 DEF Authorize, Access
  <2>2. \/ ~ authorized'[r]
        \/ authorized[r] /\ IsAuthorizedToRead(TheToken(r), TheBlob(r))
    BY ZenonT(60), <1>6 DEF Authorize, ControlInv
  <2>3. pc'[r] \in {"authorize", "open", "done"}
    <3>1. pc' = pc \/ pc' = [pc EXCEPT ![r] = "done"] \/ pc' = [pc EXCEPT ![r] = "open"]
      BY ZenonT(60), <1>6 DEF Authorize, Finish, AfterDenial
    <3> QED
      BY Zenon, <2>1, <3>1 DEF ControlInv
  <2>4. authorized'[r] => 1 .. conn[r] - 1 \subseteq couldRead'[r] /\ conn[r] \in couldRead'[r]
    BY ZenonT(60), <1>2, <2>1, <2>2, <2>3 DEF Access, IsAuthorizedToRead, CanRead, Busy
  <2>5. authorized'[r] => 1 .. conn[r] \subseteq couldRead'[r]
    BY <2>1, <2>4, <1>d DEF Busy
  <2>6. CASE pc'[r] = "authorize"
    <3>1. conn'[r] = conn[r] + 1 /\ answer' = answer
      BY ZenonT(60), <1>6, <2>6 DEF Authorize, Finish, AfterDenial, ControlInv
    <3>2. conn'[r] - 1 = conn[r]
      BY <3>1, <1>c DEF Control
    <3> QED
      BY Zenon, <1>1, <1>3, <2>1, <2>5, <2>6, <3>1, <3>2 DEF Access, IsData
  <2>7. CASE pc'[r] = "open"
    <3>1. answer' = answer
      BY ZenonT(60), <1>6, <2>7 DEF Authorize, Finish, AfterDenial, ControlInv
    <3> QED
      BY Zenon, <1>1, <1>3, <2>1, <2>7, <3>1 DEF Access, IsData
  <2>8. CASE pc'[r] = "done"
    <3>1. authorized'[r] /\ IsLast(r)
      BY ZenonT(60), <1>6, <2>1, <2>8 DEF Authorize, Finish, AfterDenial, ControlInv
    <3>2. Conns(r) \subseteq couldRead'[r]
      BY Zenon, <2>1, <2>5, <3>1, <1>d DEF IsLast, Busy
    <3> QED
      BY Zenon, <1>1, <1>3, <2>8, <3>2 DEF Access
  <2> QED
    BY Zenon, <2>3, <2>6, <2>7, <2>8
<1>7. CASE Open(r)
  <2>1. pc[r] = "open" /\ answer' = answer /\ answer[r].status # 200
    BY ZenonT(60), <1>7 DEF Open, Access
  <2>2. \/ pc'[r] = "open"
        \/ pc'[r] = "execute" /\ conn'[r] = 1
    BY <1>7, <2>1 DEF Open, ControlInv
  <2>3. conn'[r] = 1 => 1 .. conn'[r] - 1 = {}
    OBVIOUS
  <2> QED
    BY Zenon, <1>1, <1>3, <2>1, <2>2, <2>3 DEF Access, IsData
<1>8. CASE Execute(r)
  <2>1. pc[r] = "execute" /\ answer' = answer /\ answer[r].status # 200
        /\ CanRead(TheToken(r), TheBlob(r)) /\ input[r].endpoint # "metadata"
    BY Zenon, <1>8 DEF Execute, Access
  <2>2. \/ pc'[r] = "respond" /\ IsLast(r)
        \/ pc'[r] = "execute" /\ conn'[r] = conn[r] + 1
    BY Zenon, <1>8, <2>1 DEF Execute, ControlInv
  <2>3. 1 .. conn[r] - 1 \subseteq couldRead'[r] /\ conn[r] \in couldRead'[r]
    BY ZenonT(60), <1>2, <2>1, <2>2 DEF Access, Busy
  <2>4. 1 .. conn[r] \subseteq couldRead'[r]
    BY <2>1, <2>3, <1>d DEF Busy
  <2>5. CASE pc'[r] = "respond" /\ IsLast(r)
    <3>1. Conns(r) \subseteq couldRead'[r]
      BY ZenonT(60), <2>1, <2>4, <2>5, <1>d DEF IsLast, Busy
    <3> QED
      BY Zenon, <1>1, <1>3, <2>1, <2>5, <3>1 DEF Access, IsData
  <2>6. CASE pc'[r] = "execute" /\ conn'[r] = conn[r] + 1
    <3>1. conn'[r] - 1 = conn[r]
      BY <2>6, <1>c DEF Control
    <3> QED
      BY Zenon, <1>1, <1>3, <2>1, <2>4, <2>6, <3>1 DEF Access, IsData
  <2> QED
    BY Zenon, <2>2, <2>5, <2>6
<1>9. CASE Respond(r)
  <2>1. pc[r] = "respond" /\ pc'[r] = "done"
    BY Zenon, <1>9 DEF Respond, Finish, ControlInv
  <2> QED
    BY Zenon, <1>1, <1>2, <1>3, <2>1 DEF Access
<1>10. CASE RespondMetadata(r)
  <2>1. pc'[r] = "done" /\ input[r].endpoint = "metadata"
    BY ZenonT(60), <1>10 DEF RespondMetadata, Finish, ControlInv
  <2> QED
    BY ZenonT(60), <1>1, <1>3, <2>1 DEF Access, IsData
<1> QED
  BY Zenon, <1>4, <1>5, <1>6, <1>7, <1>8, <1>9, <1>10 DEF Handle

(***************************************************************************)
(* What a request has shown stays shown while others take their steps.     *)
(***************************************************************************)
LEMMA AccessKept ==
    ASSUME ControlInv, RecordAccess, NEW s \in Request, Access(s), input' = input,
           pc'[s] = pc[s], conn'[s] = conn[s], authorized'[s] = authorized[s], answer'[s] = answer[s]
    PROVE  Access(s)'
<1>1. Conns(s)' = Conns(s)
  BY Zenon DEF Conns
<1>2. couldRead'[s] \subseteq couldRead[s] \union Conns(s) /\ couldRead[s] \subseteq couldRead'[s]
  BY Zenon, RecordedAccess
<1> QED
  BY <1>1, <1>2 DEF Access, IsData

\* The access that was checked stays recorded until the answer.
LEMMA AccessStep ==
    ASSUME ControlInv, \A s \in Request : Access(s), [Next]_vars, NEW s \in Request
    PROVE  Access(s)'
<1>1. ASSUME NEW r \in Request, Handle(r), RecordAccess PROVE Access(s)'
  <2>1. CASE s = r
    BY Zenon, <1>1, <2>1, AccessHandle
  <2>2. CASE s # r
    <3>1. input' = input
      BY Zenon, <1>1, RequestIsInside
    <3> QED
      BY Zenon, <1>1, <2>2, <3>1, OthersStay, AccessKept
  <2> QED
    BY Zenon, <2>1, <2>2
<1>2. CASE Environment /\ RecordAccess
  <2>1. UNCHANGED localVars
    BY Zenon, <1>2, EnvironmentIsOutside
  <2> QED
    BY Zenon, <1>2, <2>1, AccessKept DEF localVars
<1>3. CASE UNCHANGED vars
  BY Zenon, <1>3 DEF vars, localVars, Access, Conns, IsData
<1> QED
  BY Zenon, <1>1, <1>2, <1>3 DEF Next

(***************************************************************************)
(* Data is served only to a request whose own tokens could read each VDS   *)
(* while it was handled: from the store, and after a hit (makeDataRequest  *)
(* and IsAuthorizedToRead), for any number of requests and connections,    *)
(* and although tokens are revoked at any time.                            *)
(***************************************************************************)
THEOREM AccessIsChecked == Spec => []ServedOnlyWithAccess
<1> DEFINE AccessInv == \A s \in Request : Access(s)
<1>1. Init => ControlInv /\ AccessInv
  <2>1. ASSUME Init, NEW s \in Request PROVE Access(s)
    BY <2>1 DEF Init, Access, IsData, NoAnswer
  <2> QED
    BY Zenon, <2>1, ControlInit
<1>2. ControlInv /\ AccessInv /\ [Next]_vars => ControlInv' /\ AccessInv'
  BY Zenon, ControlStep, AccessStep
<1>3. AccessInv => ServedOnlyWithAccess
  BY ZenonT(60) DEF Access, ServedOnlyWithAccess
<1> HIDE DEF AccessInv
<1> QED
  BY <1>1, <1>2, <1>3, PTL DEF Spec
-----------------------------------------------------------------------------
(***************************************************************************)
(* The types: what the loops of a request leave behind when it is done.    *)
(***************************************************************************)
IsRefusal(a) == a = Error(400) \/ a = Error(500)

\* No request has started.
LEMMA TypeInit == Init => TypeOK
<1> SUFFICES ASSUME Init PROVE TypeOK
  BY Zenon
<1>1. ASSUME NEW r \in Request
      PROVE  /\ Len(layout[r]) <= 2 /\ Len(read[r]) <= 2
             /\ answer[r].status \in Status /\ couldRead[r] \subseteq Conns(r)
  <2>1. layout[r] = <<>> /\ read[r] = <<>> /\ answer[r] = NoAnswer /\ couldRead[r] = {}
    BY Zenon DEF Init
  <2>2. Len(<<>>) <= 2 /\ NoAnswer.status \in Status
    BY DEF NoAnswer, Status
  <2> QED
    BY Zenon, <2>1, <2>2
<1>2. \A b \in Blob : version[b] \in 1 .. MaxVersion[b]
  <2>1. \A b \in Blob : version[b] = 1
    BY Zenon DEF Init
  <2>2. \A m \in Nat \ {0} : 1 \in 1 .. m
    OBVIOUS
  <2> QED
    BY Zenon, <2>1, <2>2, VersionAssumption
<1>3. 1 \in 1 .. 2
  OBVIOUS
<1>4. /\ pc \in [Request -> States] /\ input \in [Request -> Inputs]
      /\ conn \in [Request -> 1 .. 2] /\ authorized \in [Request -> BOOLEAN]
      /\ handles \subseteq Request \X (1 .. 2) /\ cacheOn \in BOOLEAN
  BY Zenon, <1>3 DEF Init, States
<1>5. access \in [Token -> SUBSET Blob]
  BY DEF Init
<1> QED
  BY Zenon, <1>1, <1>2, <1>4, <1>5 DEF TypeOK

(***************************************************************************)
(* The steps of a request: its loop index, its authorization, its answer   *)
(* and its handles.                                                        *)
(***************************************************************************)
LEMMA TypeHandle ==
    ASSUME ControlInv, TypeOK, NEW r \in Request, Handle(r)
    PROVE  /\ pc' \in [Request -> States] /\ conn' \in [Request -> 1 .. 2]
           /\ authorized' \in [Request -> BOOLEAN] /\ answer'[r].status \in Status
           /\ handles' \subseteq Request \X (1 .. 2)
<1>0. /\ pc \in [Request -> States] /\ conn \in [Request -> 1 .. 2]
      /\ authorized \in [Request -> BOOLEAN] /\ answer[r].status \in Status
      /\ handles \subseteq Request \X (1 .. 2) /\ DOMAIN answer = Request
  BY Zenon DEF TypeOK, ControlInv
<1>c. pc[r] \in Busy /\ ~ IsLast(r) => conn[r] + 1 \in 1 .. 2
  <2>1. Control(r)
    BY Zenon DEF ControlInv
  <2>2. pc[r] \in Busy => Len(input[r].urls) \in 1 .. 2 /\ conn[r] \in 1 .. Len(input[r].urls)
    BY Zenon, <2>1, AcceptedInput DEF Control
  <2>3. \A n \in 1 .. 2 : \A k \in 1 .. n : k # n => k + 1 \in 1 .. 2
    OBVIOUS
  <2> QED
    BY Zenon, <2>2, <2>3 DEF IsLast
<1>h. <<r, conn[r]>> \in Request \X (1 .. 2)
  BY Zenon, <1>0
<1>a. \A a : IsRefusal(a) => a.status \in Status
  BY DEF IsRefusal, Error, Status
<1>o. \A content, hit : Ok(content, hit).status \in Status
  BY DEF Ok, Status
<1>f. ASSUME NEW a, a.status \in Status, Finish(r, a)
      PROVE  answer'[r].status \in Status /\ pc' \in [Request -> States]
  BY Zenon, <1>0, <1>f DEF Finish, States
<1>1. CASE ReadRequest(r)
  <2>1. conn' = conn /\ authorized' = authorized /\ handles' = handles
    BY Zenon, <1>1 DEF ReadRequest
  <2>2. CASE ~ IsAccepted(input[r])
    <3>1. PICK a : IsRefusal(a) /\ Finish(r, a)
      BY <1>1, <2>2 DEF ReadRequest, IsRefusal
    <3> QED BY Zenon, <1>0, <1>a, <1>f, <2>1, <3>1
  <2>3. CASE IsAccepted(input[r])
    BY Zenon, <1>0, <1>1, <2>1, <2>3 DEF ReadRequest, States
  <2> QED BY Zenon, <2>2, <2>3
<1>2. CASE Lookup(r)
  BY Zenon, <1>0, <1>2 DEF Lookup, States
<1>3. CASE Authorize(r)
  <2>1. handles' = handles /\ pc[r] \in Busy
    BY Zenon, <1>3 DEF Authorize, Busy
  <2>2. PICK ok \in BOOLEAN :
            /\ authorized' = [authorized EXCEPT ![r] = ok]
            /\ \/ /\ ~ IsLast(r)
                  /\ conn' = [conn EXCEPT ![r] = conn[r] + 1]
                  /\ UNCHANGED <<pc, answer>>
               \/ /\ Finish(r, Ok(entry[r], TRUE))
                  /\ UNCHANGED conn
               \/ /\ pc' = [pc EXCEPT ![r] = "open"]
                  /\ conn' = [conn EXCEPT ![r] = 1]
                  /\ UNCHANGED answer
    BY Zenon, <1>3 DEF Authorize, AfterDenial
  <2>3. authorized' \in [Request -> BOOLEAN]
    BY Zenon, <1>0, <2>2
  <2>4. CASE /\ ~ IsLast(r)
             /\ conn' = [conn EXCEPT ![r] = conn[r] + 1]
             /\ UNCHANGED <<pc, answer>>
    BY Zenon, <1>0, <1>c, <2>1, <2>3, <2>4
  <2>5. CASE Finish(r, Ok(entry[r], TRUE)) /\ UNCHANGED conn
    BY Zenon, <1>0, <1>o, <1>f, <2>1, <2>3, <2>5
  <2>6. CASE /\ pc' = [pc EXCEPT ![r] = "open"]
             /\ conn' = [conn EXCEPT ![r] = 1]
             /\ UNCHANGED answer
    <3>1. 1 \in 1 .. 2
      OBVIOUS
    <3> QED BY Zenon, <1>0, <2>1, <2>3, <2>6, <3>1 DEF States
  <2> QED BY Zenon, <2>2, <2>4, <2>5, <2>6
<1>4. CASE OpenFails(r) \/ UnsuitableVds(r) \/ ExecuteFails(r)
  <2>1. /\ conn' = conn /\ authorized' = authorized
        /\ \A h \in handles' : h \in handles \/ h = <<r, conn[r]>>
    BY Zenon, <1>4 DEF OpenFails, UnsuitableVds, ExecuteFails
  <2>2. PICK a : IsRefusal(a) /\ Finish(r, a)
    BY <1>4 DEF OpenFails, UnsuitableVds, ExecuteFails, IsRefusal
  <2>3. handles' \subseteq Request \X (1 .. 2)
    BY Zenon, <1>0, <1>h, <2>1
  <2> QED BY Zenon, <1>0, <1>a, <1>f, <2>1, <2>2, <2>3
<1>5. CASE Open(r)
  <2>1. /\ authorized' = authorized /\ answer' = answer /\ pc[r] \in Busy
        /\ handles' = handles \union {<<r, conn[r]>>}
    BY Zenon, <1>5 DEF Open, Busy
  <2>2. handles' \subseteq Request \X (1 .. 2)
    BY Zenon, <1>0, <1>h, <2>1
  <2>3. 1 \in 1 .. 2
    OBVIOUS
  <2>4. conn' \in [Request -> 1 .. 2] /\ pc' \in [Request -> States]
    BY Zenon, <1>0, <1>c, <1>5, <2>1, <2>3 DEF Open, States
  <2> QED BY Zenon, <1>0, <2>1, <2>2, <2>4
<1>6. CASE Execute(r)
  <2>1. /\ authorized' = authorized /\ answer' = answer /\ handles' = handles /\ pc[r] \in Busy
    BY Zenon, <1>6 DEF Execute, Busy
  <2>2. conn' \in [Request -> 1 .. 2] /\ pc' \in [Request -> States]
    BY Zenon, <1>0, <1>c, <1>6, <2>1 DEF Execute, States
  <2> QED BY Zenon, <1>0, <2>1, <2>2
<1>7. CASE Respond(r) \/ RespondMetadata(r)
  <2>1. /\ conn' = conn /\ authorized' = authorized /\ handles' \subseteq handles
        /\ Finish(r, Ok(Content(r), FALSE))
    BY Zenon, <1>7 DEF Respond, RespondMetadata
  <2>2. handles' \subseteq Request \X (1 .. 2)
    BY Zenon, <1>0, <2>1
  <2> QED BY Zenon, <1>0, <1>o, <1>f, <2>1, <2>2
<1> QED
  BY Zenon, <1>1, <1>2, <1>3, <1>4, <1>5, <1>6, <1>7 DEF Handle

\* A step of a request, of the cache or of the store.
LEMMA TypeStep ==
    ASSUME ControlInv, TypeOK, [Next]_vars
    PROVE  TypeOK'
<1>c. ControlInv'
  BY Zenon, ControlStep
<1>1. ASSUME RecordAccess, input' = input, NEW s \in Request
      PROVE  couldRead'[s] \subseteq Conns(s)'
  <2>1. couldRead'[s] \subseteq couldRead[s] \union Conns(s) /\ couldRead[s] \subseteq Conns(s)
    BY Zenon, <1>1, RecordedAccess DEF TypeOK
  <2>2. Conns(s)' = Conns(s)
    BY Zenon, <1>1 DEF Conns
  <2> QED BY Zenon, <2>1, <2>2
<1>2. ASSUME NEW r \in Request, Handle(r), RecordAccess PROVE TypeOK'
  <2>1. input' = input /\ cacheOn' = cacheOn /\ access' = access /\ version' = version
    BY Zenon, <1>2, RequestIsInside
  <2>2. ASSUME NEW s \in Request
        PROVE  /\ Len(layout'[s]) <= 2 /\ Len(read'[s]) <= 2 /\ answer'[s].status \in Status
    <3>1. CASE s # r
      BY Zenon, <1>2, <3>1, OthersStay DEF TypeOK
    <3>2. CASE s = r
      <4>1. answer'[s].status \in Status
        BY Zenon, <1>2, <3>2, TypeHandle
      <4>2. CASE IsAccepted(input[r])
        <5>1. input[r] \in Inputs
          BY Zenon DEF TypeOK
        <5>2. Len(input[r].urls) \in 1 .. 2
          BY Zenon, <4>2, <5>1, AcceptedInput
        <5>3. /\ layout'[r] \in Seq(Nat) /\ read'[r] \in Seq(Nat)
              /\ Len(layout'[r]) <= Len(input[r].urls) /\ Len(read'[r]) <= Len(input[r].urls)
          BY Zenon, <1>c, <2>1 DEF ControlInv, Control
        <5>4. \A l, n : l \in Nat /\ n \in 1 .. 2 /\ l <= n => l <= 2
          OBVIOUS
        <5>5. Len(layout'[r]) \in Nat /\ Len(read'[r]) \in Nat
          BY <5>3
        <5> QED BY Zenon, <3>2, <4>1, <5>2, <5>3, <5>4, <5>5
      <4>3. CASE ~ IsAccepted(input[r])
        <5>1. pc[r] \notin Busy
          BY Zenon, <4>3 DEF ControlInv, Control
        <5>2. layout' = layout /\ read' = read
          BY ZenonT(60), <1>2, <5>1 DEF Busy, Handle, ReadRequest, Lookup, Authorize, OpenFails,
             UnsuitableVds, Open, ExecuteFails, Execute, Respond, RespondMetadata
        <5> QED BY Zenon, <3>2, <4>1, <5>2 DEF TypeOK
      <4> QED BY Zenon, <4>2, <4>3
    <3> QED BY Zenon, <3>1, <3>2
  <2>3. /\ pc' \in [Request -> States] /\ conn' \in [Request -> 1 .. 2]
        /\ authorized' \in [Request -> BOOLEAN] /\ handles' \subseteq Request \X (1 .. 2)
    BY Zenon, <1>2, TypeHandle
  <2>4. \A s \in Request : couldRead'[s] \subseteq Conns(s)'
    BY Zenon, <1>1, <1>2, <2>1
  <2> QED BY Zenon, <2>1, <2>2, <2>3, <2>4 DEF TypeOK
<1>3. ASSUME Environment, RecordAccess PROVE TypeOK'
  <2>1. UNCHANGED localVars /\ UNCHANGED cacheOn
    BY Zenon, <1>3, EnvironmentIsOutside
  <2>2. access' \in [Token -> SUBSET Blob]
    <3>1. access' = access \/ \E t \in Token : \E b \in access[t] :
                                access' = [access EXCEPT ![t] = access[t] \ {b}]
      BY ZenonT(60), <1>3 DEF Environment, ApplySet, DropSet, Evict, Revoke, Overwrite, storeVars
    <3>2. access \in [Token -> SUBSET Blob]
      BY Zenon DEF TypeOK
    <3> QED BY <3>1, <3>2
  <2>3. \A b \in Blob : version'[b] \in 1 .. MaxVersion[b]
    <3>1. CASE Overwrite
      <4>1. PICK o \in Blob : /\ version[o] < MaxVersion[o]
                              /\ version' = [version EXCEPT ![o] = version[o] + 1]
        BY ZenonT(60), <3>1 DEF Overwrite
      <4>2. /\ version \in [Blob -> Nat]
            /\ \A b \in Blob : version[b] \in 1 .. MaxVersion[b] /\ MaxVersion[b] \in Nat \ {0}
        BY Zenon, VersionAssumption DEF TypeOK, ControlInv
      <4>3. \A v, m : m \in Nat \ {0} /\ v \in 1 .. m /\ v < m => v + 1 \in 1 .. m
        OBVIOUS
      <4>4. version[o] + 1 \in 1 .. MaxVersion[o]
        BY Zenon, <4>1, <4>2, <4>3
      <4> QED BY Zenon, <4>1, <4>2, <4>4
    <3>2. CASE version' = version
      BY Zenon, <3>2 DEF TypeOK
    <3>3. Overwrite \/ version' = version
      BY ZenonT(60), <1>3 DEF Environment, ApplySet, DropSet, Evict, Revoke, storeVars
    <3> QED BY Zenon, <3>1, <3>2, <3>3
  <2>4. \A s \in Request : couldRead'[s] \subseteq Conns(s)'
    BY Zenon, <1>1, <1>3, <2>1 DEF localVars
  <2> QED BY Zenon, <2>1, <2>2, <2>3, <2>4 DEF TypeOK, localVars
<1>4. CASE UNCHANGED vars
  BY Zenon, <1>4 DEF vars, localVars, cacheVars, storeVars, TypeOK, Conns
<1> QED
  BY Zenon, <1>2, <1>3, <1>4 DEF Next

(***************************************************************************)
(* A request of any shape keeps its loops within its one or two            *)
(* connections, opens and reads at most two VDS, and is answered with a    *)
(* status that the API documents, for any number of requests, blobs,       *)
(* tokens and versions (makeDataRequest, metadata).                        *)
(***************************************************************************)
THEOREM TypesAreKept == Spec => []TypeOK
<1>1. Init => ControlInv /\ TypeOK
  BY Zenon, ControlInit, TypeInit
<1>2. ControlInv /\ TypeOK /\ [Next]_vars => ControlInv' /\ TypeOK'
  BY Zenon, ControlStep, TypeStep
<1> QED
  BY <1>1, <1>2, PTL DEF Spec
=============================================================================
