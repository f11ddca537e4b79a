---------------------------- MODULE DataRequest ----------------------------
(***************************************************************************)
(* Concurrent requests to the data endpoints and to /metadata: every       *)
(* request is a goroutine that runs makeDataRequest or metadata            *)
(* (endpoint.go, metadata.go) against one shared cache (cache.go) and the  *)
(* blob store, through IsAuthorizedToRead (connection.go) and data handles *)
(* (core.go, datahandle.cpp).                                              *)
(*                                                                         *)
(* The store is the environment: tokens expire or are revoked and a VDS    *)
(* may be overwritten at any time.  The cache (ristretto) applies a Set    *)
(* later or not at all and evicts as it likes.                             *)
(***************************************************************************)
EXTENDS RequestedResource, FiniteSets

CONSTANTS
    Request,      \* requests, one goroutine each
    Inputs,       \* what a client may send
    BlobScoped,   \* tokens whose sr is not 'c' or 'd'
    Granted,      \* <<token, blob>>: the access tokens have to begin with
    MaxVersion    \* bound on how often each VDS is overwritten

\* "absent" stands for what gob leaves out, so it is no fill value.
ASSUME InputsAssumption ==
    \A in \in Inputs : in.urls \in Seq(Url) /\ in.fill # "absent"

ASSUME VersionAssumption ==
    \A b \in Blob : MaxVersion[b] \in Nat \ {0}

VARIABLES
    pc,           \* control state of each request
    input,        \* what the client sent
    conn,         \* loop index over the connections
    entry,        \* cache entry that was hit
    authorized,   \* the variable isAuthorizedToRead
    layout,       \* version of each VDS when its handle was opened
    read,         \* version of each VDS when its samples were read
    handles,      \* open OpenVDS handles: <<request, connection>>
    answer,       \* what the client got
    cacheOn,      \* a cache size other than 0 was configured
    cache,        \* applied entries
    pendingSets,  \* Set calls that ristretto has buffered
    access,       \* blobs each token gives access to
    version,      \* current version of each VDS
    couldRead,    \* history: connections whose token was good at some time
    atStart       \* history: versions when the request arrived

localVars == <<pc, input, conn, entry, authorized, layout, read, handles, answer>>
cacheVars == <<cacheOn, cache, pendingSets>>
storeVars == <<access, version>>
vars == <<localVars, cacheVars, storeVars, couldRead, atStart>>

-----------------------------------------------------------------------------
NoEntry == [of |-> "nothing"]
NoAnswer == [status |-> 0]
Error(code) == [status |-> code]
Ok(content, hit) == [status |-> 200, content |-> content, hit |-> hit]

\* What execute produces: metadata from the layout, data from the samples.
Content(r) == [of |-> Subject(input[r]), layout |-> layout[r], read |-> read[r]]

Conns(r) == DOMAIN input[r].urls
IsLast(r) == conn[r] = Len(input[r].urls)
TheBlob(r) == Vds(input[r])[conn[r]]
TheToken(r) == Sas(input[r])[conn[r]]
HasAccess(t, b) == t # NoToken /\ b \in access[t]

(***************************************************************************)
(* Whether a token can read a whole VDS, not only its layout.              *)
(***************************************************************************)
CanRead(t, b) == HasAccess(t, b) /\ t \notin BlobScoped

-----------------------------------------------------------------------------
Init ==
    /\ pc = [r \in Request |-> "idle"]
    /\ input \in [Request -> Inputs]
    /\ conn = [r \in Request |-> 1]
    /\ entry = [r \in Request |-> NoEntry]
    /\ authorized = [r \in Request |-> FALSE]
    /\ layout = [r \in Request |-> <<>>]
    /\ read = [r \in Request |-> <<>>]
    /\ handles = {}
    /\ answer = [r \in Request |-> NoAnswer]
    /\ cacheOn \in BOOLEAN
    /\ cache = <<>>
    /\ pendingSets = {}
    /\ access = [t \in Token |-> {b \in Blob : <<t, b>> \in Granted}]
    /\ version = [b \in Blob |-> 1]
    /\ couldRead = [r \in Request |-> {}]
    /\ atStart = [r \in Request |-> version]

(***************************************************************************)
(* A deferred handle.Close() closes every handle of the request; a request *)
(* that ends without having a data handle has nothing to defer.            *)
(***************************************************************************)
Finish(r, a) ==
    /\ answer' = [answer EXCEPT ![r] = a]
    /\ pc' = [pc EXCEPT ![r] = "done"]

(***************************************************************************)
(* Parsing, NormalizeConnection, readConnectionParameters and hash: no     *)
(* shared state is touched.  /metadata goes straight to the storage.       *)
(***************************************************************************)
ReadRequest(r) ==
    /\ pc[r] = "idle"
    /\ atStart' = [atStart EXCEPT ![r] = version]
    /\ \/ /\ ~ IsAccepted(input[r])
          /\ Finish(r, Error(400))
       \/ /\ IsAccepted(input[r])
          /\ pc' = [pc EXCEPT ![r] = IF input[r].endpoint = "metadata"
                                     THEN "open" ELSE "lookup"]
          /\ UNCHANGED answer
    /\ UNCHANGED <<input, conn, entry, authorized, layout, read, handles,
                   cacheVars, storeVars>>

(***************************************************************************)
(* e.Cache.Get(cacheKey).                                                  *)
(***************************************************************************)
Lookup(r) ==
    /\ pc[r] = "lookup"
    /\ IF Hash(input[r]) \in DOMAIN cache
       THEN /\ entry' = [entry EXCEPT ![r] = cache[Hash(input[r])]]
            /\ authorized' = [authorized EXCEPT ![r] = TRUE]
            /\ pc' = [pc EXCEPT ![r] = "authorize"]
       ELSE /\ pc' = [pc EXCEPT ![r] = "open"]
            /\ UNCHANGED <<entry, authorized>>
    /\ UNCHANGED <<input, conn, layout, read, handles, answer, cacheVars,
                   storeVars, atStart>>

HeadOnly(t, b) == HasAccess(t, b)

(***************************************************************************)
(* The HEAD request for the layout, and the check of sr.                   *)
(***************************************************************************)
IsAuthorizedToRead(t, b) == t \notin BlobScoped /\ HasAccess(t, b)

RetryTheCache == "lookup"

(***************************************************************************)
(* Where a request goes on whose hit it may not read.                      *)
(***************************************************************************)
AfterDenial == "open"

(***************************************************************************)
(* One turn of the loop over the connections after a hit.  When all of     *)
(* them are authorized the entry is the answer, otherwise the request goes *)
(* on as if the cache had missed.  A HEAD that does not get through counts *)
(* as a denial.                                                            *)
(***************************************************************************)
Authorize(r) ==
    /\ pc[r] = "authorize"
    /\ \E reachable \in BOOLEAN :
       LET ok == authorized[r] /\ reachable /\ IsAuthorizedToRead(TheToken(r), TheBlob(r))
       IN  /\ authorized' = [authorized EXCEPT ![r] = ok]
           /\ \/ /\ ~ IsLast(r)
                 /\ conn' = [conn EXCEPT ![r] = conn[r] + 1]
                 /\ UNCHANGED <<pc, answer>>
              \/ /\ IsLast(r) /\ ok
                 /\ Finish(r, Ok(entry[r], TRUE))
                 /\ UNCHANGED conn
              \/ /\ IsLast(r) /\ ~ ok
                 /\ pc' = [pc EXCEPT ![r] = AfterDenial]
                 /\ conn' = [conn EXCEPT ![r] = 1]
                 /\ UNCHANGED answer
    /\ UNCHANGED <<input, entry, layout, read, handles, cacheVars, storeVars, atStart>>

(***************************************************************************)
(* make_single_datahandle for the next connection.  OpenVDS::Open needs    *)
(* access to the layout; it may also fail for reasons of its own.  Then    *)
(* the metadata handle is made, whose checks throw for an unsuitable VDS;  *)
(* for two VDS also DoubleMetadataHandle::create.  An exception leaves     *)
(* CreateDSHandle without a data handle, and whatever OpenVDS has opened   *)
(* by then stays open.  CreateDSHandle's own check of the number of        *)
(* connections is left out: it refuses none that NormalizeConnection and   *)
(* readConnectionParameters have let pass.                                 *)
(***************************************************************************)
OpenFails(r) ==
    /\ pc[r] = "open"
    /\ Finish(r, Error(500))
    /\ UNCHANGED <<input, conn, entry, authorized, layout, read, handles,
                   cacheVars, storeVars, atStart>>

UnsuitableVds(r) ==
    /\ pc[r] = "open"
    /\ HasAccess(TheToken(r), TheBlob(r))
    /\ handles' = handles \union {<<r, conn[r]>>}
    /\ \E code \in {400, 500} : Finish(r, Error(code))
    /\ UNCHANGED <<input, conn, entry, authorized, layout, read,
                   cacheVars, storeVars, atStart>>

Open(r) ==
    /\ pc[r] = "open"
    /\ HasAccess(TheToken(r), TheBlob(r))
    /\ handles' = handles \union {<<r, conn[r]>>}
    /\ layout' = [layout EXCEPT ![r] = Append(layout[r], version[TheBlob(r)])]
    /\ IF IsLast(r)
       THEN /\ pc' = [pc EXCEPT ![r] = "execute"]
            /\ conn' = [conn EXCEPT ![r] = 1]
       ELSE /\ conn' = [conn EXCEPT ![r] = conn[r] + 1]
            /\ UNCHANGED pc
    /\ UNCHANGED <<input, entry, authorized, read, answer, cacheVars,
                   storeVars, atStart>>

CloseFirst(r) == {<<r, 1>>}

(***************************************************************************)
(* The handles that DataHandle::close closes.                              *)
(***************************************************************************)
Close(r) == {<<r, k>> : k \in Conns(r)}

(***************************************************************************)
(* execute returns an error: the arguments do not fit the VDS, or a read   *)
(* fails.  A fence that leaves the survey needs a fill value.              *)
(***************************************************************************)
ExecuteFails(r) ==
    /\ pc[r] = "execute"
    /\ \E code \in {400, 500} : Finish(r, Error(code))
    /\ handles' = handles \ Close(r)
    /\ UNCHANGED <<input, conn, entry, authorized, layout, read, cacheVars,
                   storeVars, atStart>>

(***************************************************************************)
(* execute reads the samples of the next VDS.                              *)
(***************************************************************************)
Execute(r) ==
    /\ pc[r] = "execute"
    /\ input[r].endpoint # "metadata"
    /\ ~ (input[r].outside /\ input[r].fill = "nil")
    /\ CanRead(TheToken(r), TheBlob(r))
    /\ read' = [read EXCEPT ![r] = Append(read[r], version[TheBlob(r)])]
    /\ IF IsLast(r)
       THEN /\ pc' = [pc EXCEPT ![r] = "respond"]
            /\ UNCHANGED conn
       ELSE /\ conn' = [conn EXCEPT ![r] = conn[r] + 1]
            /\ UNCHANGED pc
    /\ UNCHANGED <<input, entry, authorized, layout, handles, answer,
                   cacheVars, storeVars, atStart>>

SetAnyway(r) == {<<Hash(input[r]), Content(r)>>}

(***************************************************************************)
(* What Cache.Set hands to ristretto; NewCache(0) is the NoCache.          *)
(***************************************************************************)
Set(r) == IF cacheOn THEN {<<Hash(input[r]), Content(r)>>} ELSE {}

(***************************************************************************)
(* Cache.Set, writeResponse and the deferred handle.Close().               *)
(***************************************************************************)
Respond(r) ==
    /\ pc[r] = "respond"
    /\ pendingSets' = pendingSets \union Set(r)
    /\ Finish(r, Ok(Content(r), FALSE))
    /\ handles' = handles \ Close(r)
    /\ UNCHANGED <<input, conn, entry, authorized, layout, read, cacheOn,
                   cache, storeVars, atStart>>

(***************************************************************************)
(* handle.GetMetadata() needs the layout only, which Open has loaded.      *)
(***************************************************************************)
RespondMetadata(r) ==
    /\ pc[r] = "execute"
    /\ input[r].endpoint = "metadata"
    /\ Finish(r, Ok(Content(r), FALSE))
    /\ handles' = handles \ Close(r)
    /\ UNCHANGED <<input, conn, entry, authorized, layout, read, cacheVars,
                   storeVars, atStart>>

Handle(r) ==
    \/ ReadRequest(r)
    \/ Lookup(r)
    \/ Authorize(r)
    \/ OpenFails(r)
    \/ UnsuitableVds(r)
    \/ Open(r)
    \/ ExecuteFails(r)
    \/ Execute(r)
    \/ Respond(r)
    \/ RespondMetadata(r)

-----------------------------------------------------------------------------
(***************************************************************************)
(* Ristretto: a buffered Set is applied or dropped, an entry is evicted.   *)
(***************************************************************************)
ApplySet ==
    \E s \in pendingSets :
        /\ cache' = [k \in DOMAIN cache \union {s[1]} |->
                        IF k = s[1] THEN s[2] ELSE cache[k]]
        /\ pendingSets' = pendingSets \ {s}
        /\ UNCHANGED <<localVars, cacheOn, storeVars, atStart>>

DropSet ==
    \E s \in pendingSets :
        /\ pendingSets' = pendingSets \ {s}
        /\ UNCHANGED <<localVars, cacheOn, cache, storeVars, atStart>>

Evict ==
    \E key \in DOMAIN cache :
        /\ cache' = [k \in DOMAIN cache \ {key} |-> cache[k]]
        /\ UNCHANGED <<localVars, cacheOn, pendingSets, storeVars, atStart>>

(***************************************************************************)
(* The blob store: a token stops being good for a blob, a VDS is replaced. *)
(***************************************************************************)
Revoke ==
    \E t \in Token : \E b \in access[t] :
        /\ access' = [access EXCEPT ![t] = access[t] \ {b}]
        /\ UNCHANGED <<localVars, cacheVars, version, atStart>>

Overwrite ==
    \E b \in Blob :
        /\ version[b] < MaxVersion[b]
        /\ version' = [version EXCEPT ![b] = version[b] + 1]
        /\ UNCHANGED <<localVars, cacheVars, access, atStart>>

Environment == ApplySet \/ DropSet \/ Evict \/ Revoke \/ Overwrite

(***************************************************************************)
(* History: while a request is being handled, the connections whose token  *)
(* can read their VDS.                                                     *)
(***************************************************************************)
Readable(r) == {k \in Conns(r) : CanRead(Sas(input[r])[k], Vds(input[r])[k])}

RecordAccess ==
    couldRead' = [r \in Request |->
        IF \/ pc[r] = "done"
           \/ pc'[r] = "idle"
           \/ ~ IsAccepted(input[r])
        THEN couldRead[r]
        ELSE couldRead[r] \union Readable(r)]

Next ==
    /\ (\E r \in Request : Handle(r)) \/ Environment
    /\ RecordAccess

Spec == Init /\ [][Next]_vars

(***************************************************************************)
(* Every request has a goroutine of its own, and calls to the store and to *)
(* the cache return.                                                       *)
(***************************************************************************)
FairSpec == Spec /\ \A r \in Request : WF_vars(Handle(r) /\ RecordAccess)

-----------------------------------------------------------------------------
Status == {0, 200, 400, 500}
States == {"idle", "lookup", "authorize", "open", "execute", "respond", "done"}

(***************************************************************************)
(* Type invariant: a request never opens more than two VDS, and its loops  *)
(* stay within its connections.                                            *)
(***************************************************************************)
TypeOK ==
    /\ pc \in [Request -> States]
    /\ input \in [Request -> Inputs]
    /\ conn \in [Request -> 1 .. 2]
    /\ authorized \in [Request -> BOOLEAN]
    /\ \A r \in Request : /\ Len(layout[r]) <= 2 /\ Len(read[r]) <= 2
                          /\ answer[r].status \in Status
                          /\ couldRead[r] \subseteq Conns(r)
    /\ handles \subseteq Request \X (1 .. 2)
    /\ cacheOn \in BOOLEAN
    /\ access \in [Token -> SUBSET Blob]
    /\ \A b \in Blob : version[b] \in 1 .. MaxVersion[b]

IsData(r) == answer[r].status = 200 /\ input[r].endpoint # "metadata"

(***************************************************************************)
(* Data is answered, from the cache or not, only if each of the request's  *)
(* own tokens could read the whole of its VDS at some time while the       *)
(* request was being handled (makeDataRequest's authorization after a hit, *)
(* IsAuthorizedToRead).                                                    *)
(***************************************************************************)
ServedOnlyWithAccess ==
    \A r \in Request : IsData(r) => couldRead[r] = Conns(r)

(***************************************************************************)
(* A successful answer is the answer to this very request: what was        *)
(* computed for its VDS in their order, its operator and its parameters,   *)
(* and never what a request of another meaning left under the same key     *)
(* (hash, HashableFenceRequest).                                           *)
(***************************************************************************)
AnswersTheRequest ==
    \A r \in Request :
        answer[r].status = 200 => answer[r].content.of = Subject(input[r])

(***************************************************************************)
(* With a cache of size 0, and always on /metadata, an answer is never     *)
(* older than the request: nothing in it was read from a version that had  *)
(* been replaced before the request arrived (NewCache, metadata).          *)
(***************************************************************************)
NoCacheNoStaleness ==
    \A r \in Request :
        (answer[r].status = 200 /\ (~ cacheOn \/ ~ IsData(r))) =>
            /\ \A k \in DOMAIN answer[r].content.layout :
                   answer[r].content.layout[k] >= atStart[r][Vds(input[r])[k]]
            /\ \A k \in DOMAIN answer[r].content.read :
                   answer[r].content.read[k] >= atStart[r][Vds(input[r])[k]]

(***************************************************************************)
(* Once CreateDSHandle has succeeded, the request closes every OpenVDS     *)
(* handle it has before it is done, whatever happens in between (the       *)
(* deferred handle.Close()).                                               *)
(***************************************************************************)
HandlesClosedAfterUse ==
    \A r \in Request :
        (pc[r] = "done" /\ Len(layout[r]) = Len(input[r].urls)) =>
            \A k \in Conns(r) : <<r, k>> \notin handles

(***************************************************************************)
(* No OpenVDS handle is left behind by a request, also by one that fails   *)
(* while its second VDS is opened or found unsuitable: application calls   *)
(* do not leak memory (README.md, "Memory test suite").                    *)
(***************************************************************************)
NoLeakedHandles ==
    \A r \in Request : pc[r] = "done" => \A k \in 1 .. 2 : <<r, k>> \notin handles

(***************************************************************************)
(* Every request is answered, in particular one whose cache hit is denied  *)
(* while others keep filling the cache (makeDataRequest).                  *)
(***************************************************************************)
EveryRequestAnswered ==
    \A r \in Request : <>(pc[r] = "done" /\ answer[r].status # 0)
=============================================================================
