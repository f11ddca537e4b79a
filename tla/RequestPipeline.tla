-------------------------- MODULE RequestPipeline --------------------------
(***************************************************************************)
(* The middleware chain of the server (setupApp in main.go): Recovery,     *)
(* RequestBlocker, ErrorHandler and the metrics middleware around the      *)
(* endpoint handlers.  gin takes a context from a pool for a request and   *)
(* puts it back when the chain returns, while the goroutine that the       *)
(* metrics middleware starts still reads it.                               *)
(*                                                                         *)
(* A request stands for its own path and method, and in a context for the  *)
(* list of VDS that it names.                                              *)
(***************************************************************************)
EXTENDS Integers, Sequences, FiniteSets

CONSTANTS
    Request,      \* requests, each with a goroutine of its own
    Context,      \* contexts gin may allocate
    Account,      \* storage accounts
    VdsOf         \* for each request, the accounts of the VDS that it names, in order

ASSUME VdsAssumption == VdsOf \in [Request -> Seq(Account)]

VARIABLES
    kind,         \* what becomes of the request in the chain
    pc,           \* control state of the request
    ctxOf,        \* the request's context
    pool,         \* contexts that no request uses
    ctx,          \* contents of the contexts
    metricsOn,    \* metrics were enabled
    mpc,          \* control state of the metrics goroutine
    label,        \* what the metrics goroutine has read
    samples,      \* what was observed in the histograms, and by whose goroutine
    requestCount, \* the counters, by path and storage account
    response      \* what the client got

requestVars == <<kind, pc, ctxOf, pool, response>>
metricsVars == <<mpc, label, samples, requestCount>>
vars == <<requestVars, ctx, metricsOn, metricsVars>>

-----------------------------------------------------------------------------
Kind == {"ok", "rejected", "unsuitable", "failed", "blocked", "panic"}
None == "none"
ASSUME NoneAssumption == None \notin Request
Bodies == {"data", "json", None}
Unread == [path |-> None, vds |-> None, status |-> 0]
NoResponse == [status |-> 0, body |-> None]
Unused == [req |-> None, vds |-> None, status |-> 0, body |-> None, errors |-> 0]

\* gin resets a context it takes from the pool.
Fresh(r) == [req |-> r, vds |-> None, status |-> 200, body |-> None, errors |-> 0]

My(r) == ctx[ctxOf[r]]
Goto(r, next) == pc' = [pc EXCEPT ![r] = next]

Init ==
    /\ kind \in [Request -> Kind]
    /\ pc = [r \in Request |-> "idle"]
    /\ ctxOf = [r \in Request |-> None]
    /\ pool = Context
    /\ ctx = [c \in Context |-> Unused]
    /\ metricsOn \in BOOLEAN
    /\ mpc = [r \in Request |-> None]
    /\ label = [r \in Request |-> Unread]
    /\ samples = {}
    /\ requestCount = [l \in Request \X Account |-> 0]
    /\ response = [r \in Request |-> NoResponse]

(***************************************************************************)
(* gin's ServeHTTP takes a context from the pool.                          *)
(***************************************************************************)
Accept(r) ==
    /\ pc[r] = "idle"
    /\ \E c \in pool :
        /\ pool' = pool \ {c}
        /\ ctxOf' = [ctxOf EXCEPT ![r] = c]
        /\ ctx' = [ctx EXCEPT ![c] = Fresh(r)]
    /\ Goto(r, "blocker")
    /\ UNCHANGED <<kind, response, metricsOn, metricsVars>>

(***************************************************************************)
(* RequestBlocker: a blocked client gets 403 and the chain ends.           *)
(***************************************************************************)
Block(r) ==
    /\ pc[r] = "blocker"
    /\ \/ /\ kind[r] = "blocked"
          /\ ctx' = [ctx EXCEPT ![ctxOf[r]].status = 403, ![ctxOf[r]].body = "json"]
          /\ Goto(r, "return")
       \/ /\ kind[r] # "blocked"
          /\ Goto(r, "handler")
          /\ UNCHANGED ctx
    /\ UNCHANGED <<kind, ctxOf, pool, response, metricsOn, metricsVars>>

ArgumentsOnly(k) == IF k = "failed" THEN 200 ELSE 400

(***************************************************************************)
(* httpStatusCode of the error that a request ends with.                   *)
(***************************************************************************)
httpStatusCode(k) == IF k = "failed" THEN 500 ELSE 400

(***************************************************************************)
(* The endpoint's handler. A request that is not parsed or normalized is   *)
(* aborted before its VDS is set for the metrics; a later error, of the    *)
(* request or of the server, aborts it too. toString panics for a surface  *)
(* without rows, before the VDS is set: the panic leaves the chain up to   *)
(* Recovery, which answers 500.                                            *)
(***************************************************************************)
Handled(r) ==
    CASE kind[r] = "ok"         -> [My(r) EXCEPT !.vds = r, !.body = "data"]
      [] kind[r] = "rejected"   -> [My(r) EXCEPT !.status = httpStatusCode(kind[r]), !.errors = 1]
      [] kind[r] = "unsuitable" -> [My(r) EXCEPT !.vds = r, !.status = httpStatusCode(kind[r]), !.errors = 1]
      [] kind[r] = "failed"     -> [My(r) EXCEPT !.vds = r, !.status = httpStatusCode(kind[r]), !.errors = 1]
      [] kind[r] = "panic"      -> [My(r) EXCEPT !.status = 500]

Handle(r) ==
    /\ pc[r] = "handler"
    /\ ctx' = [ctx EXCEPT ![ctxOf[r]] = Handled(r)]
    /\ Goto(r, IF kind[r] = "panic" THEN "return" ELSE "metrics")
    /\ UNCHANGED <<kind, ctxOf, pool, response, metricsOn, metricsVars>>

OnlySuccess(r) == metricsOn /\ My(r).errors = 0

(***************************************************************************)
(* Whether the metrics middleware starts its goroutine.                    *)
(***************************************************************************)
TakesSample(r) == metricsOn

StartMetrics(r) ==
    /\ pc[r] = "metrics"
    /\ mpc' = [mpc EXCEPT ![r] = IF TakesSample(r) THEN "path" ELSE None]
    /\ Goto(r, "errors")
    /\ UNCHANGED <<kind, ctxOf, pool, response, ctx, metricsOn, label, samples, requestCount>>

OnlyUnexpectedErrors(c) == c.status = 200 /\ c.errors # 0

(***************************************************************************)
(* hasError of ErrorHandler.                                               *)
(***************************************************************************)
HasError(c) == c.errors # 0 \/ c.status # 200

MinusOneAsIs(status) == IF status = 200 THEN 500 ELSE -1

(***************************************************************************)
(* The status after ctx.JSON: an error under status 200 becomes a 500, and *)
(* -1 leaves the status alone.                                             *)
(***************************************************************************)
JsonStatus(status) == IF status = 200 THEN 500 ELSE status

(***************************************************************************)
(* ErrorHandler writes the errors as JSON.                                 *)
(***************************************************************************)
ErrorHandler(r) ==
    /\ pc[r] = "errors"
    /\ ctx' = IF HasError(My(r))
              THEN [ctx EXCEPT ![ctxOf[r]].body = "json",
                               ![ctxOf[r]].status = JsonStatus(@)]
              ELSE ctx
    /\ Goto(r, "return")
    /\ UNCHANGED <<kind, ctxOf, pool, response, metricsOn, metricsVars>>

(***************************************************************************)
(* The chain returns: the response is sent and the context goes back.      *)
(***************************************************************************)
Return(r) ==
    /\ pc[r] = "return"
    /\ response' = [response EXCEPT ![r] = [status |-> My(r).status, body |-> My(r).body]]
    /\ pool' = pool \union {ctxOf[r]}
    /\ Goto(r, "done")
    /\ UNCHANGED <<kind, ctxOf, ctx, metricsOn, metricsVars>>

Serve(r) ==
    Accept(r) \/ Block(r) \/ Handle(r) \/ StartMetrics(r) \/ ErrorHandler(r) \/ Return(r)

-----------------------------------------------------------------------------
(***************************************************************************)
(* The metrics goroutine reads the request, the VDS and the status from    *)
(* the context, whoever has the context by then.                           *)
(***************************************************************************)
ReadPath(r) ==
    /\ mpc[r] = "path"
    /\ label' = [label EXCEPT ![r].path = My(r).req]
    /\ mpc' = [mpc EXCEPT ![r] = "vds"]
    /\ UNCHANGED <<requestVars, ctx, metricsOn, samples, requestCount>>

ReadVds(r) ==
    /\ mpc[r] = "vds"
    /\ label' = [label EXCEPT ![r].vds = My(r).vds]
    /\ mpc' = [mpc EXCEPT ![r] = "status"]
    /\ UNCHANGED <<requestVars, ctx, metricsOn, samples, requestCount>>

ReadStatus(r) ==
    /\ mpc[r] = "status"
    /\ label' = [label EXCEPT ![r].status = My(r).status]
    /\ mpc' = [mpc EXCEPT ![r] = "observe"]
    /\ UNCHANGED <<requestVars, ctx, metricsOn, samples, requestCount>>

(***************************************************************************)
(* The durations and the sizes are observed by path and status.            *)
(***************************************************************************)
Observe(r) ==
    /\ mpc[r] = "observe"
    /\ samples' = samples \union
                    {[request |-> r, path |-> label[r].path, status |-> label[r].status]}
    /\ mpc' = [mpc EXCEPT ![r] = "count"]
    /\ UNCHANGED <<requestVars, ctx, metricsOn, label, requestCount>>

(***************************************************************************)
(* extractStorageAccounts: the accounts of a list of VDS without           *)
(* duplicates, none if the list was never set.                             *)
(***************************************************************************)
extractStorageAccounts(vds) ==
    IF vds = None THEN {} ELSE {VdsOf[vds][i] : i \in DOMAIN VdsOf[vds]}

IncPerVds(path, vds) ==
    [l \in Request \X Account |->
        IF l[1] = path /\ vds # None
        THEN requestCount[l] + Cardinality({i \in DOMAIN VdsOf[vds] : VdsOf[vds][i] = l[2]})
        ELSE requestCount[l]]

(***************************************************************************)
(* updateRequestCountMetric: the counters after one Inc for each account;  *)
(* a request whose VDS was never set increments nothing.                   *)
(***************************************************************************)
updateRequestCountMetric(path, vds) ==
    [l \in Request \X Account |->
        IF l[1] = path /\ l[2] \in extractStorageAccounts(vds)
        THEN requestCount[l] + 1
        ELSE requestCount[l]]

Count(r) ==
    /\ mpc[r] = "count"
    /\ requestCount' = updateRequestCountMetric(label[r].path, label[r].vds)
    /\ mpc' = [mpc EXCEPT ![r] = "done"]
    /\ UNCHANGED <<requestVars, ctx, metricsOn, label, samples>>

Metrics(r) == ReadPath(r) \/ ReadVds(r) \/ ReadStatus(r) \/ Observe(r) \/ Count(r)

Next == \E r \in Request : Serve(r) \/ Metrics(r)

Spec == Init /\ [][Next]_vars

(***************************************************************************)
(* Goroutines are scheduled fairly; a request may wait for a context only  *)
(* because Context is finite here.                                         *)
(***************************************************************************)
FairSpec == Spec /\ \A r \in Request : WF_vars(Serve(r)) /\ WF_vars(Metrics(r))

-----------------------------------------------------------------------------
Statuses == {200, 400, 403, 500}
MetricsStates == {None, "path", "vds", "status", "observe", "count", "done"}

(***************************************************************************)
(* Type invariant; a status is one the server's API documents or 403.      *)
(***************************************************************************)
TypeOK ==
    /\ kind \in [Request -> Kind]
    /\ pc \in [Request -> {"idle", "blocker", "handler", "metrics", "errors",
                           "return", "done"}]
    /\ ctxOf \in [Request -> Context \union {None}]
    /\ pool \subseteq Context
    /\ ctx \in [Context -> {Unused} \union
                   [req: Request, vds: Request \union {None}, status: Statuses,
                    body: Bodies, errors: 0 .. 1]]
    /\ metricsOn \in BOOLEAN
    /\ mpc \in [Request -> MetricsStates]
    /\ requestCount \in [Request \X Account -> Nat]
    /\ \A r \in Request : response[r].status \in Statuses \union {0}

Failure(r) == response[r].status \in {400, 500}

(***************************************************************************)
(* Every failure that the handlers report themselves is answered with an   *)
(* ErrorResponse, and no success is: ErrorHandler sees what the handlers   *)
(* left in the context although the metrics middleware runs in between.    *)
(***************************************************************************)
ReportedFailuresCarryErrorResponse ==
    \A r \in Request :
        (pc[r] = "done" /\ kind[r] # "panic") =>
            /\ response[r].body = "json" <=> kind[r] # "ok"
            /\ Failure(r) <=> kind[r] \in {"rejected", "unsuitable", "failed"}

(***************************************************************************)
(* "On failure (400, 500) the response is of Content-Type:                 *)
(* application/json. See ErrorResponse model" (docs/attribute_along.md).   *)
(***************************************************************************)
FailuresCarryErrorResponse ==
    \A r \in Request : Failure(r) => response[r].body = "json"

(***************************************************************************)
(* Another request gets the context of r as well, before r or after it.    *)
(***************************************************************************)
SharesContext(r) ==
    /\ pc[r] # "idle"
    /\ \E s \in Request \ {r} : pc[s] # "idle" /\ ctxOf[s] = ctxOf[r]

(***************************************************************************)
(* "oneseismic-api number of requests" (metrics.go): the counters of a     *)
(* request are for that request, whoever uses its context: they go up by   *)
(* one at most, and only for the storage accounts of its own VDS.          *)
(***************************************************************************)
CountedUnderOwnLabels ==
    \A r \in Request, a \in Account :
        requestCount[<<r, a>>] <= IF a \in extractStorageAccounts(r) THEN 1 ELSE 0

(***************************************************************************)
(* As long as nobody else gets its context, a request is counted exactly   *)
(* once for each of its storage accounts, also when two of its VDS are in  *)
(* the same one, and when it fails.  The exception is a request that is    *)
(* rejected before prepareMetricsLogging sets its VDS: the counters, by    *)
(* account, leave it out (updateRequestCountMetric).                       *)
(***************************************************************************)
CountedOncePerAccount ==
    \A r \in Request, a \in Account :
        ~ SharesContext(r) =>
            requestCount[<<r, a>>] =
                IF /\ mpc[r] = "done" /\ kind[r] # "rejected"
                   /\ a \in extractStorageAccounts(r)
                THEN 1 ELSE 0

(***************************************************************************)
(* As long as nobody else gets its context, a request is sampled under its *)
(* own path and with the status that its client gets, although the         *)
(* goroutine may read the status before ErrorHandler runs                  *)
(* (NewGinMiddleware is inside ErrorHandler).                              *)
(***************************************************************************)
SampledAsAnswered ==
    \A s \in samples :
        ~ SharesContext(s.request) =>
            /\ s.path = s.request
            /\ pc[s.request] = "done" => s.status = response[s.request].status

(***************************************************************************)
(* Every request that a handler has finished is sampled in the end,        *)
(* failures included; only blocked ones and panics are not                 *)
(* (NewGinMiddleware).  Its storage accounts are counted, too, unless it   *)
(* was rejected or shares its context.                                     *)
(***************************************************************************)
FinishedRequestsAreSampled ==
    \A r \in Request :
        (metricsOn /\ kind[r] \notin {"blocked", "panic"}) ~>
            /\ \E s \in samples : s.request = r
            /\ kind[r] = "rejected" \/ SharesContext(r)
                 \/ \A a \in extractStorageAccounts(r) : requestCount[<<r, a>>] = 1
=============================================================================
