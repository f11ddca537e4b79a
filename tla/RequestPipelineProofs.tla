----------------------- MODULE RequestPipelineProofs -----------------------
(***************************************************************************)
(* What the client gets from the middleware chain, for any number of       *)
(* requests and contexts.  The metrics goroutines read contexts of others, *)
(* but no request writes to one: this is what the argument rests on, for   *)
(* the types as for the responses.                                         *)
(***************************************************************************)
EXTENDS RequestPipeline, TLAPS

InChain == {"blocker", "handler", "metrics", "errors", "return"}
Serving(r) == pc[r] \in InChain
Refused == {"rejected", "unsuitable", "failed"}

IsContext(c) == DOMAIN c = {"req", "vds", "status", "body", "errors"}
AreContexts(contexts) ==
    /\ contexts = [c \in Context |-> contexts[c]]
    /\ \A c \in Context : IsContext(contexts[c])

(***************************************************************************)
(* A request in the chain has a context of its own.                        *)
(***************************************************************************)
ContextsAreOwned ==
    /\ kind \in [Request -> Kind]
    /\ pc \in [Request -> InChain \union {"idle", "done"}]
    /\ AreContexts(ctx)
    /\ pool \subseteq Context
    /\ DOMAIN ctxOf = Request /\ DOMAIN response = Request
    /\ \A r \in Request : Serving(r) => ctxOf[r] \in Context \ pool
    /\ \A r, s \in Request : Serving(r) /\ Serving(s) /\ r # s => ctxOf[r] # ctxOf[s]

(***************************************************************************)
(* What a request finds in its context, at each point of the chain.        *)
(***************************************************************************)
Untouched(c) == c.status = 200 /\ c.errors = 0
Succeeded(c) == c.status = 200 /\ c.errors = 0 /\ c.body = "data"
Refusal(c) == c.status \in {400, 500} /\ c.errors = 1

Contents(r) ==
    /\ pc[r] = "blocker" => Untouched(My(r))
    /\ pc[r] = "handler" => Untouched(My(r)) /\ kind[r] # "blocked"
    /\ pc[r] \in {"metrics", "errors"} =>
         /\ kind[r] \in Refused \union {"ok"}
         /\ IF kind[r] = "ok" THEN Succeeded(My(r)) ELSE Refusal(My(r))
    /\ pc[r] = "return" =>
         /\ kind[r] = "ok" => My(r).status = 200 /\ My(r).body = "data"
         /\ kind[r] = "blocked" => My(r).status = 403 /\ My(r).body = "json"
         /\ kind[r] \in Refused => My(r).status \in {400, 500} /\ My(r).body = "json"
    /\ pc[r] = "done" =>
         /\ kind[r] = "ok" => response[r].status = 200 /\ response[r].body = "data"
         /\ kind[r] = "blocked" => response[r].status = 403 /\ response[r].body = "json"
         /\ kind[r] \in Refused => response[r].status \in {400, 500} /\ response[r].body = "json"

ChainInv == ContextsAreOwned /\ \A r \in Request : Contents(r)

-----------------------------------------------------------------------------
(***************************************************************************)
(* No request is in the chain at first.                                    *)
(***************************************************************************)
LEMMA ChainInit == Init => ChainInv
<1> SUFFICES ASSUME Init PROVE ChainInv
  BY Zenon
<1>1. \A r \in Request : pc[r] = "idle"
  BY ZenonT(30) DEF Init
<1>2. AreContexts(ctx)
  BY Zenon DEF Init, AreContexts, IsContext, Unused
<1>3. ContextsAreOwned
  BY Zenon, <1>1, <1>2 DEF Init, ContextsAreOwned, Serving, InChain
<1> QED
  BY Zenon, <1>1, <1>3 DEF ChainInv, Contents

(***************************************************************************)
(* A request that writes only to its own context, or to one from the pool, *)
(* leaves the others as they are.                                          *)
(***************************************************************************)
LEMMA OthersUndisturbed ==
    ASSUME ChainInv, NEW r \in Request, NEW s \in Request, s # r,
           kind' = kind, pc'[s] = pc[s], ctxOf'[s] = ctxOf[s], response'[s] = response[s],
           \A c \in Context \ pool : (Serving(r) /\ c = ctxOf[r]) \/ ctx'[c] = ctx[c]
    PROVE  Contents(s)'
<1>1. Contents(s)
  BY Zenon DEF ChainInv
<1>2. Serving(s) => My(s)' = My(s)
  BY Zenon DEF ChainInv, ContextsAreOwned, My
<1> QED
  BY <1>1, <1>2 DEF Contents, Serving, InChain

(***************************************************************************)
(* Steps within the chain: a request that stays in it keeps its context.   *)
(***************************************************************************)
LEMMA StepInChain ==
    ASSUME ChainInv, NEW r \in Request, Serving(r), NEW next \in InChain,
           NEW new, IsContext(new), ctx' = [ctx EXCEPT ![ctxOf[r]] = new],
           pc' = [pc EXCEPT ![r] = next],
           UNCHANGED <<kind, ctxOf, pool, response>>,
           Contents(r)'
    PROVE  ChainInv'
<1>1. /\ pc \in [Request -> InChain \union {"idle", "done"}]
      /\ AreContexts(ctx) /\ ctxOf[r] \in Context
  BY Zenon DEF ChainInv, ContextsAreOwned
<1>2. \A s \in Request : Serving(s)' <=> Serving(s)
  BY Zenon, <1>1 DEF Serving
<1>3. pc' \in [Request -> InChain \union {"idle", "done"}] /\ AreContexts(ctx')
  BY Zenon, <1>1 DEF AreContexts
<1>4. ContextsAreOwned'
  BY Zenon, <1>2, <1>3 DEF ChainInv, ContextsAreOwned
<1>5. ASSUME NEW s \in Request, s # r PROVE Contents(s)'
  <2>1. pc'[s] = pc[s]
    BY Zenon, <1>1, <1>5
  <2>2. \A c \in Context \ pool : (Serving(r) /\ c = ctxOf[r]) \/ ctx'[c] = ctx[c]
    BY <1>1
  <2> QED
    BY Zenon, <1>5, <2>1, <2>2, OthersUndisturbed
<1> QED
  BY Zenon, <1>4, <1>5 DEF ChainInv

(***************************************************************************)
(* The steps of a request.                                                 *)
(***************************************************************************)
LEMMA ChainServe ==
    ASSUME ChainInv, NEW r \in Request, Serve(r)
    PROVE  ChainInv'
<1>0. /\ kind \in [Request -> Kind]
      /\ pc \in [Request -> InChain \union {"idle", "done"}]
      /\ AreContexts(ctx)
      /\ DOMAIN ctxOf = Request /\ DOMAIN response = Request
      /\ Serving(r) => ctxOf[r] \in Context /\ IsContext(My(r))
      /\ Contents(r)
  BY Zenon DEF ChainInv, ContextsAreOwned, My, AreContexts
<1>1. CASE Accept(r)
  <2>1. PICK c \in pool : /\ pool' = pool \ {c}
                          /\ ctxOf' = [ctxOf EXCEPT ![r] = c]
                          /\ ctx' = [ctx EXCEPT ![c] = Fresh(r)]
    BY ZenonT(30), <1>1 DEF Accept
  <2>2. /\ pc[r] = "idle" /\ pc' = [pc EXCEPT ![r] = "blocker"]
        /\ kind' = kind /\ response' = response
    BY Zenon, <1>1 DEF Accept, Goto
  <2>3. IsContext(Fresh(r))
    BY Zenon DEF Fresh, IsContext
  <2>4. c \in Context /\ ctx'[c] = Fresh(r) /\ ctxOf'[r] = c /\ pc'[r] = "blocker"
    BY Zenon, <1>0, <2>1, <2>2 DEF ChainInv, ContextsAreOwned, AreContexts
  <2>5. \A s \in Request : s # r => ctxOf'[s] = ctxOf[s] /\ pc'[s] = pc[s]
    BY Zenon, <1>0, <2>1, <2>2
  <2>6. \A s \in Request : s # r /\ Serving(s)' => Serving(s) /\ ctxOf'[s] \in Context \ pool
    BY Zenon, <2>5 DEF Serving, ChainInv, ContextsAreOwned
  <2>7. ContextsAreOwned'
    <3>1. AreContexts(ctx') /\ pc' \in [Request -> InChain \union {"idle", "done"}]
      BY Zenon, <1>0, <2>1, <2>2, <2>3 DEF InChain, AreContexts
    <3>2. pool' \subseteq Context /\ DOMAIN ctxOf' = Request
      BY Zenon, <1>0, <2>1 DEF ChainInv, ContextsAreOwned
    <3>3. \A s \in Request : Serving(s)' => ctxOf'[s] \in Context \ pool'
      BY <2>1, <2>4, <2>6
    <3>4. \A s, t \in Request : Serving(s)' /\ Serving(t)' /\ s # t => ctxOf'[s] # ctxOf'[t]
      <4>1. \A s, t \in Request : s # r /\ t # r /\ Serving(s)' /\ Serving(t)' /\ s # t =>
              ctxOf'[s] # ctxOf'[t]
        BY Zenon, <2>5, <2>6 DEF ChainInv, ContextsAreOwned
      <4>2. \A s \in Request : s # r /\ Serving(s)' => ctxOf'[s] # ctxOf'[r]
        BY Zenon, <2>4, <2>6
      <4> QED
        BY Zenon, <4>1, <4>2
    <3> QED
      BY Zenon, <1>0, <2>2, <3>1, <3>2, <3>3, <3>4 DEF ContextsAreOwned
  <2>8. Contents(r)'
    <3>1. Untouched(My(r))'
      BY <2>4 DEF Untouched, My, Fresh
    <3> QED
      BY Zenon, <2>4, <3>1 DEF Contents
  <2>9. ASSUME NEW s \in Request, s # r PROVE Contents(s)'
    <3>1. \A d \in Context \ pool : ctx'[d] = ctx[d]
      BY <1>0, <2>1
    <3> QED
      BY Zenon, <2>2, <2>5, <2>9, <3>1, OthersUndisturbed
  <2> QED
    BY Zenon, <2>7, <2>8, <2>9 DEF ChainInv
<1>2. CASE Block(r)
  <2>0. pc[r] = "blocker" /\ Serving(r) /\ UNCHANGED <<kind, ctxOf, pool, response>>
    BY Zenon, <1>2 DEF Block, Serving, InChain
  <2>1. CASE kind[r] = "blocked"
    <3> DEFINE new == [My(r) EXCEPT !.status = 403, !.body = "json"]
    <3>1. ctx' = [ctx EXCEPT ![ctxOf[r]] = new] /\ pc' = [pc EXCEPT ![r] = "return"]
      BY <1>0, <1>2, <2>0, <2>1 DEF Block, Goto, My, AreContexts
    <3>2. IsContext(new) /\ new.status = 403 /\ new.body = "json"
      BY Zenon, <1>0, <2>0 DEF IsContext
    <3> HIDE DEF new
    <3>3. My(r)' = new /\ pc'[r] = "return" /\ kind'[r] = "blocked"
      BY Zenon, <1>0, <2>0, <2>1, <3>1 DEF My, AreContexts
    <3>4. Contents(r)'
      BY Zenon, <3>2, <3>3 DEF Contents, Refused
    <3> QED
      BY ZenonT(30), <2>0, <3>1, <3>2, <3>4, StepInChain DEF InChain
  <2>2. CASE kind[r] # "blocked"
    <3>1. ctx' = [ctx EXCEPT ![ctxOf[r]] = My(r)] /\ pc' = [pc EXCEPT ![r] = "handler"]
      BY Zenon, <1>0, <1>2, <2>0, <2>2 DEF Block, Goto, My, AreContexts
    <3>2. My(r)' = My(r) /\ pc'[r] = "handler" /\ kind'[r] # "blocked"
      BY <1>0, <2>0, <2>2, <3>1 DEF My
    <3>3. Untouched(My(r))
      BY Zenon, <1>0, <2>0 DEF Contents
    <3>4. Contents(r)'
      BY Zenon, <3>2, <3>3 DEF Contents, Untouched
    <3> QED
      BY ZenonT(30), <1>0, <2>0, <3>1, <3>4, StepInChain DEF InChain
  <2> QED
    BY Zenon, <2>1, <2>2
<1>3. CASE Handle(r)
  <2>0. /\ pc[r] = "handler" /\ Serving(r) /\ UNCHANGED <<kind, ctxOf, pool, response>>
        /\ kind[r] \in Refused \union {"ok", "panic"} /\ Untouched(My(r)) /\ IsContext(My(r))
    BY <1>0, <1>3 DEF Handle, Serving, InChain, Contents, Kind, Refused
  <2>1. /\ ctx' = [ctx EXCEPT ![ctxOf[r]] = Handled(r)]
        /\ pc' = [pc EXCEPT ![r] = IF kind[r] = "panic" THEN "return" ELSE "metrics"]
    BY Zenon, <1>3 DEF Handle, Goto
  <2>2. /\ IsContext(Handled(r))
        /\ kind[r] = "ok" => Succeeded(Handled(r))
        /\ kind[r] \in Refused => Refusal(Handled(r))
    <3>1. CASE kind[r] = "ok"
      <4>1. Handled(r) = [My(r) EXCEPT !.vds = r, !.body = "data"]
        BY Zenon, <3>1 DEF Handled
      <4> QED
        BY <2>0, <3>1, <4>1 DEF IsContext, Succeeded, Untouched, Refused
    <3>2. CASE kind[r] = "rejected"
      <4>1. Handled(r) = [My(r) EXCEPT !.status = 400, !.errors = 1]
        BY <3>2 DEF Handled, httpStatusCode
      <4> QED
        BY <2>0, <3>2, <4>1 DEF IsContext, Refusal
    <3>3. CASE kind[r] = "unsuitable"
      <4>1. Handled(r) = [My(r) EXCEPT !.vds = r, !.status = 400, !.errors = 1]
        BY <3>3 DEF Handled, httpStatusCode
      <4> QED
        BY <2>0, <3>3, <4>1 DEF IsContext, Refusal
    <3>4. CASE kind[r] = "failed"
      <4>1. Handled(r) = [My(r) EXCEPT !.vds = r, !.status = 500, !.errors = 1]
        BY <3>4 DEF Handled, httpStatusCode
      <4> QED
        BY <2>0, <3>4, <4>1 DEF IsContext, Refusal
    <3>5. CASE kind[r] = "panic"
      <4>1. Handled(r) = [My(r) EXCEPT !.status = 500]
        BY <3>5 DEF Handled
      <4> QED
        BY Zenon, <2>0, <3>5, <4>1 DEF IsContext, Refused
    <3> QED
      BY Zenon, <2>0, <3>1, <3>2, <3>3, <3>4, <3>5 DEF Refused
  <2>3. My(r)' = Handled(r) /\ kind' = kind
    BY Zenon, <1>0, <2>0, <2>1 DEF My, AreContexts
  <2>4. pc'[r] = IF kind[r] = "panic" THEN "return" ELSE "metrics"
    BY Zenon, <1>0, <2>1
  <2>5. Contents(r)'
    <3>1. CASE kind[r] = "panic"
      BY Zenon, <2>3, <2>4, <3>1 DEF Contents, Refused
    <3>2. CASE kind[r] = "ok"
      BY <2>2, <2>3, <2>4, <3>2 DEF Contents, Succeeded
    <3>3. CASE kind[r] \in Refused
      <4>1. kind[r] # "ok" /\ kind[r] # "panic"
        BY Zenon, <3>3 DEF Refused
      <4> QED
        BY <2>2, <2>3, <2>4, <3>3, <4>1 DEF Contents, Refusal
    <3> QED
      BY Zenon, <2>0, <3>1, <3>2, <3>3
  <2> QED
    BY ZenonT(30), <2>0, <2>1, <2>2, <2>5, StepInChain DEF InChain
<1>4. CASE StartMetrics(r)
  <2>1. /\ pc[r] = "metrics" /\ Serving(r) /\ UNCHANGED <<kind, ctxOf, pool, response>>
        /\ ctx' = ctx /\ pc' = [pc EXCEPT ![r] = "errors"]
    BY Zenon, <1>4 DEF StartMetrics, Goto, Serving, InChain
  <2>2. ctx' = [ctx EXCEPT ![ctxOf[r]] = My(r)] /\ My(r)' = My(r) /\ pc'[r] = "errors"
    BY Zenon, <1>0, <2>1 DEF My, AreContexts
  <2>3. Contents(r)'
    BY <1>0, <2>1, <2>2 DEF Contents, Succeeded, Refusal
  <2> QED
    BY ZenonT(30), <1>0, <2>1, <2>2, <2>3, StepInChain DEF InChain
<1>5. CASE ErrorHandler(r)
  <2>0. /\ pc[r] = "errors" /\ Serving(r) /\ UNCHANGED <<kind, ctxOf, pool, response>>
        /\ pc' = [pc EXCEPT ![r] = "return"] /\ kind[r] \in Refused \union {"ok"}
        /\ IF kind[r] = "ok" THEN Succeeded(My(r)) ELSE Refusal(My(r))
        /\ ctxOf[r] \in Context /\ IsContext(My(r))
    BY Zenon, <1>0, <1>5 DEF ErrorHandler, Goto, Serving, InChain, Contents
  <2>1. CASE kind[r] = "ok"
    <3>1. ctx' = [ctx EXCEPT ![ctxOf[r]] = My(r)]
      BY Zenon, <1>0, <1>5, <2>0, <2>1 DEF ErrorHandler, HasError, Succeeded, My, AreContexts
    <3>2. My(r)' = My(r) /\ pc'[r] = "return" /\ kind'[r] = "ok"
      BY <1>0, <2>0, <2>1, <3>1 DEF My
    <3>3. Contents(r)'
      BY Zenon, <2>0, <2>1, <3>2 DEF Contents, Succeeded, Refused
    <3> QED
      BY ZenonT(30), <2>0, <3>1, <3>3, StepInChain DEF InChain
  <2>2. CASE kind[r] \in Refused
    <3> DEFINE new == [My(r) EXCEPT !.body = "json", !.status = JsonStatus(@)]
    <3>0. Refusal(My(r)) /\ kind[r] \notin {"ok", "blocked"}
      BY Zenon, <2>0, <2>2 DEF Refused
    <3>1. ctx' = [ctx EXCEPT ![ctxOf[r]] = new]
      <4>1. HasError(My(r))
        BY <3>0 DEF HasError, Refusal
      <4> QED
        BY ZenonT(30), <1>0, <1>5, <2>0, <4>1 DEF ErrorHandler, My
    <3>2. IsContext(new) /\ new.status \in {400, 500} /\ new.body = "json"
      BY <2>0, <3>0 DEF IsContext, Refusal, JsonStatus
    <3> HIDE DEF new
    <3>3. My(r)' = new /\ pc'[r] = "return" /\ kind' = kind
      BY Zenon, <1>0, <2>0, <3>1 DEF My, AreContexts
    <3>4. Contents(r)'
      BY <3>0, <3>2, <3>3 DEF Contents
    <3> QED
      BY ZenonT(30), <2>0, <3>1, <3>2, <3>4, StepInChain DEF InChain
  <2> QED
    BY Zenon, <2>0, <2>1, <2>2
<1>6. CASE Return(r)
  <2>1. /\ pc[r] = "return" /\ pc' = [pc EXCEPT ![r] = "done"] /\ pool' = pool \union {ctxOf[r]}
        /\ response' = [response EXCEPT ![r] = [status |-> My(r).status, body |-> My(r).body]]
        /\ UNCHANGED <<kind, ctxOf, ctx>> /\ Serving(r)
    BY Zenon, <1>6 DEF Return, Goto, Serving, InChain
  <2>2. /\ pc'[r] = "done" /\ response'[r].status = My(r).status /\ response'[r].body = My(r).body
        /\ \A s \in Request : s # r => pc'[s] = pc[s] /\ response'[s] = response[s]
        /\ DOMAIN response' = Request
    BY Zenon, <1>0, <2>1
  <2>3. \A s \in Request : Serving(s)' => s # r /\ Serving(s)
    BY Zenon, <2>2 DEF Serving, InChain
  <2>4. ContextsAreOwned'
    <3>1. pc' \in [Request -> InChain \union {"idle", "done"}]
      BY Zenon, <1>0, <2>1
    <3>2. \A s \in Request : Serving(s)' => ctxOf'[s] \in Context \ pool'
      BY Zenon, <2>1, <2>3 DEF ChainInv, ContextsAreOwned
    <3> QED
      BY <1>0, <2>1, <2>2, <2>3, <3>1, <3>2 DEF ChainInv, ContextsAreOwned
  <2>5. Contents(r)'
    BY <1>0, <2>1, <2>2 DEF Contents
  <2>6. \A s \in Request : s # r => Contents(s)'
    BY Zenon, <2>1, <2>2, OthersUndisturbed
  <2> QED
    BY Zenon, <2>4, <2>5, <2>6 DEF ChainInv
<1> QED
  BY Zenon, <1>1, <1>2, <1>3, <1>4, <1>5, <1>6 DEF Serve

(***************************************************************************)
(* The metrics goroutines only read.                                       *)
(***************************************************************************)
LEMMA ChainStep == ChainInv /\ [Next]_vars => ChainInv'
<1> SUFFICES ASSUME ChainInv, [Next]_vars PROVE ChainInv'
  BY Zenon
<1>1. ASSUME NEW r \in Request, Serve(r) PROVE ChainInv'
  BY Zenon, <1>1, ChainServe
<1>2. CASE UNCHANGED <<requestVars, ctx>>
  BY <1>2 DEF requestVars, ChainInv, ContextsAreOwned, Contents, Serving, My
<1>3. ASSUME NEW r \in Request, Metrics(r) PROVE UNCHANGED <<requestVars, ctx>>
  BY Zenon, <1>3 DEF Metrics, ReadPath, ReadVds, ReadStatus, Observe, Count
<1>4. UNCHANGED vars => UNCHANGED <<requestVars, ctx>>
  BY Zenon DEF vars
<1> QED
  BY Zenon, <1>1, <1>2, <1>3, <1>4 DEF Next

(***************************************************************************)
(* For any number of requests and contexts: a failure that a handler       *)
(* reports is answered with its status and an ErrorResponse, and a success *)
(* with data, although contexts are reused while the metrics goroutines    *)
(* of earlier requests still read them.                                    *)
(***************************************************************************)
THEOREM FailuresAreReported == Spec => []ReportedFailuresCarryErrorResponse
<1>1. ChainInv => ReportedFailuresCarryErrorResponse
  <2> SUFFICES ASSUME ChainInv, NEW r \in Request, pc[r] = "done", kind[r] # "panic"
               PROVE  /\ response[r].body = "json" <=> kind[r] # "ok"
                      /\ Failure(r) <=> kind[r] \in Refused
    BY Zenon DEF ReportedFailuresCarryErrorResponse, Refused
  <2>1. Contents(r) /\ kind[r] \in Kind
    BY Zenon DEF ChainInv, ContextsAreOwned
  <2> QED
    BY <2>1 DEF Contents, Kind, Refused, Failure
<1> QED
  BY <1>1, ChainInit, ChainStep, PTL DEF Spec

-----------------------------------------------------------------------------
ContextOfRequest ==
    [req: Request, vds: Request \union {None}, status: Statuses, body: Bodies, errors: 0 .. 1]

(***************************************************************************)
(* The types are inductive once it is known that a request in the chain    *)
(* never has a context that nobody has used.                               *)
(***************************************************************************)
TypeInv ==
    /\ TypeOK
    /\ DOMAIN response = Request
    /\ \A r \in Request : Serving(r) => My(r) \in ContextOfRequest

\* Every context is unused at first.
LEMMA TypeInit == Init => TypeInv
<1> SUFFICES ASSUME Init PROVE TypeInv
  BY Zenon
<1>1. pc = [r \in Request |-> "idle"] /\ response = [r \in Request |-> NoResponse]
  BY Zenon DEF Init
<1>2. \A r \in Request : response[r] = NoResponse /\ ~ Serving(r)
  BY Zenon, <1>1 DEF Serving, InChain
<1>s. NoResponse.status \in Statuses \union {0}
  BY Zenon DEF NoResponse
<1>c. requestCount \in [Request \X Account -> Nat] /\ None \in MetricsStates
  BY DEF Init, MetricsStates
<1>3. TypeOK
  BY Zenon, <1>2, <1>s, <1>c DEF Init, TypeOK
<1> QED
  BY Zenon, <1>1, <1>2, <1>3 DEF TypeInv

(***************************************************************************)
(* A request that gets a context, or keeps its own, and writes to it.      *)
(***************************************************************************)
LEMMA WritesToContext ==
    ASSUME TypeInv, NEW r \in Request, NEW c \in Context, NEW new \in ContextOfRequest,
           NEW next \in InChain,
           ctx' = [ctx EXCEPT ![c] = new], ctxOf' = [ctxOf EXCEPT ![r] = c],
           pc' = [pc EXCEPT ![r] = next], pool' \subseteq pool,
           UNCHANGED <<kind, response, metricsOn, requestCount>>,
           mpc' \in [Request -> MetricsStates]
    PROVE  TypeInv'
<1>1. /\ ctx \in [Context -> {Unused} \union ContextOfRequest]
      /\ ctxOf \in [Request -> Context \union {None}]
      /\ pc \in [Request -> InChain \union {"idle", "done"}]
  BY Zenon DEF TypeInv, TypeOK, ContextOfRequest, InChain
<1>2. /\ ctx' \in [Context -> {Unused} \union ContextOfRequest]
      /\ ctxOf' \in [Request -> Context \union {None}]
      /\ pc' \in [Request -> InChain \union {"idle", "done"}]
  BY Zenon, <1>1
<1>3. TypeOK'
  BY Zenon, <1>2 DEF TypeInv, TypeOK, ContextOfRequest, InChain
<1>4. ASSUME NEW s \in Request, Serving(s)' PROVE My(s)' \in ContextOfRequest
  <2>1. CASE s = r
    BY Zenon, <1>1, <2>1 DEF My
  <2>2. CASE s # r
    <3>1. Serving(s) /\ ctxOf'[s] = ctxOf[s]
      BY Zenon, <1>1, <1>4, <2>2 DEF Serving
    <3>2. ctx[ctxOf[s]] \in ContextOfRequest
      BY Zenon, <3>1 DEF TypeInv, My
    <3> QED
      BY <1>1, <3>1, <3>2 DEF My
  <2> QED
    BY Zenon, <2>1, <2>2
<1> QED
  BY Zenon, <1>3, <1>4 DEF TypeInv

\* What a handler writes to the context c of request r.
IsWritten(new, c, r, status) ==
    \/ new = [c EXCEPT !.vds = r, !.body = "data"]
    \/ new = [c EXCEPT !.status = status, !.errors = 1]
    \/ new = [c EXCEPT !.vds = r, !.status = status, !.errors = 1]
    \/ new = [c EXCEPT !.status = status]

\* It is a context again.
LEMMA WrittenIsContext ==
    ASSUME NEW c \in ContextOfRequest, NEW status \in Statuses, NEW r \in Request,
           NEW new, IsWritten(new, c, r, status)
    PROVE  new \in ContextOfRequest
<1>1. 1 \in 0 .. 1 /\ "data" \in Bodies
  BY DEF Bodies
<1>2. CASE new = [c EXCEPT !.vds = r, !.body = "data"]
  BY Zenon, <1>1, <1>2 DEF ContextOfRequest
<1>3. CASE new = [c EXCEPT !.status = status, !.errors = 1]
  BY Zenon, <1>1, <1>3 DEF ContextOfRequest
<1>4. CASE new = [c EXCEPT !.vds = r, !.status = status, !.errors = 1]
  BY Zenon, <1>1, <1>4 DEF ContextOfRequest
<1>5. CASE new = [c EXCEPT !.status = status]
  BY Zenon, <1>5 DEF ContextOfRequest
<1> QED
  BY Zenon, <1>2, <1>3, <1>4, <1>5 DEF IsWritten

\* The steps of a request.
LEMMA TypeServe ==
    ASSUME ChainInv, TypeInv, NEW r \in Request, Serve(r)
    PROVE  TypeInv'
<1>0. /\ kind \in [Request -> Kind]
      /\ pc \in [Request -> InChain \union {"idle", "done"}]
      /\ ctx \in [Context -> {Unused} \union ContextOfRequest]
      /\ ctxOf \in [Request -> Context \union {None}]
      /\ pool \subseteq Context
      /\ mpc \in [Request -> MetricsStates]
  BY Zenon DEF TypeInv, TypeOK, ContextOfRequest, InChain
<1>s. Serving(r) => ctxOf[r] \in Context /\ My(r) \in ContextOfRequest /\ Contents(r)
  BY Zenon DEF TypeInv, ChainInv, ContextsAreOwned
<1>k. ASSUME Serving(r), ctxOf' = ctxOf, NEW next \in InChain, NEW new \in ContextOfRequest,
             ctx' = [ctx EXCEPT ![ctxOf[r]] = new], pc' = [pc EXCEPT ![r] = next],
             UNCHANGED <<kind, pool, response, metricsOn, requestCount>>,
             mpc' \in [Request -> MetricsStates]
      PROVE  TypeInv'
  <2>1. ctxOf' = [ctxOf EXCEPT ![r] = ctxOf[r]]
    BY Zenon, <1>0, <1>k
  <2>2. ctxOf[r] \in Context
    BY Zenon, <1>s, <1>k
  <2> QED
    BY Zenon, <1>k, <2>1, <2>2, WritesToContext
<1>w. /\ 400 \in Statuses /\ 403 \in Statuses /\ 500 \in Statuses
      /\ "data" \in Bodies /\ "json" \in Bodies /\ 1 \in 0 .. 1
  BY DEF Statuses, Bodies
<1>1. CASE Accept(r)
  <2>1. PICK c \in pool : /\ pool' = pool \ {c}
                          /\ ctxOf' = [ctxOf EXCEPT ![r] = c]
                          /\ ctx' = [ctx EXCEPT ![c] = Fresh(r)]
    BY ZenonT(30), <1>1 DEF Accept
  <2>2. Fresh(r) \in ContextOfRequest
    BY DEF Fresh, ContextOfRequest, Statuses, Bodies
  <2>3. c \in Context /\ pool' \subseteq pool /\ "blocker" \in InChain
    BY Zenon, <1>0, <2>1 DEF InChain
  <2>4. /\ pc' = [pc EXCEPT ![r] = "blocker"] /\ UNCHANGED <<kind, response, metricsOn, requestCount>>
        /\ mpc' \in [Request -> MetricsStates]
    BY Zenon, <1>0, <1>1 DEF Accept, Goto, metricsVars
  <2> QED
    BY Zenon, <2>1, <2>2, <2>3, <2>4, WritesToContext
<1>2. CASE Block(r)
  <2>0. /\ pc[r] = "blocker" /\ Serving(r) /\ UNCHANGED <<kind, ctxOf, pool, response, metricsOn, requestCount>>
        /\ mpc' \in [Request -> MetricsStates]
    BY Zenon, <1>0, <1>2 DEF Block, Serving, InChain, metricsVars
  <2>1. CASE kind[r] = "blocked"
    <3>1. PICK status \in Statuses : status = 403
      BY Zenon, <1>w
    <3>2. PICK u : u = [My(r) EXCEPT !.status = status]
      BY Zenon
    <3>3. PICK new : new = [u EXCEPT !.body = "json"]
      BY Zenon
    <3>4. u \in ContextOfRequest
      BY Zenon, <1>s, <2>0, <3>2 DEF ContextOfRequest
    <3>5. new \in ContextOfRequest
      BY <1>w, <3>3, <3>4 DEF ContextOfRequest
    <3>6. /\ ctx' = [[ctx EXCEPT ![ctxOf[r]] = u] EXCEPT ![ctxOf[r]] =
                        [[ctx EXCEPT ![ctxOf[r]] = u][ctxOf[r]] EXCEPT !.body = "json"]]
          /\ pc' = [pc EXCEPT ![r] = "return"]
      BY Zenon, <1>2, <2>1, <3>1, <3>2 DEF Block, Goto, My
    <3>7. [ctx EXCEPT ![ctxOf[r]] = u][ctxOf[r]] = u
      BY Zenon, <1>0, <1>s, <2>0
    <3>8. ctx' = [[ctx EXCEPT ![ctxOf[r]] = u] EXCEPT ![ctxOf[r]] = new]
      BY Zenon, <3>3, <3>6, <3>7
    <3>9. ctx' = [ctx EXCEPT ![ctxOf[r]] = new]
      BY Zenon, <1>0, <3>8
    <3> QED
      BY Zenon, <1>k, <2>0, <3>5, <3>6, <3>9 DEF InChain
  <2>2. CASE kind[r] # "blocked"
    <3>1. ctx' = [ctx EXCEPT ![ctxOf[r]] = My(r)] /\ pc' = [pc EXCEPT ![r] = "handler"]
      BY Zenon, <1>0, <1>2, <2>0, <2>2 DEF Block, Goto, My
    <3> QED
      BY Zenon, <1>k, <1>s, <2>0, <3>1 DEF InChain
  <2> QED
    BY Zenon, <2>1, <2>2
<1>3. CASE Handle(r)
  <2>0. /\ pc[r] = "handler" /\ Serving(r) /\ UNCHANGED <<kind, ctxOf, pool, response, metricsOn, requestCount>>
        /\ mpc' \in [Request -> MetricsStates]
    BY Zenon, <1>0, <1>3 DEF Handle, Serving, InChain, metricsVars
  <2>1. /\ kind[r] \in {"ok", "rejected", "unsuitable", "failed", "panic"}
        /\ My(r) \in ContextOfRequest
    BY <1>0, <1>s, <2>0 DEF Contents, Kind
  <2>2. Handled(r) \in ContextOfRequest
    <3>1. PICK bad \in Statuses, failed \in Statuses : bad = 400 /\ failed = 500
      BY <1>w
    <3>c. httpStatusCode(kind[r]) \in {bad, failed}
      BY <3>1 DEF httpStatusCode
    <3>2. PICK code \in {bad, failed} : code = httpStatusCode(kind[r])
      BY Zenon, <3>c
    <3>3. /\ kind[r] = "ok" => Handled(r) = [My(r) EXCEPT !.vds = r, !.body = "data"]
          /\ kind[r] = "rejected" => Handled(r) = [My(r) EXCEPT !.status = code, !.errors = 1]
          /\ kind[r] \in {"unsuitable", "failed"} =>
               Handled(r) = [My(r) EXCEPT !.vds = r, !.status = code, !.errors = 1]
          /\ kind[r] = "panic" => Handled(r) = [My(r) EXCEPT !.status = failed]
      BY <3>1, <3>2 DEF Handled
    <3>4. IsWritten(Handled(r), My(r), r, bad) \/ IsWritten(Handled(r), My(r), r, failed)
      BY Zenon, <2>1, <3>3 DEF IsWritten
    <3> QED
      BY Zenon, <2>1, <3>4, WrittenIsContext
  <2>3. /\ ctx' = [ctx EXCEPT ![ctxOf[r]] = Handled(r)]
        /\ \/ pc' = [pc EXCEPT ![r] = "return"]
           \/ pc' = [pc EXCEPT ![r] = "metrics"]
    BY Zenon, <1>3 DEF Handle, Goto
  <2> QED
    BY Zenon, <1>k, <2>0, <2>2, <2>3 DEF InChain
<1>4. CASE StartMetrics(r)
  <2>1. /\ pc[r] = "metrics" /\ Serving(r)
        /\ UNCHANGED <<kind, ctxOf, pool, response, metricsOn, ctx, requestCount>>
        /\ pc' = [pc EXCEPT ![r] = "errors"]
        /\ mpc' \in [Request -> MetricsStates]
    BY Zenon, <1>0, <1>4 DEF StartMetrics, Goto, Serving, InChain, MetricsStates
  <2>2. ctx' = [ctx EXCEPT ![ctxOf[r]] = My(r)]
    BY Zenon, <1>0, <2>1 DEF My
  <2> QED
    BY Zenon, <1>k, <1>s, <2>1, <2>2 DEF InChain
<1>5. CASE ErrorHandler(r)
  <2>0. /\ pc[r] = "errors" /\ Serving(r) /\ UNCHANGED <<kind, ctxOf, pool, response, metricsOn, requestCount>>
        /\ pc' = [pc EXCEPT ![r] = "return"]
        /\ mpc' \in [Request -> MetricsStates]
    BY Zenon, <1>0, <1>5 DEF ErrorHandler, Goto, Serving, InChain, metricsVars
  <2>1. CASE ~ HasError(My(r))
    <3>1. ctx' = [ctx EXCEPT ![ctxOf[r]] = My(r)]
      BY Zenon, <1>0, <1>5, <2>1 DEF ErrorHandler, My
    <3> QED
      BY Zenon, <1>k, <1>s, <2>0, <3>1 DEF InChain
  <2>2. CASE HasError(My(r))
    <3> DEFINE new == [My(r) EXCEPT !.body = "json", !.status = JsonStatus(@)]
    <3>1. ctx' = [ctx EXCEPT ![ctxOf[r]] = new]
      BY ZenonT(30), <1>0, <1>s, <1>5, <2>0, <2>2 DEF ErrorHandler, My
    <3>2. new \in ContextOfRequest
      <4>1. My(r) \in ContextOfRequest /\ JsonStatus(My(r).status) \in Statuses
        BY <1>s, <2>0 DEF ContextOfRequest, Statuses, JsonStatus
      <4> QED
        BY <1>w, <4>1 DEF ContextOfRequest
    <3> HIDE DEF new
    <3> QED
      BY Zenon, <1>k, <2>0, <3>1, <3>2 DEF InChain
  <2> QED
    BY Zenon, <2>1, <2>2
<1>6. CASE Return(r)
  <2>1. /\ pc[r] = "return" /\ pc' = [pc EXCEPT ![r] = "done"] /\ pool' = pool \union {ctxOf[r]}
        /\ response' = [response EXCEPT ![r] = [status |-> My(r).status, body |-> My(r).body]]
        /\ UNCHANGED <<kind, ctxOf, ctx, metricsOn, mpc, requestCount>> /\ Serving(r)
    BY Zenon, <1>6 DEF Return, Goto, Serving, InChain, metricsVars
  <2>2. My(r).status \in Statuses /\ ctxOf[r] \in Context
    BY Zenon, <1>s, <2>1 DEF ContextOfRequest
  <2>3. /\ DOMAIN response' = Request
        /\ \A s \in Request : response'[s].status \in Statuses \union {0}
    BY Zenon, <2>1, <2>2 DEF TypeInv, TypeOK
  <2>4. pc' \in [Request -> InChain \union {"idle", "done"}] /\ pool' \subseteq Context
    BY Zenon, <1>0, <2>1, <2>2
  <2>5. TypeOK'
    BY Zenon, <2>1, <2>3, <2>4 DEF TypeInv, TypeOK, InChain
  <2>6. ASSUME NEW s \in Request, Serving(s)' PROVE My(s)' \in ContextOfRequest
    <3>1. Serving(s)
      BY Zenon, <1>0, <2>1, <2>6 DEF Serving, InChain
    <3> QED
      BY Zenon, <2>1, <3>1 DEF TypeInv, My
  <2> QED
    BY Zenon, <2>3, <2>5, <2>6 DEF TypeInv
<1> QED
  BY Zenon, <1>1, <1>2, <1>3, <1>4, <1>5, <1>6 DEF Serve

\* Counters only grow.
LEMMA CountersGrow ==
    ASSUME requestCount \in [Request \X Account -> Nat], NEW path, NEW vds
    PROVE  updateRequestCountMetric(path, vds) \in [Request \X Account -> Nat]
<1>1. \A l \in Request \X Account : requestCount[l] \in Nat /\ requestCount[l] + 1 \in Nat
  OBVIOUS
<1> QED
  BY Zenon, <1>1 DEF updateRequestCountMetric

\* The metrics goroutines step through the fields that they read, and count.
LEMMA TypeStep == ChainInv /\ TypeInv /\ [Next]_vars => TypeInv'
<1> SUFFICES ASSUME ChainInv, TypeInv, [Next]_vars PROVE TypeInv'
  BY Zenon
<1>1. ASSUME NEW r \in Request, Serve(r) PROVE TypeInv'
  BY Zenon, <1>1, TypeServe
<1>2. ASSUME UNCHANGED <<requestVars, ctx, metricsOn>>, mpc' \in [Request -> MetricsStates],
             requestCount' \in [Request \X Account -> Nat]
      PROVE  TypeInv'
  <2>1. TypeOK'
    BY Zenon, <1>2 DEF requestVars, TypeInv, TypeOK
  <2> QED
    BY Zenon, <1>2, <2>1 DEF requestVars, TypeInv, Serving, My
<1>3. /\ mpc \in [Request -> MetricsStates]
      /\ requestCount \in [Request \X Account -> Nat]
  BY Zenon DEF TypeInv, TypeOK
<1>4. ASSUME NEW r \in Request, Metrics(r) PROVE TypeInv'
  <2>1. /\ UNCHANGED <<requestVars, ctx, metricsOn>>
        /\ mpc' \in [Request -> MetricsStates]
    BY Zenon, <1>3, <1>4
    DEF Metrics, ReadPath, ReadVds, ReadStatus, Observe, Count, MetricsStates
  <2>2. \/ requestCount' = requestCount
        \/ requestCount' = updateRequestCountMetric(label[r].path, label[r].vds)
    BY Zenon, <1>4 DEF Metrics, ReadPath, ReadVds, ReadStatus, Observe, Count
  <2>g. updateRequestCountMetric(label[r].path, label[r].vds) \in [Request \X Account -> Nat]
    BY Zenon, <1>3, CountersGrow
  <2>3. requestCount' \in [Request \X Account -> Nat]
    BY Zenon, <1>3, <2>2, <2>g
  <2> QED
    BY Zenon, <1>2, <2>1, <2>3
<1>5. CASE UNCHANGED vars
  BY Zenon, <1>2, <1>3, <1>5 DEF vars, metricsVars
<1> QED
  BY Zenon, <1>1, <1>4, <1>5 DEF Next

(***************************************************************************)
(* Whatever the requests and the metrics goroutines do to the contexts, a  *)
(* client gets a status that the server documents, or 403; the -1 that     *)
(* ErrorHandler gives ctx.JSON for "leave the status alone" never gets     *)
(* into a context.                                                         *)
(***************************************************************************)
THEOREM TypesAreKept == Spec => []TypeOK
<1>1. Init => ChainInv /\ TypeInv
  BY Zenon, ChainInit, TypeInit
<1>2. ChainInv /\ TypeInv /\ [Next]_vars => ChainInv' /\ TypeInv'
  BY Zenon, ChainStep, TypeStep
<1>3. TypeInv => TypeOK
  BY Zenon DEF TypeInv
<1> QED
  BY <1>1, <1>2, <1>3, PTL DEF Spec
-----------------------------------------------------------------------------
Answering == {"errors", "return", "done"}
Sampled == Refused \union {"ok"}
PathRead == {"vds", "status", "observe", "count", "done"}
VdsRead == {"status", "observe", "count", "done"}
StatusRead == {"observe", "count", "done"}

\* The context c was given to request p at some time.
HasUsed(p, c) == p \in Request /\ pc[p] # "idle" /\ ctxOf[p] = c

(***************************************************************************)
(* Whatever a metrics goroutine reads, it is of a request that has used    *)
(* the goroutine's context.                                                *)
(***************************************************************************)
UseInv ==
    /\ DOMAIN label = Request
    /\ \A r \in Request : DOMAIN label[r] = {"path", "vds", "status"}
    /\ \A r \in Request : pc[r] # "idle" => ctxOf[r] \in Context /\ My(r).req \in Request
    /\ \A c \in Context : ctx[c].req \in Request => HasUsed(ctx[c].req, c)
    /\ \A r \in Request : mpc[r] # None => pc[r] \in Answering /\ kind[r] \in Sampled
    /\ \A r \in Request : mpc[r] \in PathRead => HasUsed(label[r].path, ctxOf[r])

(***************************************************************************)
(* What the goroutine of a request reads when nobody shares the context.   *)
(***************************************************************************)
VdsSeen(r) == IF kind[r] = "rejected" THEN None ELSE r
Alone(r) == pc[r] # "idle" /\ ~ SharesContext(r)
OwnInv(r) ==
    /\ pc[r] \in {"blocker", "handler"} => My(r).vds = None
    /\ pc[r] \in Answering \union {"metrics"} /\ kind[r] \in Sampled => My(r).vds = VdsSeen(r)
    /\ mpc[r] \in VdsRead => label[r].vds = VdsSeen(r)
    /\ mpc[r] \in StatusRead => label[r].status = My(r).status
    /\ pc[r] = "done" => response[r].status = My(r).status

SamplesInv ==
    \A s \in samples : /\ s.request \in Request /\ mpc[s.request] \in {"count", "done"}
                       /\ s.path = label[s.request].path
                       /\ s.status = label[s.request].status

MetricsInv ==
    /\ UseInv
    /\ \A r \in Request : Alone(r) => OwnInv(r)
    /\ SamplesInv
    /\ CountedOncePerAccount

\* What the handler does to the context of its request.
LEMMA HandledContext ==
    ASSUME ChainInv, TypeInv, NEW s \in Request, Handle(s)
    PROVE  /\ Handled(s).req = My(s).req
           /\ kind[s] = "rejected" => Handled(s).vds = My(s).vds
           /\ kind[s] \in Sampled /\ kind[s] # "rejected" => Handled(s).vds = s
<1>0. Serving(s) /\ My(s) \in ContextOfRequest
  BY Zenon DEF Handle, Serving, InChain, TypeInv
<1>1. kind[s] \in {"ok", "rejected", "unsuitable", "failed", "panic"}
  <2>1. pc[s] = "handler" /\ Contents(s) /\ kind[s] \in Kind
    BY Zenon DEF Handle, ChainInv, ContextsAreOwned
  <2> QED
    BY <2>1 DEF Contents, Kind
<1>2. PICK code, failed : code = httpStatusCode(kind[s]) /\ failed = 500
  BY Zenon
<1>3. /\ kind[s] = "ok" => Handled(s) = [My(s) EXCEPT !.vds = s, !.body = "data"]
      /\ kind[s] = "rejected" => Handled(s) = [My(s) EXCEPT !.status = code, !.errors = 1]
      /\ kind[s] \in {"unsuitable", "failed"} =>
           Handled(s) = [My(s) EXCEPT !.vds = s, !.status = code, !.errors = 1]
      /\ kind[s] = "panic" => Handled(s) = [My(s) EXCEPT !.status = failed]
  BY <1>2 DEF Handled
<1>4. DOMAIN My(s) = {"req", "vds", "status", "body", "errors"}
  BY Zenon, <1>0 DEF ContextOfRequest
<1>5. CASE kind[s] = "ok"
  BY Zenon, <1>3, <1>4, <1>5
<1>6. CASE kind[s] = "rejected"
  BY Zenon, <1>3, <1>4, <1>6
<1>7. CASE kind[s] \in {"unsuitable", "failed"}
  BY Zenon, <1>3, <1>4, <1>7
<1>8. CASE kind[s] = "panic"
  BY Zenon, <1>3, <1>4, <1>8 DEF Sampled, Refused
<1> QED
  BY Zenon, <1>1, <1>5, <1>6, <1>7, <1>8

(***************************************************************************)
(* ErrorHandler leaves the VDS alone, and also the status: a handler that  *)
(* reports an error has set one.                                           *)
(***************************************************************************)
LEMMA HandledErrors ==
    ASSUME ChainInv, TypeInv, NEW s \in Request, ErrorHandler(s)
    PROVE  \E new : /\ ctx' = [ctx EXCEPT ![ctxOf[s]] = new]
                    /\ new.req = My(s).req /\ new.vds = My(s).vds
                    /\ new.status = My(s).status
<1>0. /\ Serving(s) /\ My(s) \in ContextOfRequest /\ ctxOf[s] \in Context
      /\ IF kind[s] = "ok" THEN Succeeded(My(s)) ELSE Refusal(My(s))
      /\ ctx \in [Context -> {Unused} \union ContextOfRequest]
  BY Zenon DEF ErrorHandler, Serving, InChain, TypeInv, TypeOK, ContextOfRequest,
               ChainInv, ContextsAreOwned, Contents
<1>1. CASE ~ HasError(My(s))
  <2>1. ctx' = [ctx EXCEPT ![ctxOf[s]] = My(s)]
    BY Zenon, <1>0, <1>1 DEF ErrorHandler, My
  <2> QED
    BY Zenon, <2>1
<1>2. CASE HasError(My(s))
  <2> DEFINE new == [My(s) EXCEPT !.body = "json", !.status = JsonStatus(@)]
  <2>1. ctx' = [ctx EXCEPT ![ctxOf[s]] = new]
    BY ZenonT(30), <1>0, <1>2 DEF ErrorHandler, My
  <2>2. JsonStatus(My(s).status) = My(s).status
    BY <1>0, <1>2 DEF HasError, Succeeded, Refusal, JsonStatus
  <2>3. new.req = My(s).req /\ new.vds = My(s).vds /\ new.status = My(s).status
    BY Zenon, <1>0, <2>2 DEF ContextOfRequest
  <2> HIDE DEF new
  <2> QED
    BY Zenon, <2>1, <2>3
<1> QED
  BY Zenon, <1>1, <1>2

(***************************************************************************)
(* The metrics begin without labels, samples and counts.                   *)
(***************************************************************************)
LEMMA MetricsInit == Init => MetricsInv
<1> SUFFICES ASSUME Init PROVE MetricsInv
  BY Zenon
<1>1. \A r \in Request : pc[r] = "idle" /\ mpc[r] = None
  BY ZenonT(30) DEF Init
<1>2. \A c \in Context : ctx[c].req \notin Request
  BY Zenon, NoneAssumption DEF Init, Unused
<1>3. DOMAIN label = Request /\ \A r \in Request : DOMAIN label[r] = {"path", "vds", "status"}
  BY Zenon DEF Init, Unread
<1>4. None \notin PathRead
  BY DEF None, PathRead
<1>5. UseInv
  BY Zenon, <1>1, <1>2, <1>3, <1>4 DEF UseInv
<1>6. SamplesInv /\ \A r \in Request : ~ Alone(r)
  BY Zenon, <1>1 DEF Init, SamplesInv, Alone
<1>7. \A r \in Request, a \in Account : requestCount[<<r, a>>] = 0 /\ mpc[r] # "done"
  BY <1>1 DEF Init, None
<1>8. CountedOncePerAccount
  BY Zenon, <1>7 DEF CountedOncePerAccount
<1> QED
  BY Zenon, <1>5, <1>6, <1>8 DEF MetricsInv

(***************************************************************************)
(* A request writes to no context but the one that it gets or has.         *)
(***************************************************************************)
LEMMA ServeFrame ==
    ASSUME ChainInv, TypeInv, NEW s \in Request, Serve(s)
    PROVE  /\ UNCHANGED <<kind, label, samples, requestCount>>
           /\ pc'[s] # "idle" /\ ctxOf'[s] \in Context
           /\ pc[s] # "idle" => ctxOf'[s] = ctxOf[s]
           /\ \A r \in Request : r # s => /\ pc'[r] = pc[r] /\ ctxOf'[r] = ctxOf[r]
                                          /\ mpc'[r] = mpc[r] /\ response'[r] = response[r]
           /\ \A c \in Context : c # ctxOf'[s] => ctx'[c] = ctx[c]
           /\ My(s)'.req = IF pc[s] = "idle" THEN s ELSE My(s).req
<1>0. /\ pc \in [Request -> InChain \union {"idle", "done"}]
      /\ ctx \in [Context -> {Unused} \union ContextOfRequest]
      /\ ctxOf \in [Request -> Context \union {None}]
      /\ mpc \in [Request -> MetricsStates] /\ DOMAIN response = Request
      /\ pool \subseteq Context
      /\ Serving(s) => ctxOf[s] \in Context /\ My(s) \in ContextOfRequest
  BY Zenon DEF TypeInv, TypeOK, ContextOfRequest, InChain, ChainInv, ContextsAreOwned
<1>1. CASE Accept(s)
  <2>1. PICK c \in pool : /\ ctxOf' = [ctxOf EXCEPT ![s] = c]
                          /\ ctx' = [ctx EXCEPT ![c] = Fresh(s)]
    BY ZenonT(30), <1>1 DEF Accept
  <2>2. /\ pc[s] = "idle" /\ pc' = [pc EXCEPT ![s] = "blocker"]
        /\ UNCHANGED <<kind, response, label, samples, requestCount, mpc>>
    BY Zenon, <1>1 DEF Accept, Goto, metricsVars
  <2>3. c \in Context /\ ctxOf'[s] = c /\ ctx'[c] = Fresh(s) /\ pc'[s] = "blocker"
    BY Zenon, <1>0, <2>1, <2>2
  <2>4. \A r \in Request : r # s => pc'[r] = pc[r] /\ ctxOf'[r] = ctxOf[r]
    BY Zenon, <1>0, <2>1, <2>2
  <2>5. \A d \in Context : d # c => ctx'[d] = ctx[d]
    BY Zenon, <1>0, <2>1
  <2>6. My(s)'.req = s
    <3>1. My(s)' = Fresh(s)
      BY Zenon, <2>3 DEF My
    <3> QED
      BY <3>1 DEF Fresh
  <2> QED
    BY Zenon, <2>2, <2>3, <2>4, <2>5, <2>6
<1>2. ASSUME Serving(s), ctxOf' = ctxOf, UNCHANGED <<kind, label, samples, requestCount>>,
             NEW new, ctx' = [ctx EXCEPT ![ctxOf[s]] = new], new.req = My(s).req,
             pc'[s] # "idle",
             \A r \in Request : r # s => /\ pc'[r] = pc[r] /\ mpc'[r] = mpc[r]
                                         /\ response'[r] = response[r]
      PROVE  /\ pc'[s] # "idle" /\ ctxOf'[s] \in Context
             /\ pc[s] # "idle" => ctxOf'[s] = ctxOf[s]
             /\ \A r \in Request : r # s => /\ pc'[r] = pc[r] /\ ctxOf'[r] = ctxOf[r]
                                            /\ mpc'[r] = mpc[r] /\ response'[r] = response[r]
             /\ \A c \in Context : c # ctxOf'[s] => ctx'[c] = ctx[c]
             /\ My(s)'.req = IF pc[s] = "idle" THEN s ELSE My(s).req
  <2>1. pc[s] # "idle" /\ ctxOf[s] \in Context
    BY Zenon, <1>0, <1>2 DEF Serving, InChain
  <2>2. \A c \in Context : c # ctxOf[s] => ctx'[c] = ctx[c]
    BY Zenon, <1>0, <1>2
  <2>3. My(s)' = new
    BY Zenon, <1>0, <1>2, <2>1 DEF My
  <2> QED
    BY Zenon, <1>2, <2>1, <2>2, <2>3
<1>3. CASE Block(s)
  <2>1. /\ Serving(s) /\ UNCHANGED <<kind, ctxOf, response, label, samples, requestCount, mpc>>
        /\ pc' = [pc EXCEPT ![s] = "return"] \/ pc' = [pc EXCEPT ![s] = "handler"]
    BY Zenon, <1>3 DEF Block, Goto, Serving, InChain, metricsVars
  <2>2. PICK new : ctx' = [ctx EXCEPT ![ctxOf[s]] = new] /\ new.req = My(s).req
    <3>1. CASE kind[s] = "blocked"
      <4>1. ctx' = [ctx EXCEPT ![ctxOf[s]] = [My(s) EXCEPT !.status = 403, !.body = "json"]]
        BY <1>0, <1>3, <2>1, <3>1 DEF Block, My
      <4>2. [My(s) EXCEPT !.status = 403, !.body = "json"].req = My(s).req
        BY Zenon, <1>0, <2>1 DEF ContextOfRequest
      <4> QED
        BY Zenon, <4>1, <4>2
    <3>2. CASE kind[s] # "blocked"
      <4>1. ctx' = [ctx EXCEPT ![ctxOf[s]] = My(s)]
        BY Zenon, <1>0, <1>3, <2>1, <3>2 DEF Block, My
      <4> QED
        BY Zenon, <4>1
    <3> QED
      BY Zenon, <3>1, <3>2
  <2>3. pc'[s] # "idle" /\ \A r \in Request : r # s => pc'[r] = pc[r]
    BY Zenon, <1>0, <2>1
  <2> QED
    BY Zenon, <1>2, <2>1, <2>2, <2>3
<1>4. CASE Handle(s)
  <2>1. /\ Serving(s) /\ UNCHANGED <<kind, ctxOf, response, label, samples, requestCount, mpc>>
        /\ pc' = [pc EXCEPT ![s] = "return"] \/ pc' = [pc EXCEPT ![s] = "metrics"]
        /\ ctx' = [ctx EXCEPT ![ctxOf[s]] = Handled(s)]
    BY Zenon, <1>4 DEF Handle, Goto, Serving, InChain, metricsVars
  <2>2. Handled(s).req = My(s).req
    BY Zenon, <1>4, HandledContext
  <2>3. pc'[s] # "idle" /\ \A r \in Request : r # s => pc'[r] = pc[r]
    BY Zenon, <1>0, <2>1
  <2> QED
    BY Zenon, <1>2, <2>1, <2>2, <2>3
<1>5. CASE StartMetrics(s)
  <2>1. /\ Serving(s) /\ UNCHANGED <<kind, ctxOf, response, label, samples, requestCount, ctx>>
        /\ pc' = [pc EXCEPT ![s] = "errors"]
        /\ mpc' = [mpc EXCEPT ![s] = IF TakesSample(s) THEN "path" ELSE None]
    BY Zenon, <1>5 DEF StartMetrics, Goto, Serving, InChain
  <2>2. ctx' = [ctx EXCEPT ![ctxOf[s]] = My(s)]
    BY Zenon, <1>0, <2>1 DEF My
  <2>3. pc'[s] # "idle" /\ \A r \in Request : r # s => pc'[r] = pc[r] /\ mpc'[r] = mpc[r]
    BY Zenon, <1>0, <2>1
  <2> QED
    BY Zenon, <1>2, <2>1, <2>2, <2>3
<1>6. CASE ErrorHandler(s)
  <2>1. /\ Serving(s) /\ UNCHANGED <<kind, ctxOf, response, label, samples, requestCount, mpc>>
        /\ pc' = [pc EXCEPT ![s] = "return"]
    BY Zenon, <1>6 DEF ErrorHandler, Goto, Serving, InChain, metricsVars
  <2>2. PICK new : ctx' = [ctx EXCEPT ![ctxOf[s]] = new] /\ new.req = My(s).req
    BY Zenon, <1>6, HandledErrors
  <2>3. pc'[s] # "idle" /\ \A r \in Request : r # s => pc'[r] = pc[r]
    BY Zenon, <1>0, <2>1
  <2> QED
    BY Zenon, <1>2, <2>1, <2>2, <2>3
<1>7. CASE Return(s)
  <2>1. /\ Serving(s) /\ UNCHANGED <<kind, ctxOf, ctx, label, samples, requestCount, mpc>>
        /\ pc' = [pc EXCEPT ![s] = "done"]
        /\ response' = [response EXCEPT ![s] = [status |-> My(s).status, body |-> My(s).body]]
    BY Zenon, <1>7 DEF Return, Goto, Serving, InChain, metricsVars
  <2>2. ctx' = [ctx EXCEPT ![ctxOf[s]] = My(s)]
    BY Zenon, <1>0, <2>1 DEF My
  <2>3. /\ pc'[s] # "idle"
        /\ \A r \in Request : r # s => pc'[r] = pc[r] /\ response'[r] = response[r]
    BY Zenon, <1>0, <2>1
  <2> QED
    BY Zenon, <1>2, <2>1, <2>2, <2>3
<1> QED
  BY Zenon, <1>1, <1>3, <1>4, <1>5, <1>6, <1>7 DEF Serve

\* The metrics goroutine of a request is started once, behind the handler.
LEMMA MetricsStart ==
    ASSUME ChainInv, TypeInv, UseInv, NEW s \in Request, Serve(s)
    PROVE  /\ mpc'[s] = mpc[s] \/ (mpc[s] = None /\ mpc'[s] = "path")
           /\ mpc'[s] # None => pc'[s] \in Answering /\ kind'[s] \in Sampled
<1>0. /\ pc \in [Request -> InChain \union {"idle", "done"}]
      /\ mpc \in [Request -> MetricsStates] /\ Contents(s)
      /\ mpc[s] # None => pc[s] \in Answering /\ kind[s] \in Sampled
  BY Zenon DEF TypeInv, TypeOK, InChain, ChainInv, ContextsAreOwned, UseInv
<1>1. CASE StartMetrics(s)
  <2>1. /\ pc[s] = "metrics" /\ kind' = kind /\ pc' = [pc EXCEPT ![s] = "errors"]
        /\ mpc' = [mpc EXCEPT ![s] = IF TakesSample(s) THEN "path" ELSE None]
    BY Zenon, <1>1 DEF StartMetrics, Goto
  <2>2. mpc[s] = None /\ kind[s] \in Sampled
    BY Zenon, <1>0, <2>1 DEF Answering, Contents, Sampled
  <2> QED
    BY Zenon, <1>0, <2>1, <2>2 DEF Answering
<1>2. CASE Accept(s) \/ Block(s) \/ Handle(s)
  <2>1. /\ mpc' = mpc /\ pc[s] \notin Answering
    BY Zenon, <1>2 DEF Accept, Block, Handle, metricsVars, Answering
  <2> QED
    BY Zenon, <1>0, <2>1
<1>3. CASE ErrorHandler(s) \/ Return(s)
  <2>1. /\ mpc' = mpc /\ kind' = kind
        /\ pc' = [pc EXCEPT ![s] = "return"] \/ pc' = [pc EXCEPT ![s] = "done"]
    BY Zenon, <1>3 DEF ErrorHandler, Return, metricsVars, Goto
  <2> QED
    BY Zenon, <1>0, <2>1 DEF Answering
<1> QED
  BY Zenon, <1>1, <1>2, <1>3 DEF Serve

(***************************************************************************)
(* What a request does to its own context.                                 *)
(***************************************************************************)
LEMMA ServeOwn ==
    ASSUME ChainInv, TypeInv, UseInv, NEW s \in Request, Serve(s),
           pc[s] # "idle" => OwnInv(s)
    PROVE  OwnInv(s)'
<1>0. /\ pc \in [Request -> InChain \union {"idle", "done"}]
      /\ ctx \in [Context -> {Unused} \union ContextOfRequest]
      /\ DOMAIN response = Request
      /\ Serving(s) => ctxOf[s] \in Context /\ My(s) \in ContextOfRequest
      /\ mpc[s] # None => pc[s] \in Answering
      /\ kind' = kind /\ label' = label
      /\ mpc'[s] = mpc[s] \/ mpc'[s] = "path"
  BY Zenon, MetricsStart, ServeFrame
  DEF TypeInv, TypeOK, InChain, ContextOfRequest, ChainInv, ContextsAreOwned, UseInv
<1>n. None \notin VdsRead /\ None \notin StatusRead /\ "path" \notin VdsRead \union StatusRead
  BY DEF None, VdsRead, StatusRead
<1>v. VdsSeen(s)' = VdsSeen(s)
  BY Zenon, <1>0 DEF VdsSeen
<1>1. CASE Accept(s)
  <2>1. pc'[s] = "blocker" /\ pc[s] = "idle"
    BY Zenon, <1>0, <1>1 DEF Accept, Goto
  <2>2. PICK c \in Context : ctxOf'[s] = c /\ ctx'[c] = Fresh(s)
    BY ZenonT(30), <1>0, <1>1 DEF Accept, TypeInv, TypeOK
  <2>3. My(s)' = Fresh(s)
    BY Zenon, <2>2 DEF My
  <2>4. My(s)'.vds = None
    BY <2>3 DEF Fresh
  <2>5. mpc'[s] \notin VdsRead /\ mpc'[s] \notin StatusRead
    BY Zenon, <1>0, <1>n, <2>1 DEF Answering
  <2> QED
    BY Zenon, <2>1, <2>4, <2>5 DEF OwnInv, Answering
<1>2. CASE Block(s)
  <2>1. /\ pc[s] = "blocker" /\ Serving(s) /\ ctxOf' = ctxOf
        /\ \/ kind[s] = "blocked" /\ pc' = [pc EXCEPT ![s] = "return"]
           \/ ctx' = ctx /\ pc' = [pc EXCEPT ![s] = "handler"]
    BY Zenon, <1>2 DEF Block, Goto, Serving, InChain
  <2>2. mpc'[s] \notin VdsRead /\ mpc'[s] \notin StatusRead
    BY Zenon, <1>0, <1>n, <2>1 DEF Answering
  <2>3. OwnInv(s) /\ My(s).vds = None
    BY Zenon, <2>1 DEF OwnInv
  <2>4. CASE kind[s] = "blocked" /\ pc' = [pc EXCEPT ![s] = "return"]
    <3>1. pc'[s] = "return" /\ kind'[s] \notin Sampled
      BY Zenon, <1>0, <2>4 DEF Sampled, Refused
    <3> QED
      BY Zenon, <2>2, <3>1 DEF OwnInv
  <2>5. CASE ctx' = ctx /\ pc' = [pc EXCEPT ![s] = "handler"]
    <3>1. pc'[s] = "handler" /\ My(s)' = My(s)
      BY Zenon, <1>0, <2>1, <2>5 DEF My
    <3> QED
      BY Zenon, <2>2, <2>3, <3>1 DEF OwnInv, Answering
  <2> QED
    BY Zenon, <2>1, <2>4, <2>5
<1>3. CASE Handle(s)
  <2>1. /\ pc[s] = "handler" /\ Serving(s) /\ ctxOf' = ctxOf
        /\ pc' = [pc EXCEPT ![s] = "return"] \/ pc' = [pc EXCEPT ![s] = "metrics"]
        /\ ctx' = [ctx EXCEPT ![ctxOf[s]] = Handled(s)]
    BY Zenon, <1>3 DEF Handle, Goto, Serving, InChain
  <2>2. mpc'[s] \notin VdsRead /\ mpc'[s] \notin StatusRead
    BY Zenon, <1>0, <1>n, <2>1 DEF Answering
  <2>3. My(s).vds = None /\ My(s)' = Handled(s)
    BY Zenon, <1>0, <2>1 DEF OwnInv, My
  <2>4. kind'[s] \in Sampled => My(s)'.vds = VdsSeen(s)
    BY Zenon, <1>0, <1>3, <2>3, HandledContext DEF VdsSeen, Sampled
  <2>5. pc'[s] \in {"return", "metrics"}
    BY Zenon, <1>0, <2>1
  <2> QED
    BY Zenon, <1>v, <2>2, <2>4, <2>5 DEF OwnInv
<1>4. CASE StartMetrics(s)
  <2>1. pc[s] = "metrics" /\ Serving(s) /\ pc' = [pc EXCEPT ![s] = "errors"]
        /\ UNCHANGED <<ctx, ctxOf>>
    BY Zenon, <1>4 DEF StartMetrics, Goto, Serving, InChain
  <2>2. mpc'[s] \notin VdsRead /\ mpc'[s] \notin StatusRead
    BY Zenon, <1>0, <1>n, <2>1 DEF Answering
  <2>3. OwnInv(s) /\ pc'[s] = "errors" /\ My(s)' = My(s)
    BY Zenon, <1>0, <2>1 DEF My
  <2> QED
    BY Zenon, <1>0, <1>v, <2>1, <2>2, <2>3 DEF OwnInv, Answering
<1>5. CASE ErrorHandler(s)
  <2>1. /\ pc[s] = "errors" /\ Serving(s) /\ pc' = [pc EXCEPT ![s] = "return"]
        /\ ctxOf' = ctxOf /\ mpc' = mpc
    BY Zenon, <1>5 DEF ErrorHandler, Goto, Serving, InChain, metricsVars
  <2>2. PICK new : /\ ctx' = [ctx EXCEPT ![ctxOf[s]] = new]
                   /\ new.vds = My(s).vds /\ new.status = My(s).status
    BY Zenon, <1>5, HandledErrors
  <2>3. My(s)' = new /\ pc'[s] = "return" /\ OwnInv(s)
    BY Zenon, <1>0, <2>1, <2>2 DEF My
  <2> QED
    BY Zenon, <1>0, <1>v, <2>1, <2>2, <2>3 DEF OwnInv, Answering
<1>6. CASE Return(s)
  <2>1. /\ pc[s] = "return" /\ Serving(s) /\ pc' = [pc EXCEPT ![s] = "done"]
        /\ UNCHANGED <<ctx, ctxOf, mpc>>
        /\ response' = [response EXCEPT ![s] = [status |-> My(s).status, body |-> My(s).body]]
    BY Zenon, <1>6 DEF Return, Goto, Serving, InChain, metricsVars
  <2>2. /\ My(s)' = My(s) /\ pc'[s] = "done" /\ OwnInv(s)
        /\ response'[s].status = My(s).status
    BY Zenon, <1>0, <2>1 DEF My
  <2> QED
    BY Zenon, <1>0, <1>v, <2>1, <2>2 DEF OwnInv, Answering
<1> QED
  BY Zenon, <1>1, <1>2, <1>3, <1>4, <1>5, <1>6 DEF Serve

(***************************************************************************)
(* The steps of a request keep what the metrics rely on.                   *)
(***************************************************************************)
LEMMA MetricsServe ==
    ASSUME ChainInv, TypeInv, MetricsInv, NEW s \in Request, Serve(s)
    PROVE  MetricsInv'
<1>0. UseInv
  BY Zenon DEF MetricsInv
<1>f. /\ UNCHANGED <<kind, label, samples, requestCount>>
      /\ pc'[s] # "idle" /\ ctxOf'[s] \in Context
      /\ pc[s] # "idle" => ctxOf'[s] = ctxOf[s]
      /\ \A r \in Request : r # s => /\ pc'[r] = pc[r] /\ ctxOf'[r] = ctxOf[r]
                                     /\ mpc'[r] = mpc[r] /\ response'[r] = response[r]
      /\ \A c \in Context : c # ctxOf'[s] => ctx'[c] = ctx[c]
      /\ My(s)'.req = IF pc[s] = "idle" THEN s ELSE My(s).req
  BY Zenon, ServeFrame
<1>m. /\ mpc'[s] = mpc[s] \/ (mpc[s] = None /\ mpc'[s] = "path")
      /\ mpc'[s] # None => pc'[s] \in Answering /\ kind'[s] \in Sampled
  BY Zenon, <1>0, MetricsStart
<1>u. \A p \in Request : pc[p] # "idle" => pc'[p] # "idle" /\ ctxOf'[p] = ctxOf[p]
  BY Zenon, <1>f
<1>h. \A r \in Request : SharesContext(r) => SharesContext(r)'
  BY Zenon, <1>f DEF SharesContext
<1>1. UseInv'
  <2>1. \A r \in Request : pc'[r] # "idle" => ctxOf'[r] \in Context /\ My(r)'.req \in Request
    <3>1. My(s)'.req \in Request
      BY Zenon, <1>0, <1>f DEF UseInv
    <3>2. ASSUME NEW r \in Request, r # s, pc'[r] # "idle"
          PROVE  ctxOf'[r] \in Context /\ My(r)'.req \in Request
      <4>1. ctxOf[r] \in Context /\ ctx[ctxOf[r]].req \in Request
        BY Zenon, <1>0, <1>f, <3>2 DEF UseInv, My
      <4>2. CASE ctxOf[r] = ctxOf'[s]
        BY Zenon, <1>f, <3>1, <3>2, <4>1, <4>2 DEF My
      <4>3. CASE ctxOf[r] # ctxOf'[s]
        BY Zenon, <1>f, <3>2, <4>1, <4>3 DEF My
      <4> QED
        BY Zenon, <4>2, <4>3
    <3> QED
      BY Zenon, <1>f, <3>1, <3>2
  <2>2. ASSUME NEW c \in Context, ctx'[c].req \in Request PROVE HasUsed(ctx[c].req, c)'
    <3>1. CASE c = ctxOf'[s] /\ pc[s] = "idle"
      <4>1. ctx'[c].req = s
        BY Zenon, <1>f, <3>1 DEF My
      <4> QED
        BY Zenon, <1>f, <3>1, <4>1 DEF HasUsed
    <3>2. CASE c = ctxOf'[s] /\ pc[s] # "idle"
      <4>1. ctx'[c].req = ctx[c].req
        BY Zenon, <1>f, <3>2 DEF My
      <4> QED
        BY Zenon, <1>0, <1>u, <2>2, <4>1 DEF UseInv, HasUsed
    <3>3. CASE c # ctxOf'[s]
      <4>1. ctx'[c] = ctx[c]
        BY Zenon, <1>f, <3>3
      <4>2. HasUsed(ctx[c].req, c)
        BY Zenon, <1>0, <2>2, <4>1 DEF UseInv
      <4> QED
        BY Zenon, <1>u, <4>1, <4>2 DEF HasUsed
    <3> QED
      BY Zenon, <3>1, <3>2, <3>3
  <2>3. \A r \in Request : mpc'[r] # None => pc'[r] \in Answering /\ kind'[r] \in Sampled
    BY Zenon, <1>0, <1>f, <1>m DEF UseInv
  <2>4. ASSUME NEW r \in Request, mpc'[r] \in PathRead PROVE HasUsed(label[r].path, ctxOf[r])'
    <3>1. mpc'[r] = mpc[r]
      BY <1>f, <1>m, <2>4 DEF PathRead
    <3>2. mpc[r] # None
      BY <2>4, <3>1 DEF PathRead, None
    <3>3. ctxOf'[r] = ctxOf[r]
      BY Zenon, <1>0, <1>f, <3>2 DEF UseInv, Answering
    <3> QED
      BY Zenon, <1>0, <1>f, <1>u, <2>4, <3>1, <3>3 DEF UseInv, HasUsed
  <2> QED
    BY Zenon, <1>0, <1>f, <2>1, <2>2, <2>3, <2>4 DEF UseInv
<1>2. ASSUME NEW r \in Request, Alone(r)' PROVE OwnInv(r)'
  <2>1. pc[r] # "idle" => Alone(r)
    BY Zenon, <1>h, <1>2 DEF Alone
  <2>2. CASE r = s
    BY Zenon, <1>0, <2>1, <2>2, ServeOwn DEF MetricsInv
  <2>3. CASE r # s
    <3>1. pc[r] # "idle" /\ OwnInv(r)
      BY Zenon, <1>2, <1>f, <2>1, <2>3 DEF Alone, MetricsInv
    <3>2. ctxOf[r] # ctxOf'[s]
      BY Zenon, <1>2, <1>f, <2>3 DEF Alone, SharesContext
    <3>3. My(r)' = My(r)
      BY Zenon, <1>0, <1>f, <2>3, <3>1, <3>2 DEF UseInv, My
    <3> QED
      BY Zenon, <1>f, <2>3, <3>1, <3>3 DEF OwnInv, VdsSeen
  <2> QED
    BY Zenon, <2>2, <2>3
<1>3. SamplesInv'
  <2>1. \A r \in Request : mpc[r] \in {"count", "done"} => mpc'[r] = mpc[r]
    BY <1>f, <1>m DEF None
  <2> QED
    BY Zenon, <1>f, <2>1 DEF MetricsInv, SamplesInv
<1>4. CountedOncePerAccount'
  <2>1. \A r \in Request : mpc'[r] = "done" <=> mpc[r] = "done"
    BY <1>f, <1>m DEF None
  <2> QED
    BY Zenon, <1>f, <1>h, <2>1 DEF MetricsInv, CountedOncePerAccount, extractStorageAccounts
<1> QED
  BY Zenon, <1>1, <1>2, <1>3, <1>4 DEF MetricsInv

(***************************************************************************)
(* The steps of a metrics goroutine.  A counter is increased under a path  *)
(* that the goroutine has read in its context, so that it is the counter   *)
(* of a request that has used that context.                                *)
(***************************************************************************)
LEMMA MetricsRead ==
    ASSUME TypeInv, MetricsInv, NEW s \in Request, Metrics(s)
    PROVE  MetricsInv'
<1>0. /\ UseInv /\ SamplesInv /\ CountedOncePerAccount
      /\ mpc \in [Request -> MetricsStates]
      /\ requestCount \in [Request \X Account -> Nat]
      /\ DOMAIN label = Request /\ DOMAIN label[s] = {"path", "vds", "status"}
  BY Zenon DEF MetricsInv, UseInv, TypeInv, TypeOK
<1>1. /\ UNCHANGED <<kind, pc, ctxOf, response, ctx>>
      /\ mpc[s] # None
  BY DEF Metrics, ReadPath, ReadVds, ReadStatus, Observe, Count, requestVars, None
<1>2. /\ pc[s] \in Answering /\ kind[s] \in Sampled /\ pc[s] # "idle"
      /\ ctxOf[s] \in Context /\ HasUsed(My(s).req, ctxOf[s])
  BY Zenon, <1>0, <1>1 DEF UseInv, Answering, My
<1>k. ASSUME \A r \in Request : r # s => label'[r] = label[r] /\ mpc'[r] = mpc[r],
             DOMAIN label' = Request, DOMAIN label'[s] = {"path", "vds", "status"},
             mpc'[s] \in PathRead => HasUsed(label'[s].path, ctxOf[s]),
             Alone(s) => /\ mpc'[s] \in VdsRead => label'[s].vds = VdsSeen(s)
                         /\ mpc'[s] \in StatusRead => label'[s].status = My(s).status,
             SamplesInv', CountedOncePerAccount'
      PROVE  MetricsInv'
  <2>1. UseInv'
    <3>1. \A r \in Request : mpc'[r] # None => pc'[r] \in Answering /\ kind'[r] \in Sampled
      BY Zenon, <1>0, <1>1, <1>2, <1>k DEF UseInv
    <3>2. \A r \in Request : mpc'[r] \in PathRead => HasUsed(label[r].path, ctxOf[r])'
      BY Zenon, <1>0, <1>1, <1>k DEF UseInv, HasUsed
    <3> QED
      BY Zenon, <1>0, <1>1, <1>k, <3>1, <3>2 DEF UseInv, HasUsed, My
  <2>2. ASSUME NEW r \in Request, Alone(r)' PROVE OwnInv(r)'
    <3>1. Alone(r) /\ OwnInv(r) /\ My(r)' = My(r) /\ VdsSeen(r)' = VdsSeen(r)
      BY Zenon, <1>1, <2>2 DEF Alone, SharesContext, MetricsInv, My, VdsSeen
    <3>2. CASE r = s
      BY Zenon, <1>1, <1>k, <3>1, <3>2 DEF OwnInv
    <3>3. CASE r # s
      BY Zenon, <1>1, <1>k, <3>1, <3>3 DEF OwnInv
    <3> QED
      BY Zenon, <3>2, <3>3
  <2> QED
    BY Zenon, <1>k, <2>1, <2>2 DEF MetricsInv
<1>c. ASSUME requestCount' = requestCount, \A r \in Request : mpc'[r] = "done" <=> mpc[r] = "done"
      PROVE  CountedOncePerAccount'
  <2>1. \A r \in Request : SharesContext(r)' <=> SharesContext(r)
    BY Zenon, <1>1 DEF SharesContext
  <2> QED
    BY Zenon, <1>0, <1>1, <1>c, <2>1 DEF CountedOncePerAccount, extractStorageAccounts
<1>o. Alone(s) => OwnInv(s)
  BY Zenon DEF MetricsInv
<1>3. CASE ReadPath(s)
  <2>1. /\ mpc[s] = "path" /\ mpc' = [mpc EXCEPT ![s] = "vds"]
        /\ label' = [label EXCEPT ![s].path = My(s).req]
        /\ UNCHANGED <<samples, requestCount>>
    BY Zenon, <1>3 DEF ReadPath
  <2>2. /\ \A r \in Request : r # s => label'[r] = label[r] /\ mpc'[r] = mpc[r]
        /\ DOMAIN label' = Request /\ DOMAIN label'[s] = {"path", "vds", "status"}
        /\ label'[s].path = My(s).req /\ mpc'[s] = "vds"
    BY Zenon, <1>0, <2>1
  <2>3. SamplesInv'
    BY Zenon, <1>0, <2>1, <2>2 DEF SamplesInv
  <2>4. CountedOncePerAccount'
    BY Zenon, <1>c, <2>1, <2>2
  <2> QED
    BY Zenon, <1>2, <1>k, <2>2, <2>3, <2>4 DEF VdsRead, StatusRead
<1>4. CASE ReadVds(s)
  <2>1. /\ mpc[s] = "vds" /\ mpc' = [mpc EXCEPT ![s] = "status"]
        /\ label' = [label EXCEPT ![s].vds = My(s).vds]
        /\ UNCHANGED <<samples, requestCount>>
    BY Zenon, <1>4 DEF ReadVds
  <2>2. /\ \A r \in Request : r # s => label'[r] = label[r] /\ mpc'[r] = mpc[r]
        /\ DOMAIN label' = Request /\ DOMAIN label'[s] = {"path", "vds", "status"}
        /\ label'[s].path = label[s].path /\ label'[s].vds = My(s).vds /\ mpc'[s] = "status"
    BY Zenon, <1>0, <2>1
  <2>3. SamplesInv'
    BY Zenon, <1>0, <2>1, <2>2 DEF SamplesInv
  <2>4. CountedOncePerAccount'
    BY Zenon, <1>c, <2>1, <2>2
  <2>5. HasUsed(label[s].path, ctxOf[s])
    BY Zenon, <1>0, <2>1 DEF UseInv, PathRead
  <2>6. Alone(s) => My(s).vds = VdsSeen(s)
    BY Zenon, <1>2, <1>o DEF OwnInv
  <2> QED
    BY Zenon, <1>k, <2>2, <2>3, <2>4, <2>5, <2>6 DEF StatusRead
<1>5. CASE ReadStatus(s)
  <2>1. /\ mpc[s] = "status" /\ mpc' = [mpc EXCEPT ![s] = "observe"]
        /\ label' = [label EXCEPT ![s].status = My(s).status]
        /\ UNCHANGED <<samples, requestCount>>
    BY Zenon, <1>5 DEF ReadStatus
  <2>2. /\ \A r \in Request : r # s => label'[r] = label[r] /\ mpc'[r] = mpc[r]
        /\ DOMAIN label' = Request /\ DOMAIN label'[s] = {"path", "vds", "status"}
        /\ label'[s].path = label[s].path /\ label'[s].vds = label[s].vds
        /\ label'[s].status = My(s).status /\ mpc'[s] = "observe"
    BY Zenon, <1>0, <2>1
  <2>3. SamplesInv'
    BY Zenon, <1>0, <2>1, <2>2 DEF SamplesInv
  <2>4. CountedOncePerAccount'
    BY Zenon, <1>c, <2>1, <2>2
  <2>5. HasUsed(label[s].path, ctxOf[s])
    BY Zenon, <1>0, <2>1 DEF UseInv, PathRead
  <2>6. Alone(s) => label[s].vds = VdsSeen(s)
    BY Zenon, <1>o, <2>1 DEF OwnInv, VdsRead
  <2> QED
    BY Zenon, <1>k, <2>2, <2>3, <2>4, <2>5, <2>6
<1>6. CASE Observe(s)
  <2> DEFINE new == [request |-> s, path |-> label[s].path, status |-> label[s].status]
  <2>1. /\ mpc[s] = "observe" /\ mpc' = [mpc EXCEPT ![s] = "count"]
        /\ samples' = samples \union {new}
        /\ UNCHANGED <<label, requestCount>>
    BY Zenon, <1>6 DEF Observe
  <2>2. (\A r \in Request : r # s => mpc'[r] = mpc[r]) /\ mpc'[s] = "count"
    BY Zenon, <1>0, <2>1
  <2>3. SamplesInv'
    <3>1. new.request = s /\ new.path = label[s].path /\ new.status = label[s].status
      BY Zenon
    <3> HIDE DEF new
    <3>2. ASSUME NEW t \in samples PROVE mpc'[t.request] \in {"count", "done"}
      BY Zenon, <1>0, <2>1, <2>2, <3>2 DEF SamplesInv
    <3> QED
      BY Zenon, <1>0, <2>1, <2>2, <3>1, <3>2 DEF SamplesInv
  <2>4. CountedOncePerAccount'
    BY Zenon, <1>c, <2>1, <2>2
  <2>5. HasUsed(label[s].path, ctxOf[s])
    BY Zenon, <1>0, <2>1 DEF UseInv, PathRead
  <2>6. Alone(s) => label[s].vds = VdsSeen(s) /\ label[s].status = My(s).status
    BY Zenon, <1>o, <2>1 DEF OwnInv, VdsRead, StatusRead
  <2> QED
    BY Zenon, <1>0, <1>k, <2>1, <2>2, <2>3, <2>4, <2>5, <2>6
<1>7. CASE Count(s)
  <2>1. /\ mpc[s] = "count" /\ mpc' = [mpc EXCEPT ![s] = "done"]
        /\ requestCount' = updateRequestCountMetric(label[s].path, label[s].vds)
        /\ UNCHANGED <<label, samples>>
    BY Zenon, <1>7 DEF Count
  <2>2. (\A r \in Request : r # s => mpc'[r] = mpc[r]) /\ mpc'[s] = "done"
    BY Zenon, <1>0, <2>1
  <2>3. SamplesInv'
    BY Zenon, <1>0, <2>1, <2>2 DEF SamplesInv
  <2>5. HasUsed(label[s].path, ctxOf[s])
    BY Zenon, <1>0, <2>1 DEF UseInv, PathRead
  <2>6. Alone(s) => label[s].vds = VdsSeen(s) /\ label[s].status = My(s).status
    BY Zenon, <1>o, <2>1 DEF OwnInv, VdsRead, StatusRead
  <2>4. CountedOncePerAccount'
    <3> SUFFICES ASSUME NEW r \in Request, NEW a \in Account, ~ SharesContext(r)
                 PROVE  requestCount'[<<r, a>>] =
                          IF /\ mpc'[r] = "done" /\ kind[r] # "rejected"
                             /\ a \in extractStorageAccounts(r)
                          THEN 1 ELSE 0
      BY Zenon, <1>1 DEF CountedOncePerAccount, SharesContext, extractStorageAccounts
    <3>1. requestCount[<<r, a>>] = IF /\ mpc[r] = "done" /\ kind[r] # "rejected"
                                      /\ a \in extractStorageAccounts(r)
                                   THEN 1 ELSE 0
      BY Zenon, <1>0 DEF CountedOncePerAccount
    <3>2. requestCount'[<<r, a>>] =
            IF r = label[s].path /\ a \in extractStorageAccounts(label[s].vds)
            THEN requestCount[<<r, a>>] + 1
            ELSE requestCount[<<r, a>>]
      <4>1. <<r, a>> \in Request \X Account /\ <<r, a>>[1] = r /\ <<r, a>>[2] = a
        OBVIOUS
      <4> QED
        BY Zenon, <2>1, <4>1 DEF updateRequestCountMetric
    <3>3. CASE r # s
      <4>1. label[s].path # r
        BY Zenon, <1>2, <2>5, <3>3 DEF HasUsed, SharesContext
      <4> QED
        BY Zenon, <2>2, <3>1, <3>2, <3>3, <4>1
    <3>4. CASE r = s
      <4>1. Alone(s) /\ label[s].path = s
        BY Zenon, <1>2, <2>5, <3>4 DEF Alone, HasUsed, SharesContext
      <4>2. label[s].vds = VdsSeen(s) /\ requestCount[<<r, a>>] = 0
        BY <2>1, <2>6, <3>1, <3>4, <4>1
      <4>3. a \in extractStorageAccounts(label[s].vds) <=>
              kind[s] # "rejected" /\ a \in extractStorageAccounts(s)
        BY Zenon, <4>2 DEF VdsSeen, extractStorageAccounts
      <4>4. 0 + 1 = 1
        OBVIOUS
      <4> QED
        BY Zenon, <2>2, <3>2, <3>4, <4>1, <4>2, <4>3, <4>4
    <3> QED
      BY Zenon, <3>3, <3>4
  <2> QED
    BY Zenon, <1>0, <1>k, <2>1, <2>2, <2>3, <2>4, <2>5, <2>6
<1> QED
  BY Zenon, <1>3, <1>4, <1>5, <1>6, <1>7 DEF Metrics

(***************************************************************************)
(* MetricsInv is inductive beside ChainInv and TypeInv: one step for each  *)
(* process of a request, and the stutter.                                  *)
(***************************************************************************)
LEMMA MetricsStep == ChainInv /\ TypeInv /\ MetricsInv /\ [Next]_vars => MetricsInv'
<1> SUFFICES ASSUME ChainInv, TypeInv, MetricsInv, [Next]_vars PROVE MetricsInv'
  BY Zenon
<1>1. ASSUME NEW r \in Request, Serve(r) PROVE MetricsInv'
  BY Zenon, <1>1, MetricsServe
<1>2. ASSUME NEW r \in Request, Metrics(r) PROVE MetricsInv'
  BY Zenon, <1>2, MetricsRead
<1>3. CASE UNCHANGED vars
  <2>1. UNCHANGED <<kind, pc, ctxOf, pool, response, ctx, mpc, label, samples, requestCount>>
    BY Zenon, <1>3 DEF vars, requestVars, metricsVars
  <2>2. UseInv'
    BY Zenon, <2>1 DEF MetricsInv, UseInv, HasUsed, My
  <2>3. \A r \in Request : SharesContext(r)' <=> SharesContext(r)
    BY Zenon, <2>1 DEF SharesContext
  <2>4. \A r \in Request : Alone(r)' => OwnInv(r)'
    BY Zenon, <2>1, <2>3 DEF MetricsInv, Alone, OwnInv, My, VdsSeen
  <2>5. SamplesInv' /\ CountedOncePerAccount'
    BY Zenon, <2>1, <2>3 DEF MetricsInv, SamplesInv, CountedOncePerAccount, extractStorageAccounts
  <2> QED
    BY Zenon, <2>2, <2>4, <2>5 DEF MetricsInv
<1> QED
  BY Zenon, <1>1, <1>2, <1>3 DEF Next

(***************************************************************************)
(* The three invariants together, from their initial states and steps.     *)
(***************************************************************************)
LEMMA MetricsAreInvariant == Spec => [](ChainInv /\ TypeInv /\ MetricsInv)
<1>1. Init => ChainInv /\ TypeInv /\ MetricsInv
  BY Zenon, ChainInit, TypeInit, MetricsInit
<1>2. ChainInv /\ TypeInv /\ MetricsInv /\ [Next]_vars => (ChainInv /\ TypeInv /\ MetricsInv)'
  BY Zenon, ChainStep, TypeStep, MetricsStep
<1> QED
  BY <1>1, <1>2, PTL DEF Spec

(***************************************************************************)
(* For any number of requests, contexts and accounts: a request that       *)
(* shares its context with nobody is counted once for each storage account *)
(* of its VDS, and not at all if it is rejected before they are known.     *)
(***************************************************************************)
THEOREM AccountsAreCountedOnce == Spec => []CountedOncePerAccount
<1>1. MetricsInv => CountedOncePerAccount
  BY Zenon DEF MetricsInv
<1> QED
  BY <1>1, MetricsAreInvariant, PTL

(***************************************************************************)
(* For any number of requests and contexts: a request that shares its      *)
(* context with nobody is sampled under its path and the status that its   *)
(* client gets, whether the goroutine reads it before or after             *)
(* ErrorHandler has run.                                                   *)
(***************************************************************************)
THEOREM SamplesAreAsAnswered == Spec => []SampledAsAnswered
<1>1. MetricsInv => SampledAsAnswered
  <2> SUFFICES ASSUME MetricsInv, NEW s \in samples, ~ SharesContext(s.request)
               PROVE  /\ s.path = s.request
                      /\ pc[s.request] = "done" => s.status = response[s.request].status
    BY Zenon DEF SampledAsAnswered
  <2>1. PICK r \in Request : r = s.request /\ mpc[r] \in {"count", "done"}
    BY Zenon DEF MetricsInv, SamplesInv
  <2>2. s.path = label[r].path /\ s.status = label[r].status
    BY Zenon, <2>1 DEF MetricsInv, SamplesInv
  <2>3. mpc[r] # None /\ mpc[r] \in PathRead /\ mpc[r] \in StatusRead
    BY <2>1 DEF None, PathRead, StatusRead
  <2>4. pc[r] # "idle" /\ HasUsed(label[r].path, ctxOf[r])
    BY Zenon, <2>3 DEF MetricsInv, UseInv, Answering
  <2>5. label[r].path = r
    BY Zenon, <2>1, <2>4 DEF HasUsed, SharesContext
  <2>6. OwnInv(r)
    BY Zenon, <2>1, <2>4 DEF MetricsInv, Alone
  <2> QED
    BY Zenon, <2>1, <2>2, <2>3, <2>5, <2>6 DEF OwnInv
<1> QED
  BY <1>1, MetricsAreInvariant, PTL
=============================================================================
