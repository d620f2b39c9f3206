------------------------------ MODULE Adapters ------------------------------
(***************************************************************************)
(* The framework adapters as callers of api.Entry and Exit.  Each of them  *)
(* is a wrapper around the application's handler or around a call that the *)
(* application makes: it enters, gives up when it is blocked, and else     *)
(* lets the work be done and exits.  They differ in what becomes of an     *)
(* error, and in when they exit.  What a blocked caller is told is left    *)
(* out.  The branches for outlier ejection are in Outlier.                 *)
(***************************************************************************)
EXTENDS EntryLifecycle

VARIABLE work   \* what became of the work that the call of an entry is about

adapterVars == <<vars, work>>

AdaptersInit == Init /\ work = [e \in Ent |-> "none"]

\* The work of a call is done, or panics.
WorkEnds(e, result) == work[e] = "none" /\ work' = [work EXCEPT ![e] = result]

\* api.TraceError
TraceError(e) ==
    /\ SetMy(e, "err", TRUE)
    /\ failed' = failed \cup {e}
    /\ UNCHANGED <<entries, exits, pools, resNodeMap, conc, panicked, counted, limited>>

\* The adapter does not look at the result.
Unseen == UNCHANGED <<entries, exits, pools, ctx, resNodeMap, conc, history>>

AnyResult(e) == Unseen /\ \E result \in setup.results : WorkEnds(e, result)

ExitAfterWork(e) == work[e] # "none" /\ Exit(e, 1) /\ UNCHANGED work

\* "defer entry.Exit()", then the work: Exit runs after it, even if it panics.
Deferred(e) == pc[e] = "live" /\ (AnyResult(e) \/ ExitAfterWork(e))

\* The entry is exited before the work, so that errors are traced too late.
DeferredTracedMutant(e) ==
    /\ pc[e] = "live"
    /\ \/ Exit(e, 1) /\ UNCHANGED work
       \/ call[e][1] # "none" /\ WorkEnds(e, "error") /\ TraceError(e)

\* The same, and an error of the work is traced before Exit.
DeferredTraced(e) ==
    /\ pc[e] = "live"
    /\ \/ "error" \in setup.results /\ WorkEnds(e, "error") /\ TraceError(e)
       \/ Unseen /\ \E result \in setup.results \ {"error"} : WorkEnds(e, result)
       \/ ExitAfterWork(e)

\* Exit comes first, and the work when the wrapper has returned.
ExitFirst(e, places) ==
    \/ pc[e] = "live" /\ Exit(e, 1) /\ UNCHANGED work
    \/ pc[e] \in places /\ call[e][1] = "returned" /\ AnyResult(e)

\* No "defer": Exit is called at the end, which an error or a panic does not reach.
ExitLast(e) ==
    /\ pc[e] = "live"
    /\ AnyResult(e) \/ (work[e] = "ok" /\ ExitAfterWork(e))

\* The wrapper that is in use, and the traffic it declares.
Wrapper(caller, flow) == setup.caller = caller /\ setup.flow = flow

-----------------------------------------------------------------------------
(* Web servers: the error of a handler is not traced.                       *)

GinMiddleware(e) == Wrapper("gin", "inbound") /\ Deferred(e)

EchoMiddleware(e) == Wrapper("echo", "inbound") /\ Deferred(e)

FiberMiddleware(e) == Wrapper("fiber", "inbound") /\ Deferred(e)

IrisMiddleware(e) == Wrapper("iris", "inbound") /\ Deferred(e)

GoFrameMiddleware(e) == Wrapper("goframe", "inbound") /\ Deferred(e)

GoZeroMiddleware(e) == Wrapper("go-zero", "inbound") /\ Deferred(e)

GoZeroRouteMiddleware(e) == Wrapper("go-zero route", "inbound") /\ Deferred(e)

HertzServerMiddleware(e) == Wrapper("hertz server", "inbound") /\ Deferred(e)

\* The middleware of gear returns before the handler runs.
GearMiddleware(e) == Wrapper("gear", "inbound") /\ ExitFirst(e, {"live"})

-----------------------------------------------------------------------------
(* RPC: the error of the handler or of the call is traced.                  *)

\* Exit before the handler runs.
GrpcUnaryServerInterceptorMutant(e) ==
    Wrapper("grpc unary server", "inbound") /\ ExitFirst(e, {"live"})

GrpcUnaryServerInterceptor(e) == Wrapper("grpc unary server", "inbound") /\ DeferredTraced(e)

GrpcStreamServerInterceptor(e) == Wrapper("grpc stream server", "inbound") /\ DeferredTraced(e)

GrpcUnaryClientInterceptor(e) == Wrapper("grpc unary client", "outbound") /\ DeferredTraced(e)

\* The work is the opening of the stream.
GrpcStreamClientInterceptor(e) == Wrapper("grpc stream client", "outbound") /\ DeferredTraced(e)

HertzClientMiddleware(e) == Wrapper("hertz client", "outbound") /\ DeferredTraced(e)

KitexClientMiddleware(e) == Wrapper("kitex client", "outbound") /\ DeferredTraced(e)

KitexServerMiddleware(e) == Wrapper("kitex server", "inbound") /\ DeferredTraced(e)

KratosClientMiddleware(e) == Wrapper("kratos client", "outbound") /\ DeferredTraced(e)

MicroClientCall(e) == Wrapper("micro call", "outbound") /\ DeferredTraced(e)

\* The work is the opening of the stream.
MicroClientStream(e) == Wrapper("micro stream", "outbound") /\ DeferredTraced(e)

MicroHandlerWrapper(e) == Wrapper("micro handler", "inbound") /\ DeferredTraced(e)

\* The wrapper returns the stream for the handler to use, even when it is blocked.
MicroStreamWrapper(e) ==
    Wrapper("micro server stream", "inbound") /\ ExitFirst(e, {"live", "refused"})

-----------------------------------------------------------------------------
(* Language models: an error is one of the model, or a response without the *)
(* numbers of tokens.                                                       *)

EinoGenerate(e) == Wrapper("eino", "inbound") /\ ExitLast(e)

LangchainGenerateContent(e) == Wrapper("langchaingo", "inbound") /\ ExitLast(e)

-----------------------------------------------------------------------------

WebServer(e) ==
    \/ GinMiddleware(e) \/ EchoMiddleware(e) \/ FiberMiddleware(e) \/ IrisMiddleware(e)
    \/ GoFrameMiddleware(e) \/ GoZeroMiddleware(e) \/ GoZeroRouteMiddleware(e)
    \/ HertzServerMiddleware(e) \/ GearMiddleware(e)

Rpc(e) ==
    \/ GrpcUnaryServerInterceptor(e) \/ GrpcStreamServerInterceptor(e)
    \/ GrpcUnaryClientInterceptor(e) \/ GrpcStreamClientInterceptor(e)
    \/ HertzClientMiddleware(e) \/ KitexClientMiddleware(e) \/ KitexServerMiddleware(e)
    \/ KratosClientMiddleware(e) \/ MicroClientCall(e) \/ MicroClientStream(e)
    \/ MicroHandlerWrapper(e) \/ MicroStreamWrapper(e)

LanguageModel(e) == EinoGenerate(e) \/ LangchainGenerateContent(e)

\* The wrappers that do not trace errors, that do not cover the work, and that do
\* not always exit.
Silent == {"gin", "echo", "fiber", "iris", "goframe", "go-zero", "go-zero route", "hertz server"}
Early == {"gear", "micro server stream"}
Leaky == {"eino", "langchaingo"}

\* The call failed, and its entry is never exited.
Lost(e) == setup.caller \in Leaky /\ work[e] \in {"error", "panic"}

\* The adapter and its work are done with the call.
Finished(e) ==
    \/ Lost(e)
    \/ /\ call[e][1] = "returned"
       /\ work[e] = "none" => pc[e] = "refused" /\ setup.caller # "micro server stream"

CallsOver ==
    /\ setup.caller # "direct"
    /\ Cardinality(Started) = setup.calls /\ \A e \in Started : Finished(e)
    /\ UNCHANGED adapterVars

AdaptersNext ==
    \/ (SentinelStep \/ Over) /\ UNCHANGED work
    \/ \E e \in Ent : /\ \/ DirectCaller(e) /\ UNCHANGED work
                         \/ WebServer(e) \/ Rpc(e) \/ LanguageModel(e)
                      /\ UNCHANGED <<setup, metrics>>
    \/ CallsOver

AdaptersSpec == AdaptersInit /\ [][AdaptersNext]_adapterVars

-----------------------------------------------------------------------------

\* A completion counts as an error only if that very entry was given one or met a
\* panic: nothing is carried over through the pool of contexts.  And an adapter for
\* RPC, whichever it is, has traced the error of its call when the entry completes.
ErrorsCounted ==
    /\ counted \subseteq failed
    /\ \A e \in Ent :
          work[e] = "error" /\ once[e] = "done" /\ setup.caller \notin Silent \cup Early =>
              e \in counted \cup panicked

\* When nothing is entering or exiting, the concurrency of the resource, and of the
\* inbound node for inbound traffic, is the number of calls whose work goes on,
\* whatever has failed or panicked before.  The exceptions are gear and the
\* server's streams of go-micro, which exit before the work, and the calls of language
\* models that failed: they count for ever.
CallsCounted ==
    LET Working(e) == pc[e] = "live" /\ work[e] = "none" IN
    /\ setup.caller \notin {"direct"} \cup Early /\ panicked = {}
    /\ \A e \in Ent : pc[e] = "new" \/ Working(e) \/ Finished(e)
    => \A n \in ({resNodeMap} \ {None}) \cup {InboundNode} :
          conc[n] = IF n = InboundNode /\ setup.flow = "outbound" THEN 0
                    ELSE Cardinality({e \in Ent : Working(e) \/ Lost(e)})
=============================================================================
