-------------------------- MODULE MCEntryLifecycle --------------------------
EXTENDS Adapters, TLC

\* Entries, contexts and options are interchangeable.
Symmetry == Permutations(Ent) \cup Permutations(Ctx) \cup Permutations(Opt)

\* No collector runs.
Off == [load |-> 0, cpu |-> 0, system |-> 0]

Base == [caller |-> "direct", flow |-> "outbound", rules |-> {}, config |-> Off, threshold |-> 1,
         results |-> {"ok", "error", "panic"}, calls |-> 3, parallel |-> 2, panics |-> {}, maxPanics |-> 0]

\* Callers that exit twice, without and with panics in every place.
DirectSetups ==
    {Base,
     [Base EXCEPT !.panics = {"prepare", "check", "stat", "handler", "completed"}, !.maxPanics = 2,
                  !.flow = "inbound", !.calls = 2]}

\* The adapters.
ClientSetups ==
    {[Base EXCEPT !.caller = c, !.threshold = 1, !.calls = 2] :
        c \in {"grpc unary client", "grpc stream client", "hertz client", "kitex client",
               "kratos client", "micro call", "micro stream"}}
ServerSetups ==
    {[Base EXCEPT !.caller = c, !.flow = "inbound", !.threshold = 1, !.calls = 2] :
        c \in Silent \cup Early \cup Leaky \cup
              {"grpc unary server", "grpc stream server", "kitex server", "micro handler"}}

\* System rules of every metric, for a well-behaved server.
Rule(metric, trigger, strategy) == [metric |-> metric, trigger |-> trigger, strategy |-> strategy]
SystemSetup(rules, parallel) ==
    [Base EXCEPT !.caller = "gin", !.flow = "inbound", !.rules = rules, !.threshold = 9,
                 !.parallel = parallel, !.results = {"ok"}]
SystemSetups ==
    {SystemSetup({Rule("concurrency", 1, "none")}, 2),
     [SystemSetup({Rule("load", 0, "bbr")}, 1) EXCEPT !.config.load = 1],
     [SystemSetup({Rule("cpu", 0, "none"), Rule("avgRT", 1, "none")}, 1) EXCEPT
            !.config.system = 1, !.calls = 1],
     [SystemSetup({Rule("inboundQPS", 1, "none"), Rule("concurrency", 1, "none")}, 1) EXCEPT
            !.panics = {"prepare"}, !.maxPanics = 1]}

MCSetups == DirectSetups \cup ClientSetups \cup ServerSetups \cup SystemSetups

\* Two nested entries with different parameters.
ArgsSetups == {[Base EXCEPT !.threshold = 2, !.calls = 2, !.parallel = 1]}
=============================================================================
