---------------------------- MODULE MCDataSource ----------------------------
EXTENDS DataSource

Setup(k, c, u) == [kind |-> k, converter |-> c, updater |-> u]

MCSetups ==
    {Setup("file", c, u) : c \in {"pointers", "values"},
                           u \in {"flow", "system", "circuitbreaker", "hotspot"}}
    \cup {Setup(k, "pointers", "flow") : k \in {"etcd", "consul", "nacos"}}
    \cup {Setup("k8s", "pointers", u) : u \in {"flow", "isolation", "circuitbreaker", "hotspot", "system"}}

FlowCR(c, b, r) == [calculate |-> c, behavior |-> b, relation |-> r]
BreakerCR(s, t) == [strategy |-> s, threshold |-> t]
HotspotCR(m, b, i) == [metric |-> m, behavior |-> b, items |-> i]
Item(v, t) == [value |-> v, threshold |-> t]

Resources(crd) ==
    CASE crd = "flow" ->
           {<<FlowCR("", "Reject", "")>>,
            <<FlowCR("Unknown", "", ""), FlowCR("WarmUp", "Throttling", "AssociatedResource")>>}
      [] crd = "circuitbreaker" ->
           {<<BreakerCR("ErrorRatio", 50)>>, <<BreakerCR("Unknown", 1), BreakerCR("ErrorCount", 5)>>}
      [] crd = "hotspot" ->
           {<<HotspotCR("QPS", "", <<Item("1", 5), Item("unparsable", 6), Item("1", 7)>>)>>,
            <<HotspotCR("Unknown", "", <<>>), HotspotCR("Concurrency", "Reject", <<>>)>>}
      [] OTHER -> {<<"a">>, <<"a", "b">>}

MCContents(k, u) ==
    IF k = "k8s" THEN {Content("ok", rules) : rules \in Resources(u)}
    ELSE {Content("ok", <<"a">>), Content("ok", <<"a", "b">>), Content("ok", <<"null">>),
          Content("bad", <<>>), Content("empty", <<>>)}
=============================================================================
