---------------------------- MODULE MCAlgorithms ----------------------------
(* Algorithms for TLC: topologies of four nodes and up to four links, lists of up to 41
   latencies, thresholds and measurements of three values. *)
EXTENDS Algorithms

Node(n, type) == [name |-> n, type |-> type]
Chain(last) == <<Node("a", "host"), Node("b", "host"), Node("c", last), Node("d", "host")>>

Link(from, to, version, bits) == [from |-> from, to |-> to, net |-> [version |-> version, bits |-> bits]]
Blocks == << <<0, 0>>, <<0, 1>>, <<1, 0>>, <<1, 1>> >>
Topology(nodes, links, rules) == [nodes |-> nodes, links |-> links, rules |-> rules]
Rule(name, protocol, from, to) == [name |-> name, protocol |-> protocol, from |-> from, to |-> to]

Nodes == {"a", "b", "c", "d"}
\* Up to three links among four nodes, and four of seven, each with a subnet of its own.
Shape(last, e) ==
    Topology(Chain(last), [i \in DOMAIN e |-> Link(e[i][1], e[i][2], 4, Blocks[i])], <<>>)
Shapes ==
    {Shape("router", e) : e \in UNION {[1..k -> Nodes \X Nodes] : k \in 0..3}}
    \cup {Shape("host", e) : e \in [1..4 -> {<<"a", "b">>, <<"b", "a">>, <<"b", "c">>, <<"c", "d">>,
                                       <<"d", "a">>, <<"c", "a">>, <<"d", "d">>}]}
\* All subnets of a path of two links, and one that cannot be parsed.
Nets == {<<v, b>> : v \in {4, 6}, b \in UNION {[1..k -> {0, 1}] : k \in 0..2}} \cup {<<0, <<>>>>}
Subnets ==
    {Topology(Chain("host"), <<Link("a", "b", m[1], m[2]), Link("b", "c", n[1], n[2])>>, <<>>)
        : m, n \in Nets}
\* Nodes and rules with mistakes.
Pair == <<Link("a", "b", 4, <<>>)>>
Mistakes ==
    {Topology(<<Node(n, x), Node(m, y)>>, Pair, <<>>)
        : n, m \in {"a", "b", "c"}, x, y \in {"host", "router", "nat"}}
    \cup {Topology(Chain("host"), Pair, <<Rule("r1", p, f, "b"), Rule(r, "icmp", "a", g)>>)
        : p \in {"icmp", "udp"}, r \in {"r1", "r2"}, f, g \in {"a", "z"}}
    \cup {Topology(<<Node("a", x), Node("b", x)>>, Pair, <<Rule("r1", "icmp", "a", "b")>>)
        : x \in {"host", "router"}}
AllTopologies == Shapes \cup Subnets \cup Mistakes
AllProviders == {"aws", "mock"}

\* Two or three different latencies, in falling order.
Falling(x, y, z) == [i \in 1..(x + y + z) |-> IF i <= x THEN 30 ELSE IF i <= x + y THEN 20 ELSE 10]
AllLatencies ==
    {Falling(0, x, n) : x \in 0..2, n \in 0..41} \cup {Falling(x, y, n) : x, y \in 0..2, n \in 0..41}

Optional(S) == {{}} \cup {{x} : x \in S}
AllThresholds ==
    [rate : Optional(0..2), avg : Optional(1..2), p95 : Optional(1..2), recovery : Optional(1..2)]
AllMeasurements ==
    {[total |-> t, passed |-> p, avg |-> a, p95 |-> q, recovery |-> r] :
        t \in 0..2, p \in 0..2, a, q, r \in Optional(1..3)}
Judged == {m \in AllMeasurements : m.passed <= m.total}
=============================================================================
