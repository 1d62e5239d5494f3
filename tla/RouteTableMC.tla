---------------------------- MODULE RouteTableMC ----------------------------
(***************************************************************************)
(* An instance of RouteTable for TLC: the files a.json and a1.json, of     *)
(* which the directory lists the first first, while "a1:x" sorts before    *)
(* "a:x"; prefixes with slashes too many in front, inside and at the end.  *)
(***************************************************************************)
EXTENDS RouteTable

CONSTANTS x, y, seg1, seg2, empty, host1, host2, port

P(lead, segs, trail) == [lead |-> lead, segs |-> segs, trail |-> trail]

Order == [s \in Sources |-> IF s = "a" THEN 1 ELSE 2]
Bound == [s \in Sources |-> IF s = "a" THEN 2 ELSE 1]
IdOrder == [r \in Sources \X Ids |->
              (IF r[1] = "a" THEN 2 ELSE 0) + (IF r[2] = x THEN 0 ELSE 1)]

H(name, brackets, p) == [name |-> name, brackets |-> brackets, port |-> p]
H1 == H(host1, FALSE, NoPort)
H2 == H(host2, FALSE, NoPort)
Hosts == {H1, H(host1, FALSE, port), H(host1, FALSE, EmptyPort),
          H(host2, TRUE, NoPort), H(host2, TRUE, port), H(NoName, FALSE, port)}

ReqPaths ==
    {NoPath, Asterisk, Root, P(1, <<>>, 0), P(0, <<seg1>>, 0), P(0, <<seg1>>, 1),
     P(0, <<seg1>>, 2), P(0, <<seg1, seg2>>, 0), P(0, <<seg1, empty, seg2>>, 0),
     P(1, <<seg1>>, 0), P(0, <<seg2>>, 0)}

Body(kind, value) ==
    [enabled |-> TRUE, hosts |-> {H1}, path |-> [kind |-> kind, value |-> value]]
Regex(paths) ==
    [enabled |-> TRUE, hosts |-> {H1}, path |-> [kind |-> "regex", matches |-> paths]]
AnyPath == [enabled |-> TRUE, hosts |-> {H1, H2, H(host1, FALSE, EmptyPort)}, path |-> [kind |-> "any"]]

RouteBodies ==
    {Body("prefix", p) : p \in {Root, P(1, <<>>, 0), P(0, <<seg1>>, 1), P(0, <<seg1>>, 3),
                                P(1, <<seg1>>, 1), P(0, <<seg1, seg2>>, 1),
                                P(0, <<seg1, empty, seg2>>, 1)}}
    \union {Body("exact", P(0, <<seg1>>, 0)), AnyPath,
            Regex({Asterisk, P(0, <<seg1>>, 0), P(0, <<seg2>>, 0)}),
            Regex({Root, P(0, <<seg1>>, 0), P(0, <<seg1, seg2>>, 0)}),
            [Body("prefix", P(0, <<seg1>>, 1)) EXCEPT !.enabled = FALSE]}
=============================================================================
