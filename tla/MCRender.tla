------------------------------ MODULE MCRender ------------------------------
(* Instances of Render: three conda packages with every dependency graph, of *)
(* which 1 is pip and 2 is python, a pip package and a virtual package.      *)
EXTENDS Render

CONSTANTS linux, osx

MCPlatforms == <<linux, osx>>

CondaName == {1, 2, 3}

(* Graphs over the conda packages; 1 needs the virtual package as well, and  *)
(* the pip package 4 needs python.                                           *)
Graphs ==
    {[n \in Name |-> CASE n = 0 -> {} [] n = 4 -> {2} [] n = 1 -> g[1] \union {0} [] OTHER -> g[n]] :
        g \in {g \in [CondaName -> SUBSET CondaName] : \A n \in CondaName : n \notin g[n]}}

(* What n leads to in a graph over five names. *)
ReachedFrom(graph, n) ==
    LET grow(S) == S \union UNION {graph[x] : x \in S}
    IN  grow(grow(grow(grow({n}))))

(* The table of a solution in which each category asks for one name. *)
TableFor(graph, roots) ==
    [n \in Name |->
        LET c == {k \in DOMAIN roots : n \in ReachedFrom(graph, roots[k])}
        IN  IF n = 0 \/ c = {} THEN None
            ELSE [deps |-> graph[n], categories |-> IF "main" \in c THEN {"main"} ELSE c]]

MCTables == {TableFor(g, [main |-> 4, dev |-> 1, x |-> 3]) : g \in Graphs}
PlainTable == TableFor([n \in Name |-> CASE n = 4 -> {2} [] n = 1 -> {0} [] OTHER -> {}],
                       [main |-> 4, dev |-> 1, x |-> 3])

MCCalls ==
    LET c == [kinds |-> <<"env", "explicit">>, dev |-> TRUE, extras |-> {}, check |-> FALSE,
              template |-> {"platform"}, yml |-> 0, override |-> {}]
    IN  { c,
          [c EXCEPT !.check = TRUE, !.kinds = <<"explicit", "env">>],
          [c EXCEPT !.template = {}],
          [c EXCEPT !.yml = 1],
          [c EXCEPT !.template = {"dev-dependencies"}, !.override = {linux}, !.kinds = <<"explicit">>, !.dev = FALSE, !.extras = {"x"}],
          [c EXCEPT !.template = {"platform", "input-hash"}, !.check = TRUE, !.dev = FALSE, !.kinds = <<"explicit">>] }

(* The other platform's packages are the same in every behaviour. *)
MCInit == Init /\ lock[osx].table = PlainTable /\ \A p \in Platform : lock[p].hash = "h1"
MCSpec == MCInit /\ [][Next]_vars /\ WF_vars(Step)
=============================================================================
