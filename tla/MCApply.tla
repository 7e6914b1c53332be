------------------------------ MODULE MCApply ------------------------------
(***************************************************************************)
(* apply_categories as solve_conda and as solve_pypi call it.               *)
(*                                                                          *)
(* CondaPlans: conda names, one package per name.  Every dependency graph   *)
(* over three packages (cycles included, a requested package that depends   *)
(* on itself excluded), one dependency spelled with another separator, a    *)
(* virtual package, a package that the solution may lack, and requests of   *)
(* several categories.                                                      *)
(*                                                                          *)
(* PipPlans: pip names, a list of packages per name.  The conda packages    *)
(* dask and dask-core share the PyPI name dask, the conda package py-tz is  *)
(* tz on PyPI, and geo is a pip package.  Conda packages arrive with the    *)
(* categories of the conda solve.  The plans in which a requested name      *)
(* needs itself are kept apart in SelfPlans: apply_categories does not come *)
(* back from them.                                                          *)
(***************************************************************************)
EXTENDS ApplyCategories, TLC

MCName    == {"dask", "dask-core", "dask_core", "geo", "tz", "py-tz", "__v"}
MCVirtual == {"__v"}
MCPkg     == {"Dask", "DaskCore", "Geo", "Tz"}
MCOwn     == "Dask" :> "dask" @@ "DaskCore" :> "dask-core"
                @@ "Geo" :> "geo" @@ "Tz" :> "py-tz"
MCManager == [p \in MCPkg |-> IF p = "Geo" THEN "pip" ELSE "conda"]
MCPipName == [n \in MCName |->
                CASE n \in {"dask-core", "dask_core"} -> "dask"
                  [] n = "py-tz" -> "tz"
                  [] OTHER -> n]
MCUnderscored == [n \in MCName |-> IF n = "dask-core" THEN "dask_core" ELSE n]
MCDashed      == [n \in MCName |-> IF n = "dask_core" THEN "dask-core" ELSE n]

Deps(dask, core, geo, tz) ==
    "Dask" :> dask @@ "DaskCore" :> core @@ "Geo" :> geo @@ "Tz" :> tz

CondaRequests == { "dask" :> "dev",
                   "dask" :> "dev" @@ "py-tz" :> "main",
                   "dask" :> "main" @@ "dask-core" :> "dev",
                   "dask" :> "dev" @@ "dask-core" :> "test" @@ "py-tz" :> "test" }

CondaGraphs == {Deps(f, g, {}, h) :
                   f \in SUBSET {"dask_core", "py-tz"},
                   g \in SUBSET {"dask", "dask_core", "py-tz"},
                   h \in {s \union {"__v"} : s \in SUBSET {"dask", "dask_core"}}}

CondaPlans == {[ convert |-> FALSE, present |-> s, deps |-> g, requested |-> r,
                 categories |-> [p \in MCPkg |-> {}] ] :
                    s \in {{"Dask", "DaskCore", "Tz"}, {"Dask", "DaskCore"}},
                    g \in CondaGraphs, r \in CondaRequests}

PipRequests == { "geo" :> "dev" @@ "tz" :> "main",
                 "dask" :> "dev" @@ "geo" :> "main",
                 "tz" :> "dev" @@ "dask" :> "test" @@ "geo" :> "dev" }

PipGraphs == {Deps(f, g, h, k) :
                 f \in SUBSET {"dask-core", "py-tz"},
                 g \in SUBSET {"dask", "geo", "py-tz"},
                 h \in SUBSET {"dask", "tz"},
                 k \in SUBSET {"dask-core"}}

AfterConda == {"Dask" :> {"test"} @@ "DaskCore" :> {"test"} @@ "Tz" :> {d} @@ "Geo" :> {} :
                  d \in {"main", "test"}}

PipPlans == {[ convert |-> TRUE, present |-> MCPkg, deps |-> g, requested |-> r,
               categories |-> c ] :
                  g \in PipGraphs, r \in PipRequests, c \in AfterConda}

PipNameOf(p, d) == IF MCManager[p] = "conda" THEN MCPipName[d] ELSE d
NeedsItself(x)  == \E p \in MCPkg : LET n == PipNameOf(p, MCOwn[p]) IN
                     /\ n \in DOMAIN x.requested
                     /\ \E d \in x.deps[p] : PipNameOf(p, d) = n

MCPlans   == CondaPlans \union {x \in PipPlans : ~NeedsItself(x)}
SelfPlans == {x \in PipPlans : NeedsItself(x) /\ DOMAIN x.requested = {"dask", "geo"}}
=============================================================================
