-------------------------- MODULE MCMakeLockFiles --------------------------
(***************************************************************************)
(* Small instances of MakeLockFiles: two platforms, a conda package python  *)
(* that depends on lib, and a PyPI package wheel.                           *)
(***************************************************************************)
EXTENDS MakeLockFiles, TLC

CONSTANTS python, lib, wheel, A, B

MCDeps    == (python :> {lib}) @@ (lib :> {})
NoDeps    == (python :> {})
Symmetry  == Permutations(Proc)

Src(pls, ch, wants) == [platforms |-> pls, channel |-> ch, wants |-> wants]
All  == Version
Base == Src({1, 2}, A, (python :> All) @@ (wheel :> All))

(* Edits that add and remove packages, Python among them, and platforms,      *)
(* change the channels, and constrain the pip package to what is published    *)
(* and to what is not yet.                                                    *)
EditedSources ==
    { Base,
      Src({1}, A, (lib :> All) @@ (wheel :> All)),
      Src({1, 2}, A, (python :> All) @@ (lib :> All) @@ (wheel :> {1})),
      Src({1, 2}, B, (python :> All) @@ (wheel :> {2})) }

Invoke(pls, update, check, writes) ==
    [platforms |-> pls, update |-> update, check |-> check, writes |-> writes]

EditedCalls ==
    {Invoke(pls, u, FALSE, TRUE) : pls \in {None, {1}}, u \in {{lib}, {python, wheel}, NoUpdate}}
        \union {Invoke(None, {}, check, TRUE) : check \in BOOLEAN}
        \union {Invoke({1}, {}, TRUE, TRUE), Invoke(None, {}, FALSE, FALSE)}

(* An edit of the channels and of the constraint on a conda package. *)
SmallSources == {Src({1, 2}, A, python :> All), Src({1, 2}, B, python :> {1})}

OneSource  == {Base}
OneCall    == {Invoke(None, {}, FALSE, TRUE)}
PipFilter  == OneCall \union {Invoke({1}, {wheel}, FALSE, TRUE)}
ApiCall    == {Invoke(pls, u, FALSE, TRUE) : pls \in {None, {1}}, u \in {{}, NoUpdate}}
=============================================================================
