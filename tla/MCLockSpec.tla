----------------------------- MODULE MCLockSpec -----------------------------
(***************************************************************************)
(* Instances of LockSpec: source files of all kinds.  PyPI calls the conda   *)
(* package 1 by the name 2; 3 is pip, and 4 is python.                      *)
(***************************************************************************)
EXTENDS LockSpec, TLC

MCCondaName == (1 :> 1) @@ (2 :> 1) @@ (3 :> 3) @@ (4 :> 4)

(* Requirements. *)
Req(name, version) ==
    [ name |-> name, version |-> version, form |-> "version", pypi |-> FALSE,
      selector |-> None, marker |-> None ]

Here(e)      == [e EXCEPT !.selector = "here"]
Elsewhere(e) == [e EXCEPT !.selector = "elsewhere"]

(* Two requirements that pip is given, one of them for other platforms.      *)
PipReqs == <<[Req(2, 5) EXCEPT !.marker = "here"], [Req(1, 5) EXCEPT !.marker = "elsewhere"],
             [Req(4, 6) EXCEPT !.form = "editable"]>>

EnvFile(category, specs, pip, channels, repositories) ==
    [ kind |-> "environment", category |-> category, specs |-> specs, pip |-> pip,
      channels |-> channels, repositories |-> repositories ]

MetaFile(outputs, channels) ==
    [kind |-> "meta", outputs |-> outputs, channels |-> channels, repositories |-> <<>>]

Toml ==
    [ kind |-> "pyproject", layout |-> "project", skip |-> FALSE, nonConda |-> Conda,
      main |-> <<>>, dev |-> <<>>, groups |-> <<>>, extras |-> <<>>,
      own |-> <<>>, forced |-> {}, channels |-> <<"c">>, repositories |-> <<>> ]

Group(name, entries) == [name |-> name, entries |-> entries]
Extra(name, names)   == [name |-> name, names |-> names]

EnvFiles ==
    { EnvFile("main", <<Here(Req(4, 1)), Elsewhere(Req(1, 1))>>, <<>>, <<"nodefaults", "c">>, <<>>),
      EnvFile("dev", <<Req(1, 2), Req(3, 2)>>, PipReqs, <<"x", "c">>, <<>>),
      EnvFile("dev", <<Req(1, 2), Req(3, 2)>>, PipReqs, <<"x", "c">>, <<"q", "p">>),
      EnvFile("main", <<Elsewhere(Req(1, 1))>>, <<>>, <<"c">>, <<>>) }

MetaFiles ==
    { MetaFile(<<[run |-> <<Req(1, 1), Elsewhere(Req(4, 1))>>, test |-> <<Req(3, 4)>>],
                 [run |-> <<Req(1, 2)>>, test |-> <<>>]>>, <<>>) }

(* The group "x" and the tags test and dev name what is named elsewhere.     *)
ProjectFiles ==
    { [Toml EXCEPT !.main = <<[Req(2, 1) EXCEPT !.marker = "here"]>>,
                   !.groups = <<Group("x", <<Req(2, 1)>>), Group("y", <<Req(2, 1)>>)>>,
                   !.own = <<Req(4, 3)>>],
      [Toml EXCEPT !.layout = "pdm", !.nonConda = Pip, !.forced = {3},
                   !.main = <<[Req(4, 1) EXCEPT !.marker = "elsewhere"]>>,
                   !.groups = <<Group("test", <<Req(2, 2)>>), Group("dev", <<Req(1, 3)>>)>>,
                   !.dev = <<[Req(4, 2) EXCEPT !.marker = "elsewhere"]>>,
                   !.own = <<Req(3, 3)>>, !.channels = <<"c", "x">>],
      [Toml EXCEPT !.layout = "pdm", !.dev = None] }

PoetryFiles ==
    { [Toml EXCEPT !.layout = "poetry", !.nonConda = Pip,
                   !.main = <<Req(4, 1), Req(2, 1), [Req(1, 5) EXCEPT !.form = "url"]>>,
                   !.dev = <<[Req(3, 7) EXCEPT !.form = "vcs"]>>,
                   !.groups = <<Group("g", <<[Req(1, 2) EXCEPT !.pypi = TRUE, !.marker = "elsewhere"]>>)>>,
                   !.extras = <<Extra("x", {2}), Extra("y", {2, 1})>>,
                   !.repositories = <<"q">>],
      [Toml EXCEPT !.layout = "poetry", !.skip = TRUE, !.main = <<Req(1, 1)>>,
                   !.own = <<Req(4, 1)>>, !.repositories = <<"p">>] }

MCFiles == EnvFiles \union MetaFiles \union ProjectFiles \union PoetryFiles

Virtual(name, version, build) ==
    [name |-> name, version |-> version, build |-> build, numbered |-> FALSE]

MCOsx10 == Virtual("__osx", 10, "")
MCOsx11 == Virtual("__osx", 11, "")
Arch    == Virtual("__archspec", 1, "x86_64")

MCRepos   == {{MCOsx10, Arch}, {MCOsx10, MCOsx11, Arch}}
MCFilters == {None, {"main"}}
MCOverrides == {<< >>, <<"c">>}
=============================================================================
