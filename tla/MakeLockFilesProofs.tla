------------------------ MODULE MakeLockFilesProofs ------------------------
(***************************************************************************)
(* What holds of the lockfile for any platforms, packages, dependencies,    *)
(* sources and invocations, and any number of processes.                    *)
(***************************************************************************)
EXTENDS MakeLockFiles, WellFoundedInduction, TLAPS

(* The fields of the variables that are records. *)
IsRun(r) ==
    r = [ pc |-> r.pc, call |-> r.call, spec |-> r.spec, found |-> r.found,
          origin |-> r.origin, toLock |-> r.toLock, solved |-> r.solved,
          fresh |-> r.fresh, new |-> r.new ]

Shape ==
    /\ run = [p \in Proc |-> run[p]]
    /\ \A p \in Proc : IsRun(run[p])
    /\ lockfile = [state |-> lockfile.state, lock |-> lockfile.lock]
    /\ lockfile.state \in {"absent", "empty", "cut", "whole"}

(* Whatever a run reads or writes has one channel. *)
LockOfOneChannel(lock) ==
    \A x \in lock.pkgs : x.name \in Conda => x.channel = lock.channel

RunOfOneChannel(r) ==
    /\ r.origin # None => LockOfOneChannel(r.origin)
    /\ r.pc \in {"load", "decide"} => r.fresh = {}
    /\ r.pc = "solve" =>
        /\ r.call.update # NoUpdate => ~ChannelsDiffer(r)
        /\ \A x \in r.fresh : x.name \in Conda => x.channel = r.spec.channel
    /\ r.pc \in {"open", "dump"} => LockOfOneChannel(r.new)

ChannelInv ==
    /\ lockfile.state = "whole" => LockOfOneChannel(lockfile.lock)
    /\ \A p \in Proc : RunOfOneChannel(run[p])
-----------------------------------------------------------------------------
LEMMA ShapeInit == Init => Shape
<1>1. IsRun(NewRun)
    BY DEF IsRun, NewRun
<1>2. Init => lockfile.state \in {"absent", "empty", "cut", "whole"}
    BY DEF Init
<1>3. QED
    BY <1>1, <1>2, Zenon DEF Init, Shape

LEMMA ShapeStep ==
    ASSUME Shape, [Next]_vars
    PROVE  Shape'
<1>1. CASE UNCHANGED vars
    BY <1>1 DEF Shape, IsRun, vars
<1>2. ASSUME NEW p \in Proc, Begin(p)
      PROVE  Shape'
    BY <1>2 DEF Shape, IsRun, Begin, NewRun
<1>3. ASSUME NEW p \in Proc, Load(p)
      PROVE  Shape'
    BY <1>3 DEF Shape, IsRun, Load
<1>4. ASSUME NEW p \in Proc, RefuseChannels(p) \/ Decide(p)
      PROVE  Shape'
    BY <1>4 DEF Shape, IsRun, RefuseChannels, Decide
<1>5. ASSUME NEW p \in Proc, Solve(p) \/ SolveFails(p)
      PROVE  Shape'
    BY <1>5 DEF Shape, IsRun, Solve, SolveFails
<1>6. ASSUME NEW p \in Proc, Merge(p) \/ MergeRaises(p)
      PROVE  Shape'
    BY <1>6 DEF Shape, IsRun, Merge, MergeRaises
<1>7. ASSUME NEW p \in Proc, Open(p) \/ Dump(p) \/ Kill(p)
      PROVE  Shape'
    BY <1>7 DEF Shape, IsRun, Open, Dump, Kill
<1>8. CASE Edit \/ Publish
    BY <1>8 DEF Shape, IsRun, Edit, Publish
<1>9. QED
    BY <1>1, <1>2, <1>3, <1>4, <1>5, <1>6, <1>7, <1>8 DEF Next, Step
-----------------------------------------------------------------------------
(* Conda packages come from the channels of the specification, or, in an      *)
(* update, from the locked ones, which the check has found to be the same.    *)
LEMMA SolvedChannel ==
    ASSUME NEW r, RunOfOneChannel(r), r.pc = "solve",
           NEW x \in SolveForArch(r), x.name \in Conda
    PROVE  x.channel = r.spec.channel
<1>1. x \notin SolvePypi(r.spec, NextPlatform(r), Locked(r), Named(r.call))
    BY LockAssumption DEF SolvePypi, Pkg
<1>2. CASE Updates(r) = {}
    BY <1>1, <1>2 DEF SolveForArch, SolveSpecs, Pkg
<1>3. CASE Updates(r) # {}
    <2>1. Named(r.call) # {} /\ Locked(r) # {}
        BY <1>3 DEF Updates, CondaUpdates, NamesIn, On
    <2>2. r.origin # None /\ r.origin.channel = r.spec.channel
        BY <2>1 DEF Named, Locked, RunOfOneChannel, ChannelsDiffer
    <2>3. x \in UpdateSpecs(r.spec, NextPlatform(r), r.origin.pkgs, Updates(r))
        BY <1>1, <1>3, <2>2 DEF SolveForArch, Locked
    <2>4. CASE x \in r.origin.pkgs
        BY <2>2, <2>4 DEF RunOfOneChannel, LockOfOneChannel
    <2>5. CASE x \notin r.origin.pkgs
        BY <2>3, <2>5 DEF UpdateSpecs, On, Pkg
    <2>6. QED
        BY <2>4, <2>5
<1>4. QED
    BY <1>2, <1>3

LEMMA ChannelStep ==
    ASSUME Shape, ChannelInv, [Next]_vars
    PROVE  ChannelInv'
<1> USE DEF ChannelInv
<1>1. CASE UNCHANGED vars
    BY <1>1 DEF vars, RunOfOneChannel, LockOfOneChannel, ChannelsDiffer
<1>2. ASSUME NEW p \in Proc, Begin(p)
      PROVE  ChannelInv'
    BY <1>2 DEF Shape, Begin, NewRun, RunOfOneChannel, LockOfOneChannel, ChannelsDiffer
<1>3. ASSUME NEW p \in Proc, Load(p)
      PROVE  ChannelInv'
    <2>1. run'[p].pc \in {"decide", "ParseError"} /\ run'[p].fresh = run[p].fresh
        BY <1>3 DEF Load, Shape, IsRun
    <2>2. \/ run'[p].origin = None
          \/ lockfile.state = "whole" /\ run'[p].origin = lockfile.lock
        BY <1>3 DEF Load, Shape, IsRun
    <2>3. \A q \in Proc \ {p} : run'[q] = run[q]
        BY <1>3 DEF Load, Shape
    <2>4. RunOfOneChannel(run'[p])
        BY <1>3, <2>1, <2>2 DEF Load, RunOfOneChannel, LockOfOneChannel
    <2>5. QED
        BY <1>3, <2>3, <2>4 DEF Load
<1>4. ASSUME NEW p \in Proc, RefuseChannels(p)
      PROVE  ChannelInv'
    BY <1>4 DEF Shape, IsRun, RefuseChannels, RunOfOneChannel, LockOfOneChannel, ChannelsDiffer
<1>5. ASSUME NEW p \in Proc, Decide(p)
      PROVE  ChannelInv'
    <2>1. PICK todo, pc : /\ pc \in {"done", "solve"}
                          /\ run' = [run EXCEPT ![p].toLock = todo, ![p].pc = pc]
        BY <1>5 DEF Decide
    <2>2. run'[p] = [run[p] EXCEPT !.toLock = todo, !.pc = pc]
        BY <2>1 DEF Shape
    <2>3. run'[p].pc = pc
        BY <2>2 DEF Shape, IsRun
    <2>4. run'[p].fresh = run[p].fresh /\ run'[p].call = run[p].call
        BY <2>2 DEF Shape, IsRun
    <2>5. run'[p].origin = run[p].origin /\ run'[p].spec = run[p].spec
        BY <2>2 DEF Shape, IsRun
    <2>6. RunOfOneChannel(run'[p])
        <3>1. run'[p].fresh = {}
            BY <1>5, <2>4 DEF Decide, RunOfOneChannel
        <3>2. run'[p].call.update # NoUpdate => ~ChannelsDiffer(run'[p])
            BY <1>5, <2>4, <2>5 DEF Decide, ChannelsDiffer
        <3>3. QED
            BY <2>1, <2>3, <2>5, <3>1, <3>2 DEF RunOfOneChannel
    <2>7. \A q \in Proc \ {p} : run'[q] = run[q]
        BY <2>1 DEF Shape
    <2>8. QED
        BY <1>5, <2>6, <2>7 DEF Decide
<1>6. ASSUME NEW p \in Proc, Solve(p)
      PROVE  ChannelInv'
    <2>1. \A x \in SolveForArch(run[p]) : x.name \in Conda => x.channel = run[p].spec.channel
        BY <1>6, SolvedChannel DEF Solve, Solving
    <2>2. QED
        BY <1>6, <2>1
        DEF Shape, IsRun, Solve, Solving, RunOfOneChannel, LockOfOneChannel, ChannelsDiffer
<1>7. ASSUME NEW p \in Proc, SolveFails(p)
      PROVE  ChannelInv'
    <2>1. Outcome(run[p]) \in {"KeyError", "ValueError", "Unsatisfiable", "solved"}
        BY DEF Outcome
    <2>2. QED
        BY <1>7, <2>1
        DEF Shape, IsRun, SolveFails, RunOfOneChannel, LockOfOneChannel, ChannelsDiffer
<1>8. ASSUME NEW p \in Proc, Merge(p)
      PROVE  ChannelInv'
    <2>1. LockOfOneChannel(IF run[p].origin = None THEN FreshLock(run[p]) ELSE Merged(run[p]))
        BY <1>8 DEF Merge, FreshLock, Merged, RunOfOneChannel, LockOfOneChannel, ChannelsDiffer
    <2>2. QED
        BY <1>8, <2>1
        DEF Shape, IsRun, Merge, RunOfOneChannel, LockOfOneChannel, ChannelsDiffer
<1>9. ASSUME NEW p \in Proc, MergeRaises(p)
      PROVE  ChannelInv'
    BY <1>9 DEF Shape, IsRun, MergeRaises, RunOfOneChannel, LockOfOneChannel, ChannelsDiffer
<1>10. ASSUME NEW p \in Proc, Open(p) \/ Dump(p) \/ Kill(p)
       PROVE  ChannelInv'
    BY <1>10 DEF Shape, IsRun, Open, Dump, Kill, RunOfOneChannel, LockOfOneChannel,
                 ChannelsDiffer
<1>11. CASE Edit \/ Publish
    BY <1>11 DEF Edit, Publish, RunOfOneChannel, LockOfOneChannel, ChannelsDiffer
<1>12. QED
    BY <1>1, <1>2, <1>3, <1>4, <1>5, <1>6, <1>7, <1>8, <1>9, <1>10, <1>11 DEF Next, Step

LEMMA ChannelInit == Init => ChannelInv
<1>1. RunOfOneChannel(NewRun)
    BY DEF RunOfOneChannel, NewRun
<1>2. SUFFICES ASSUME Init
               PROVE  ChannelInv
    OBVIOUS
<1>3. \A p \in Proc : run[p] = NewRun
    BY <1>2, Zenon DEF Init
<1>4. lockfile.state # "whole"
    BY <1>2 DEF Init
<1>5. QED
    BY <1>1, <1>3, <1>4 DEF ChannelInv

(* The lockfile never mixes channels, however many processes run, are killed  *)
(* and overwrite each other's lockfile, and whatever is edited in between.    *)
THEOREM ChannelsAreOne == Spec => []OneChannel
<1>1. Init => ChannelInv
    BY ChannelInit
<1>2. Shape /\ ChannelInv /\ [Next]_vars => (Shape /\ ChannelInv)'
    BY ShapeStep, ChannelStep
<1>3. ChannelInv => OneChannel
    BY DEF ChannelInv, OneChannel, LockOfOneChannel
<1>4. QED
    BY <1>1, <1>2, <1>3, ShapeInit, PTL DEF Spec
-----------------------------------------------------------------------------
(* Extrema of sets of natural numbers. *)
LEMMA LeastOfNats ==
    ASSUME NEW S \in SUBSET Nat, S # {}
    PROVE  \E x \in S : \A y \in S : x <= y
<1>1. PICK x \in S : \A y \in S : ~(<<y, x>> \in OpToRel(<, Nat))
    BY NatLessThanWellFounded, WFMin, Zenon
<1>2. \A y \in S : ~(y < x)
    BY <1>1, Zenon DEF OpToRel
<1>3. QED
    BY <1>2

LEMMA MinOfNats ==
    ASSUME NEW S \in SUBSET Nat, S # {}
    PROVE  Min(S) \in S
BY LeastOfNats DEF Min

LEMMA MaxOfNats ==
    ASSUME NEW k \in Nat, NEW S \in SUBSET (0 .. k), S # {}
    PROVE  Max(S) \in S
<1> DEFINE T == {k - x : x \in S}
<1>1. T \in SUBSET Nat /\ T # {}
    <2>1. \A x \in S : x \in 0 .. k
        OBVIOUS
    <2>2. \A x \in S : k - x \in Nat
        BY <2>1
    <2>3. QED
        BY <2>2
<1>2. PICK x \in T : \A y \in T : x <= y
    BY <1>1, LeastOfNats
<1>3. PICK z \in S : x = k - z
    OBVIOUS
<1>4. \A y \in S : z >= y
    <2>1. SUFFICES ASSUME NEW y \in S
                   PROVE  z >= y
        OBVIOUS
    <2>2. y \in 0 .. k /\ z \in 0 .. k
        OBVIOUS
    <2>3. k - y \in T
        OBVIOUS
    <2>4. k - z <= k - y
        BY <1>2, <1>3, <2>3
    <2>5. QED
        BY <2>2, <2>4
<1>5. QED
    BY <1>4 DEF Max

-----------------------------------------------------------------------------
Wants == {s.wants : s \in Sources}

(* What the theorem on hashes assumes of the user: either --update is not      *)
(* used, or the constraints on conda packages are not edited.                  *)
UpdateSafe ==
    \/ \A c \in Calls : Named(c) = {}
    \/ \A v, w \in Wants, n \in Conda : Allowed(v, n) = Allowed(w, n)

LatestType == latest \in [Package -> Nat]

LEMMA WantsType ==
    ASSUME NEW wants \in Wants
    PROVE  /\ DOMAIN wants \subseteq Package
           /\ wants \in [DOMAIN wants -> SUBSET Version]
           /\ CondaNeeds(wants) \subseteq Conda
           /\ Needs(wants) \subseteq Package
<1>1. /\ DOMAIN wants \subseteq Package
      /\ wants \in [DOMAIN wants -> SUBSET Version]
    BY LockAssumption DEF Wants, IsSource
<1>2. CondaNeeds(wants) \subseteq Conda
    BY LockAssumption DEF CondaNeeds
<1>3. QED
    BY <1>1, <1>2 DEF Needs, Package

(* The newest of what a constraint admits is something it admits. *)
LEMMA BestIsAllowed ==
    ASSUME LatestType, NEW wants \in Wants, NEW n \in Package, Candidates(wants, n) # {}
    PROVE  Best(wants, n) \in Allowed(wants, n)
<1>1. Candidates(wants, n) \in SUBSET (0 .. latest[n]) /\ latest[n] \in Nat
    BY DEF LatestType, Candidates
<1>2. Best(wants, n) \in Candidates(wants, n)
    BY <1>1, MaxOfNats DEF Best
<1>3. QED
    BY <1>2 DEF Candidates

-----------------------------------------------------------------------------
(* A lock is honest if all its packages are of platforms with a hash, and     *)
(* each hash is that of a specification which the packages solve.             *)
LockHonest(lock) ==
    /\ \A x \in lock.pkgs : x.platform \in LockedPlatforms(lock)
    /\ \A pl \in LockedPlatforms(lock) :
        lock.hash[pl].wants \in Wants /\ Solves(lock, pl)

(* The conda half of a solution: named, one of each, admitted. *)
CondaSolution(pkgs, wants, pl) ==
    /\ NamesIn(pkgs) = CondaNeeds(wants)
    /\ \A x, y \in pkgs : x.name = y.name => x = y
    /\ \A x \in pkgs : x.version \in Allowed(wants, x.name) /\ x.platform = pl

PipSolution(pkgs, wants, pl) ==
    /\ NamesIn(pkgs) = DOMAIN wants \intersect Pip
    /\ \A x, y \in pkgs : x.name = y.name => x = y
    /\ \A x \in pkgs : x.version \in Allowed(wants, x.name) /\ x.platform = pl

LEMMA HalvesSolve ==
    ASSUME NEW wants \in Wants, NEW pl, NEW S, NEW T, NEW U, U = S \union T,
           CondaSolution(S, wants, pl), PipSolution(T, wants, pl)
    PROVE  Solution(U, wants) /\ \A x \in U : x.platform = pl
<1>1. NamesIn(S) \subseteq Conda /\ NamesIn(T) \subseteq Pip
    BY WantsType DEF CondaSolution, PipSolution
<1>2. \A x \in S, y \in T : x.name # y.name
    BY <1>1, LockAssumption DEF NamesIn
<1>3. NamesIn(S \union T) = Needs(wants)
    BY DEF CondaSolution, PipSolution, NamesIn, Needs
<1>4. \A x, y \in S \union T : x.name = y.name => x = y
    BY <1>2 DEF CondaSolution, PipSolution
<1>5. QED
    BY <1>3, <1>4 DEF Solution, CondaSolution, PipSolution

(* A solve from scratch. *)
LEMMA SolveSpecsSolves ==
    ASSUME LatestType, NEW spec, spec.wants \in Wants, NEW pl,
           \A n \in CondaNeeds(spec.wants) : Candidates(spec.wants, n) # {}
    PROVE  CondaSolution(SolveSpecs(spec, pl), spec.wants, pl)
<1> DEFINE S == SolveSpecs(spec, pl)
<1>1. \A n \in CondaNeeds(spec.wants) : Best(spec.wants, n) \in Allowed(spec.wants, n)
    BY BestIsAllowed, WantsType DEF Package
<1>2. \A x \in S : /\ x.name \in CondaNeeds(spec.wants) /\ x.platform = pl
                    /\ x = Pkg(pl, x.name, Best(spec.wants, x.name), spec.channel)
    BY DEF SolveSpecs, Pkg
<1>3. \A n \in CondaNeeds(spec.wants) : \E x \in S : x.name = n
    <2>1. SUFFICES ASSUME NEW n \in CondaNeeds(spec.wants)
                   PROVE  \E x \in S : x.name = n
        OBVIOUS
    <2>2. Pkg(pl, n, Best(spec.wants, n), spec.channel) \in S
        BY DEF SolveSpecs
    <2>3. Pkg(pl, n, Best(spec.wants, n), spec.channel).name = n
        BY DEF Pkg
    <2>4. QED
        BY <2>2, <2>3
<1>4. NamesIn(S) = CondaNeeds(spec.wants)
    BY <1>2, <1>3 DEF NamesIn
<1>5. \A x \in S : x.version \in Allowed(spec.wants, x.name)
    BY <1>1, <1>2 DEF Pkg
<1>6. QED
    BY <1>2, <1>4, <1>5 DEF CondaSolution

(* An update, of an honest lock whose constraints have not changed. *)
LEMMA UpdateSpecsSolves ==
    ASSUME LatestType, NEW spec, spec.wants \in Wants, NEW pl, NEW locked, NEW names,
           names \subseteq CondaNeeds(spec.wants),
           CondaNeeds(spec.wants) \subseteq NamesIn(On(locked, pl)),
           \A x, y \in On(locked, pl) : x.name = y.name => x = y,
           \A x \in On(locked, pl) : x.name \in Conda =>
               x.version \in Allowed(spec.wants, x.name),
           \A n \in names : Candidates(spec.wants, n) # {}
    PROVE  CondaSolution(UpdateSpecs(spec, pl, locked, names), spec.wants, pl)
<1> DEFINE K == {x \in On(locked, pl) : x.name \in CondaNeeds(spec.wants) \ names}
           F == {Pkg(pl, n, Best(spec.wants, n), spec.channel) : n \in names}
<1>1. UpdateSpecs(spec, pl, locked, names) = K \union F
    BY DEF UpdateSpecs
<1>2. CondaNeeds(spec.wants) \subseteq Conda
    BY WantsType
<1>3. \A n \in names : Best(spec.wants, n) \in Allowed(spec.wants, n)
    BY <1>2, BestIsAllowed DEF Package
<1>4. \A x \in F : /\ x.name \in names /\ x.platform = pl
                    /\ x.version \in Allowed(spec.wants, x.name)
                    /\ x = Pkg(pl, x.name, Best(spec.wants, x.name), spec.channel)
    BY <1>3 DEF Pkg
<1>5. \A x \in K : /\ x.name \in CondaNeeds(spec.wants) \ names /\ x.platform = pl
                    /\ x.version \in Allowed(spec.wants, x.name)
    BY <1>2 DEF On
<1>6. \A n \in CondaNeeds(spec.wants) : \E x \in K \union F : x.name = n
    <2>1. SUFFICES ASSUME NEW n \in CondaNeeds(spec.wants)
                   PROVE  \E x \in K \union F : x.name = n
        OBVIOUS
    <2>2. CASE n \in names
        <3>1. Pkg(pl, n, Best(spec.wants, n), spec.channel) \in F
            BY <2>2
        <3>2. Pkg(pl, n, Best(spec.wants, n), spec.channel).name = n
            BY DEF Pkg
        <3>3. QED
            BY <3>1, <3>2
    <2>3. CASE n \notin names
        <3>1. PICK x \in On(locked, pl) : x.name = n
            BY DEF NamesIn
        <3>2. QED
            BY <2>3, <3>1
    <2>4. QED
        BY <2>2, <2>3
<1>7. NamesIn(K \union F) = CondaNeeds(spec.wants)
    BY <1>4, <1>5, <1>6 DEF NamesIn
<1>8. \A x, y \in K \union F : x.name = y.name => x = y
    BY <1>4, <1>5
<1>9. QED
    BY <1>1, <1>4, <1>5, <1>7, <1>8 DEF CondaSolution

(* Poetry, which keeps what is locked, admitted and not named. *)
LEMMA SolvePypiSolves ==
    ASSUME LatestType, NEW spec, spec.wants \in Wants, NEW pl, NEW locked, NEW names,
           \A n \in DOMAIN spec.wants \intersect Pip :
               Candidates(spec.wants, n) # {} \/ PipKept(spec, names, locked, n) # {}
    PROVE  PipSolution(SolvePypi(spec, pl, locked, names), spec.wants, pl)
<1> DEFINE V(n) == IF PipKept(spec, names, locked, n) = {} THEN Best(spec.wants, n)
                   ELSE (CHOOSE x \in PipKept(spec, names, locked, n) : TRUE).version
           S == SolvePypi(spec, pl, locked, names)
<1>1. \A n \in DOMAIN spec.wants \intersect Pip : V(n) \in Allowed(spec.wants, n)
    <2>1. SUFFICES ASSUME NEW n \in DOMAIN spec.wants \intersect Pip
                   PROVE  V(n) \in Allowed(spec.wants, n)
        OBVIOUS
    <2>2. CASE PipKept(spec, names, locked, n) = {}
        BY <2>2, BestIsAllowed DEF Package
    <2>3. CASE PipKept(spec, names, locked, n) # {}
        <3>1. PICK x \in PipKept(spec, names, locked, n) : V(n) = x.version
            BY <2>3
        <3>2. QED
            BY <3>1 DEF PipKept, Allowed
    <2>4. QED
        BY <2>2, <2>3
<1>2. S = {Pkg(pl, n, V(n), None) : n \in DOMAIN spec.wants \intersect Pip}
    BY DEF SolvePypi
<1> HIDE DEF V, S
<1>3. \A x \in S : /\ x.name \in DOMAIN spec.wants \intersect Pip /\ x.platform = pl
                    /\ x.version \in Allowed(spec.wants, x.name)
                    /\ x = Pkg(pl, x.name, V(x.name), None)
    BY <1>1, <1>2 DEF Pkg
<1>4. \A n \in DOMAIN spec.wants \intersect Pip : \E x \in S : x.name = n
    <2>1. SUFFICES ASSUME NEW n \in DOMAIN spec.wants \intersect Pip
                   PROVE  \E x \in S : x.name = n
        OBVIOUS
    <2>2. Pkg(pl, n, V(n), None) \in S
        BY <1>2
    <2>3. Pkg(pl, n, V(n), None).name = n
        BY DEF Pkg
    <2>4. QED
        BY <2>2, <2>3
<1>5. NamesIn(S) = DOMAIN spec.wants \intersect Pip
    BY <1>3, <1>4 DEF NamesIn
<1>6. QED
    BY <1>3, <1>5 DEF PipSolution, S

-----------------------------------------------------------------------------
(* What a run keeps account of: its arguments; whose packages it has; that    *)
(* what it skips carries the hash of its specification; what it will write.   *)
BookRun(r) ==
    /\ r.pc \in Steps =>
        /\ r.call \in Calls /\ r.spec.wants \in Wants
        /\ r.spec.platforms \subseteq Platform /\ r.spec.platforms # {}
    /\ r.pc \in {"load", "decide"} => r.fresh = {} /\ r.solved = {}
    /\ r.pc \in {"solve", "open", "dump"} =>
        /\ r.toLock # {} /\ r.solved \subseteq r.toLock /\ r.toLock \subseteq r.spec.platforms
        /\ r.origin = None => r.toLock = r.spec.platforms
        /\ r.origin # None => \A pl \in r.spec.platforms \ r.toLock :
               pl \in LockedPlatforms(r.origin) /\ r.origin.hash[pl] = Content(r.spec)
        /\ \A x \in r.fresh : x.platform \in r.solved
    /\ r.pc \in {"open", "dump"} =>
        /\ r.toLock = r.solved /\ r.call.writes
        /\ r.new = IF r.origin = None THEN FreshLock(r) ELSE Merged(r)

BookInv == source \in Sources /\ \A p \in Proc : BookRun(run[p])

LEMMA NextPlatformIsNext ==
    ASSUME NEW r, BookRun(r), Solving(r)
    PROVE  NextPlatform(r) \in r.toLock \ r.solved
<1>1. r.toLock \ r.solved \in SUBSET Nat /\ r.toLock \ r.solved # {}
    BY LockAssumption DEF BookRun, Solving, Steps
<1>2. QED
    BY <1>1, MinOfNats DEF NextPlatform

LEMMA SolvedPlatform ==
    ASSUME NEW r, NEW x \in SolveForArch(r)
    PROVE  x.platform = NextPlatform(r)
BY DEF SolveForArch, SolveSpecs, UpdateSpecs, SolvePypi, On, Pkg

(* The hashes and packages a run will write, platform by platform. *)
LEMMA MergedParts ==
    ASSUME NEW r, BookRun(r), r.pc \in {"solve", "open", "dump"}, r.origin # None,
           r.toLock = r.solved
    PROVE  /\ LockedPlatforms(Merged(r)) = LockedPlatforms(r.origin) \union r.spec.platforms
           /\ \A pl \in r.spec.platforms : Merged(r).hash[pl] = Content(r.spec)
           /\ \A pl \in LockedPlatforms(r.origin) \ r.toLock :
                  Merged(r).hash[pl] = r.origin.hash[pl]
           /\ \A pl \in r.toLock : On(Merged(r).pkgs, pl) = On(r.fresh, pl)
           /\ \A pl : pl \notin r.toLock => On(Merged(r).pkgs, pl) = On(r.origin.pkgs, pl)
           /\ \A x \in Merged(r).pkgs : x \in r.fresh \/ x \in r.origin.pkgs
<1> DEFINE m == Merged(r)
<1>1. /\ DOMAIN FreshLock(r).hash = r.spec.platforms
      /\ \A pl \in r.spec.platforms : FreshLock(r).hash[pl] = Content(r.spec)
    BY DEF FreshLock, Hashes
<1>2. m.pkgs = {x \in r.origin.pkgs : x.platform \notin r.toLock} \union r.fresh
    BY DEF Merged
<1>3. /\ LockedPlatforms(m) = LockedPlatforms(r.origin) \union r.spec.platforms
      /\ \A pl \in r.spec.platforms : m.hash[pl] = Content(r.spec)
      /\ \A pl \in LockedPlatforms(r.origin) \ r.spec.platforms : m.hash[pl] = r.origin.hash[pl]
    BY <1>1 DEF Merged, MergeHashes, LockedPlatforms
<1> HIDE DEF m
<1>4. /\ \A x \in r.fresh : x.platform \in r.toLock
      /\ \A pl \in r.spec.platforms \ r.toLock : r.origin.hash[pl] = Content(r.spec)
    BY DEF BookRun
<1>5. \A pl \in LockedPlatforms(r.origin) \ r.toLock : m.hash[pl] = r.origin.hash[pl]
    BY <1>3, <1>4
<1>6. \A pl \in r.toLock : On(m.pkgs, pl) = On(r.fresh, pl)
    BY <1>2 DEF On
<1>7. \A pl : pl \notin r.toLock => On(m.pkgs, pl) = On(r.origin.pkgs, pl)
    BY <1>2, <1>4 DEF On
<1>8. QED
    BY <1>2, <1>3, <1>5, <1>6, <1>7 DEF m

(* A step of one run leaves the others alone. *)
LEMMA BookFrame ==
    ASSUME BookInv, NEW p \in Proc, BookRun(run'[p]),
           \A q \in Proc \ {p} : run'[q] = run[q], source' = source
    PROVE  BookInv'
BY DEF BookInv

LEMMA BookStep ==
    ASSUME Shape, BookInv, [Next]_vars
    PROVE  BookInv'
<1>0. source \in Sources /\ \A p \in Proc : BookRun(run[p])
    BY DEF BookInv
<1>1. CASE UNCHANGED vars
    BY <1>0, <1>1 DEF vars, BookInv
<1>2. ASSUME NEW p \in Proc, Begin(p)
      PROVE  BookInv'
    <2>1. PICK c \in Calls : run'[p] =
            [NewRun EXCEPT !.pc = "load", !.call = c,
                !.spec = IF c.platforms = None THEN source
                         ELSE [source EXCEPT !.platforms = c.platforms]]
        BY <1>2 DEF Begin, Shape
    <2>2. /\ source.wants \in Wants
          /\ source.platforms \subseteq Platform /\ source.platforms # {}
        BY <1>0, LockAssumption DEF Wants, IsSource
    <2>3. c.platforms # None => c.platforms \subseteq Platform /\ c.platforms # {}
        BY LockAssumption DEF IsCall
    <2>4. run'[p].spec = IF c.platforms = None THEN source
                         ELSE [source EXCEPT !.platforms = c.platforms]
        BY <2>1 DEF NewRun
    <2>5. /\ run'[p].spec.wants \in Wants
          /\ run'[p].spec.platforms \subseteq Platform /\ run'[p].spec.platforms # {}
        BY <2>2, <2>3, <2>4
    <2>6. BookRun(run'[p])
        BY <2>1, <2>5 DEF NewRun, BookRun
    <2>7. \A q \in Proc \ {p} : run'[q] = run[q]
        BY <1>2 DEF Begin, Shape
    <2>8. QED
        BY <1>2, <2>6, <2>7, BookFrame DEF Begin
<1>3. ASSUME NEW p \in Proc, Load(p)
      PROVE  BookInv'
    <2>1. /\ run'[p].pc \in {"decide", "ParseError"}
          /\ run'[p].fresh = run[p].fresh /\ run'[p].solved = run[p].solved
          /\ run'[p].call = run[p].call /\ run'[p].spec = run[p].spec
        BY <1>3 DEF Load, Shape, IsRun
    <2>2. BookRun(run'[p])
        BY <1>0, <1>3, <2>1 DEF Load, BookRun, Steps
    <2>3. \A q \in Proc \ {p} : run'[q] = run[q]
        BY <1>3 DEF Load, Shape
    <2>4. QED
        BY <1>3, <2>2, <2>3, BookFrame DEF Load
<1>4. ASSUME NEW p \in Proc, RefuseChannels(p) \/ MergeRaises(p) \/ SolveFails(p)
      PROVE  BookInv'
    <2>1. Outcome(run[p]) \in {"KeyError", "ValueError", "Unsatisfiable", "solved"}
        BY DEF Outcome
    <2>2. run'[p].pc \notin Steps
        BY <1>4, <2>1 DEF RefuseChannels, MergeRaises, SolveFails, Shape, IsRun, Steps
    <2>3. BookRun(run'[p])
        BY <2>2 DEF BookRun, Steps
    <2>4. \A q \in Proc \ {p} : run'[q] = run[q]
        BY <1>4 DEF RefuseChannels, MergeRaises, SolveFails, Shape
    <2>5. QED
        BY <1>4, <2>3, <2>4, BookFrame DEF RefuseChannels, MergeRaises, SolveFails
<1>5. ASSUME NEW p \in Proc, Decide(p)
      PROVE  BookInv'
    <2> DEFINE todo == PlatformsToLock(run[p])
    <2>1. run' = [run EXCEPT ![p].toLock = todo,
                             ![p].pc = IF todo = {} THEN "done" ELSE "solve"]
        BY <1>5 DEF Decide
    <2>2. /\ todo \subseteq run[p].spec.platforms
          /\ run[p].origin = None => todo = run[p].spec.platforms
          /\ run[p].origin # None => \A pl \in run[p].spec.platforms \ todo :
                 /\ pl \in LockedPlatforms(run[p].origin)
                 /\ run[p].origin.hash[pl] = Content(run[p].spec)
        BY DEF PlatformsToLock
    <2> HIDE DEF todo
    <2>3. run'[p] = [run[p] EXCEPT !.toLock = todo,
                                   !.pc = IF todo = {} THEN "done" ELSE "solve"]
        BY <2>1 DEF Shape
    <2>4. /\ run'[p].pc = (IF todo = {} THEN "done" ELSE "solve") /\ run'[p].toLock = todo
          /\ run'[p].fresh = run[p].fresh /\ run'[p].solved = run[p].solved
          /\ run'[p].origin = run[p].origin
          /\ run'[p].call = run[p].call /\ run'[p].spec = run[p].spec
        BY <2>3 DEF Shape, IsRun
    <2>5. run[p].fresh = {} /\ run[p].solved = {}
        BY <1>0, <1>5 DEF Decide, BookRun
    <2>6. /\ run[p].call \in Calls /\ run[p].spec.wants \in Wants
          /\ run[p].spec.platforms \subseteq Platform /\ run[p].spec.platforms # {}
        BY <1>0, <1>5 DEF Decide, BookRun, Steps
    <2>7. BookRun(run'[p])
        BY <2>2, <2>4, <2>5, <2>6 DEF BookRun, Steps
    <2>8. \A q \in Proc \ {p} : run'[q] = run[q]
        BY <2>1 DEF Shape
    <2>9. QED
        BY <1>5, <2>7, <2>8, BookFrame DEF Decide
<1>6. ASSUME NEW p \in Proc, Solve(p)
      PROVE  BookInv'
    <2> DEFINE r   == run[p]
               pl  == NextPlatform(r)
               new == SolveForArch(r)
    <2>1. BookRun(r) /\ r.pc = "solve" /\ pl \in r.toLock
        BY <1>0, <1>6, NextPlatformIsNext DEF Solve, Solving
    <2>2. \A x \in new : x.platform = pl
        BY SolvedPlatform
    <2>3. run'[p] = [r EXCEPT !.solved = r.solved \union {pl}, !.fresh = r.fresh \union new]
        BY <1>6 DEF Solve, Shape
    <2> HIDE DEF pl, new
    <2>4. /\ run'[p].pc = "solve" /\ run'[p].toLock = r.toLock
          /\ run'[p].fresh = r.fresh \union new /\ run'[p].solved = r.solved \union {pl}
          /\ run'[p].origin = r.origin /\ run'[p].call = r.call /\ run'[p].spec = r.spec
        BY <2>1, <2>3 DEF Shape, IsRun
    <2>5. BookRun(run'[p])
        BY <2>1, <2>2, <2>4 DEF BookRun, Steps
    <2>6. \A q \in Proc \ {p} : run'[q] = run[q]
        BY <1>6 DEF Solve, Shape
    <2>7. QED
        BY <1>6, <2>5, <2>6, BookFrame DEF Solve
<1>7. ASSUME NEW p \in Proc, Merge(p)
      PROVE  BookInv'
    <2> DEFINE r   == run[p]
               new == IF r.origin = None THEN FreshLock(r) ELSE Merged(r)
               pc  == IF r.call.writes THEN "open" ELSE "done"
    <2>1. BookRun(r) /\ r.pc = "solve" /\ r.toLock = r.solved
        BY <1>0, <1>7 DEF Merge
    <2>2. run'[p] = [r EXCEPT !.new = new, !.pc = pc]
        BY <1>7 DEF Merge, Shape
    <2>3. pc = "done" \/ (pc = "open" /\ r.call.writes)
        <3>1. CASE r.call.writes
            BY <3>1
        <3>2. CASE ~r.call.writes
            BY <3>2
        <3>3. QED
            BY <3>1, <3>2
    <2> HIDE DEF new, pc
    <2>4. /\ run'[p].pc = pc /\ run'[p].new = new /\ run'[p].origin = r.origin
          /\ run'[p].call = r.call /\ run'[p].spec = r.spec /\ run'[p].fresh = r.fresh
          /\ run'[p].toLock = r.toLock /\ run'[p].solved = r.solved
        BY <2>2 DEF Shape, IsRun
    <2>5. new = IF run'[p].origin = None THEN FreshLock(run'[p]) ELSE Merged(run'[p])
        BY <2>4 DEF new, FreshLock, Merged
    <2>6. BookRun(run'[p])
        BY <2>1, <2>3, <2>4, <2>5 DEF BookRun, Steps
    <2>7. \A q \in Proc \ {p} : run'[q] = run[q]
        BY <1>7 DEF Merge, Shape
    <2>8. QED
        BY <1>7, <2>6, <2>7, BookFrame DEF Merge
<1>8. ASSUME NEW p \in Proc, Open(p)
      PROVE  BookInv'
    <2> DEFINE r == run[p]
    <2>1. BookRun(r) /\ r.pc = "open"
        BY <1>0, <1>8 DEF Open
    <2>2. run'[p] = [r EXCEPT !.pc = "dump"]
        BY <1>8 DEF Open, Shape
    <2>3. /\ run'[p].pc = "dump" /\ run'[p].new = r.new /\ run'[p].origin = r.origin
          /\ run'[p].call = r.call /\ run'[p].spec = r.spec /\ run'[p].fresh = r.fresh
          /\ run'[p].toLock = r.toLock /\ run'[p].solved = r.solved
        BY <2>2 DEF Shape, IsRun
    <2>4. FreshLock(run'[p]) = FreshLock(r) /\ Merged(run'[p]) = Merged(r)
        BY <2>3 DEF FreshLock, Merged
    <2>5. BookRun(run'[p])
        BY <2>1, <2>3, <2>4 DEF BookRun, Steps
    <2>6. \A q \in Proc \ {p} : run'[q] = run[q]
        BY <1>8 DEF Open, Shape
    <2>7. QED
        BY <1>8, <2>5, <2>6, BookFrame DEF Open
<1>9. ASSUME NEW p \in Proc, Dump(p) \/ Kill(p)
      PROVE  BookInv'
    <2>1. run'[p].pc \notin Steps
        BY <1>9 DEF Dump, Kill, Shape, IsRun, Steps
    <2>2. BookRun(run'[p])
        BY <2>1 DEF BookRun, Steps
    <2>3. \A q \in Proc \ {p} : run'[q] = run[q]
        BY <1>9 DEF Dump, Kill, Shape
    <2>4. QED
        BY <1>9, <2>2, <2>3, BookFrame DEF Dump, Kill
<1>10. CASE Edit \/ Publish
    BY <1>0, <1>10 DEF Edit, Publish, BookInv
<1>11. QED
    BY <1>1, <1>2, <1>3, <1>4, <1>5, <1>6, <1>7, <1>8, <1>9, <1>10 DEF Next, Step

LEMMA BookInit == Init => BookInv
<1>1. SUFFICES ASSUME Init
               PROVE  BookInv
    OBVIOUS
<1>2. BookRun(NewRun)
    BY DEF BookRun, NewRun, Steps
<1>3. \A p \in Proc : run[p] = NewRun
    BY <1>1, Zenon DEF Init
<1>4. QED
    BY <1>1, <1>2, <1>3 DEF Init, BookInv

-----------------------------------------------------------------------------
(* Types: every package is one that exists, in a version that may be          *)
(* published, and on a platform that is locked.                               *)
Typed(x) == x.name \in Package /\ x.version \in Version

LockTyped(lock) ==
    /\ \A pl \in LockedPlatforms(lock) : pl \in Platform /\ lock.hash[pl].wants \in Wants
    /\ \A x \in lock.pkgs : x.platform \in LockedPlatforms(lock) /\ Typed(x)

RunTyped(r) ==
    /\ r.pc \in Ends \union Steps
    /\ r.solved \subseteq r.toLock /\ r.toLock \subseteq Platform
    /\ r.origin # None => LockTyped(r.origin)
    /\ \A x \in r.fresh : Typed(x)
    /\ r.new # None => LockTyped(r.new)

TypeInv ==
    /\ latest \in [Package -> Version]
    /\ runs \in 0 .. MaxRuns
    /\ lockfile.lock # None => LockTyped(lockfile.lock)
    /\ \A p \in Proc : RunTyped(run[p])

LEMMA TypedIsLock ==
    ASSUME NEW lock, LockTyped(lock)
    PROVE  IsLock(lock)
<1>1. ASSUME NEW pl \in LockedPlatforms(lock)
      PROVE  IsSource([platforms |-> {pl}, wants |-> lock.hash[pl].wants])
    <2>1. pl \in Platform /\ lock.hash[pl].wants \in Wants
        BY DEF LockTyped
    <2>2. QED
        BY <2>1, WantsType DEF IsSource
<1>2. QED
    BY <1>1 DEF LockTyped, IsLock, LockedPlatforms, Typed

(* What a solve returns is typed, whatever the update. *)
LEMMA SolvedTyped ==
    ASSUME latest \in [Package -> Version], NEW r, BookRun(r), RunTyped(r),
           r.pc = "solve", Outcome(r) = "solved", NEW x \in SolveForArch(r)
    PROVE  Typed(x)
<1> DEFINE w == r.spec.wants
           pl == NextPlatform(r)
<1>1. /\ w \in Wants /\ DOMAIN w \subseteq Package /\ CondaNeeds(w) \subseteq Conda
      /\ w \in [DOMAIN w -> SUBSET Version]
    BY WantsType DEF BookRun, Steps
<1>2. \A n : Allowed(w, n) \subseteq Version
    BY <1>1 DEF Allowed
<1>3. LatestType
    BY DEF LatestType, Version
<1>4. \A n \in Package : Candidates(w, n) # {} => Best(w, n) \in Version
    BY <1>1, <1>2, <1>3, BestIsAllowed
<1>5. ~SpecMissing(r) /\ ~CondaUnsatisfiable(r) /\ ~PipUnsatisfiable(r)
    BY DEF Outcome
<1>6. \A y \in Locked(r) : Typed(y)
    BY DEF Locked, RunTyped, LockTyped
<1>7. CASE x \in SolvePypi(r.spec, pl, Locked(r), Named(r.call))
    <2> DEFINE Kept(n) == PipKept(r.spec, Named(r.call), Locked(r), n)
    <2>1. PICK n \in DOMAIN w \intersect Pip :
            x = Pkg(pl, n, IF Kept(n) = {} THEN Best(w, n)
                           ELSE (CHOOSE y \in Kept(n) : TRUE).version, None)
        BY <1>7 DEF SolvePypi
    <2>2. CASE Kept(n) = {}
        <3>1. Candidates(w, n) # {}
            BY <1>5, <2>2 DEF PipUnsatisfiable
        <3>2. QED
            BY <1>1, <1>4, <2>1, <2>2, <3>1 DEF Typed, Pkg
    <2>3. CASE Kept(n) # {}
        <3>1. PICK y \in Kept(n) : x = Pkg(pl, n, y.version, None)
            BY <2>1, <2>3
        <3>2. y \in Locked(r)
            BY <3>1 DEF PipKept
        <3>3. QED
            BY <1>1, <1>6, <2>1, <3>1, <3>2 DEF Typed, Pkg
    <2>4. QED
        BY <2>2, <2>3
<1>8. CASE Updates(r) = {} /\ x \in SolveSpecs(r.spec, pl)
    <2>1. PICK n \in CondaNeeds(w) : x = Pkg(pl, n, Best(w, n), r.spec.channel)
        BY <1>8 DEF SolveSpecs
    <2>2. Candidates(w, n) # {}
        BY <1>5, <1>8 DEF CondaUnsatisfiable
    <2>3. n \in Package
        BY <1>1 DEF Package
    <2>4. QED
        BY <1>4, <2>1, <2>2, <2>3 DEF Typed, Pkg
<1>9. CASE Updates(r) # {} /\ x \in UpdateSpecs(r.spec, pl, Locked(r), Updates(r))
    <2>1. CASE x \in Locked(r)
        BY <1>6, <2>1
    <2>2. CASE \E n \in Updates(r) : x = Pkg(pl, n, Best(w, n), r.spec.channel)
        <3>1. PICK n \in Updates(r) : x = Pkg(pl, n, Best(w, n), r.spec.channel)
            BY <2>2
        <3>2. n \in Package /\ Candidates(w, n) # {}
            BY <1>5, <1>9 DEF Updates, CondaUpdates, Package, CondaUnsatisfiable
        <3>3. QED
            BY <1>4, <3>1, <3>2 DEF Typed, Pkg
    <2>3. QED
        BY <1>9, <2>1, <2>2 DEF UpdateSpecs, On
<1>10. QED
    BY <1>7, <1>8, <1>9 DEF SolveForArch

LEMMA MergeIsTyped ==
    ASSUME NEW r, BookRun(r), RunTyped(r), r.pc = "solve", r.toLock = r.solved
    PROVE  LockTyped(IF r.origin = None THEN FreshLock(r) ELSE Merged(r))
<1>1. /\ r.spec.wants \in Wants /\ r.spec.platforms \subseteq Platform
      /\ \A x \in r.fresh : x.platform \in r.spec.platforms /\ Typed(x)
    BY DEF BookRun, RunTyped, Steps
<1>2. CASE r.origin = None
    <2>1. /\ LockedPlatforms(FreshLock(r)) = r.spec.platforms /\ FreshLock(r).pkgs = r.fresh
          /\ \A pl \in r.spec.platforms : FreshLock(r).hash[pl].wants = r.spec.wants
        BY DEF FreshLock, Hashes, Content, LockedPlatforms
    <2>2. LockTyped(FreshLock(r))
        BY <1>1, <2>1 DEF LockTyped
    <2>3. QED
        BY <1>2, <2>2
<1>3. CASE r.origin # None
    <2> DEFINE m == Merged(r)
    <2>1. LockTyped(r.origin)
        BY <1>3 DEF RunTyped
    <2>2. /\ LockedPlatforms(m) = LockedPlatforms(r.origin) \union r.spec.platforms
          /\ \A pl \in r.spec.platforms : m.hash[pl] = Content(r.spec)
          /\ \A pl \in LockedPlatforms(r.origin) \ r.toLock : m.hash[pl] = r.origin.hash[pl]
          /\ \A x \in m.pkgs : x \in r.fresh \/ x \in r.origin.pkgs
        BY <1>3, MergedParts
    <2>3. r.toLock \subseteq r.spec.platforms /\ Content(r.spec).wants = r.spec.wants
        BY DEF BookRun, Content
    <2> HIDE DEF m
    <2>4. LockTyped(m)
        BY <1>1, <2>1, <2>2, <2>3 DEF LockTyped
    <2>5. QED
        BY <1>3, <2>4 DEF m
<1>4. QED
    BY <1>2, <1>3

LEMMA TypeFrame ==
    ASSUME TypeInv, NEW p \in Proc, RunTyped(run'[p]),
           \A q \in Proc \ {p} : run'[q] = run[q], latest' = latest,
           runs' \in 0 .. MaxRuns, lockfile'.lock # None => LockTyped(lockfile'.lock)
    PROVE  TypeInv'
BY DEF TypeInv

LEMMA TypeStep ==
    ASSUME Shape, BookInv, TypeInv, [Next]_vars
    PROVE  TypeInv'
<1>0. /\ latest \in [Package -> Version] /\ runs \in 0 .. MaxRuns
      /\ lockfile.lock # None => LockTyped(lockfile.lock)
      /\ \A p \in Proc : BookRun(run[p]) /\ RunTyped(run[p])
    BY DEF BookInv, TypeInv
<1>1. CASE UNCHANGED vars
    BY <1>1 DEF vars, TypeInv
<1>2. ASSUME NEW p \in Proc, Begin(p)
      PROVE  TypeInv'
    <2>1. PICK c \in Calls : run'[p] =
            [NewRun EXCEPT !.pc = "load", !.call = c,
                !.spec = IF c.platforms = None THEN source
                         ELSE [source EXCEPT !.platforms = c.platforms]]
        BY <1>2 DEF Begin, Shape
    <2>2. RunTyped(run'[p])
        BY <2>1 DEF NewRun, RunTyped, Steps
    <2>3. runs' \in 0 .. MaxRuns
        BY <1>0, <1>2, LockAssumption DEF Begin
    <2>4. \A q \in Proc \ {p} : run'[q] = run[q]
        BY <1>2 DEF Begin, Shape
    <2>5. QED
        BY <1>0, <1>2, <2>2, <2>3, <2>4, TypeFrame DEF Begin
<1>3. ASSUME NEW p \in Proc, Load(p)
      PROVE  TypeInv'
    <2>1. /\ run'[p].pc \in {"decide", "ParseError"} /\ run'[p].toLock = run[p].toLock
          /\ run'[p].solved = run[p].solved /\ run'[p].fresh = run[p].fresh
          /\ run'[p].new = run[p].new /\ run'[p].origin \in {None, lockfile.lock}
        BY <1>3 DEF Load, Shape, IsRun
    <2>2. RunTyped(run'[p])
        BY <1>0, <2>1 DEF RunTyped, Steps, Ends, Failures
    <2>3. \A q \in Proc \ {p} : run'[q] = run[q]
        BY <1>3 DEF Load, Shape
    <2>4. QED
        BY <1>0, <1>3, <2>2, <2>3, TypeFrame DEF Load
<1>4. ASSUME NEW p \in Proc,
             RefuseChannels(p) \/ MergeRaises(p) \/ SolveFails(p) \/ Open(p) \/ Dump(p) \/ Kill(p)
      PROVE  TypeInv'
    <2>1. Outcome(run[p]) \in {"KeyError", "ValueError", "Unsatisfiable", "solved"}
        BY DEF Outcome
    <2>2. /\ run'[p].pc \in Ends \union Steps /\ run'[p].toLock = run[p].toLock
          /\ run'[p].solved = run[p].solved /\ run'[p].fresh = run[p].fresh
          /\ run'[p].new = run[p].new /\ run'[p].origin = run[p].origin
        BY <1>4, <2>1 DEF RefuseChannels, MergeRaises, SolveFails, Open, Dump, Kill,
                          Shape, IsRun, Steps, Ends, Failures
    <2>3. RunTyped(run'[p])
        BY <1>0, <2>2 DEF RunTyped
    <2>4. \A q \in Proc \ {p} : run'[q] = run[q]
        BY <1>4 DEF RefuseChannels, MergeRaises, SolveFails, Open, Dump, Kill, Shape
    <2>5. lockfile'.lock \in {lockfile.lock, run[p].new}
        BY <1>4 DEF RefuseChannels, MergeRaises, SolveFails, Open, Dump, Kill, Shape
    <2>6. run[p].new # None => LockTyped(run[p].new)
        BY <1>0 DEF RunTyped
    <2>7. latest' = latest /\ runs' = runs
        BY <1>4 DEF RefuseChannels, MergeRaises, SolveFails, Open, Dump, Kill
    <2>8. lockfile'.lock # None => LockTyped(lockfile'.lock)
        BY <1>0, <2>5, <2>6
    <2>9. QED
        BY <1>0, <2>3, <2>4, <2>7, <2>8, TypeFrame
<1>5. ASSUME NEW p \in Proc, Decide(p)
      PROVE  TypeInv'
    <2> DEFINE r    == run[p]
               todo == PlatformsToLock(r)
    <2>1. run'[p] = [r EXCEPT !.toLock = todo, !.pc = IF todo = {} THEN "done" ELSE "solve"]
        BY <1>5 DEF Decide, Shape
    <2>2. BookRun(r) /\ RunTyped(r) /\ r.pc = "decide" /\ todo \subseteq r.spec.platforms
        BY <1>0, <1>5 DEF Decide, PlatformsToLock
    <2> HIDE DEF todo
    <2>3. /\ run'[p].pc \in {"done", "solve"} /\ run'[p].toLock = todo
          /\ run'[p].solved = r.solved /\ run'[p].fresh = r.fresh
          /\ run'[p].new = r.new /\ run'[p].origin = r.origin
        BY <2>1 DEF Shape, IsRun
    <2>4. r.solved = {} /\ todo \subseteq Platform
        BY <2>2 DEF BookRun, Steps
    <2>5. RunTyped(run'[p])
        BY <2>2, <2>3, <2>4 DEF RunTyped, Steps, Ends
    <2>6. \A q \in Proc \ {p} : run'[q] = run[q]
        BY <1>5 DEF Decide, Shape
    <2>7. QED
        BY <1>0, <1>5, <2>5, <2>6, TypeFrame DEF Decide
<1>6. ASSUME NEW p \in Proc, Solve(p)
      PROVE  TypeInv'
    <2> DEFINE r   == run[p]
               pl  == NextPlatform(r)
               new == SolveForArch(r)
    <2>1. BookRun(r) /\ RunTyped(r) /\ r.pc = "solve" /\ Solving(r) /\ Outcome(r) = "solved"
        BY <1>0, <1>6 DEF Solve, Solving
    <2>2. pl \in r.toLock /\ \A x \in new : Typed(x)
        BY <1>0, <2>1, NextPlatformIsNext, SolvedTyped
    <2>3. run'[p] = [r EXCEPT !.solved = r.solved \union {pl}, !.fresh = r.fresh \union new]
        BY <1>6 DEF Solve, Shape
    <2> HIDE DEF pl, new
    <2>4. /\ run'[p].pc = r.pc /\ run'[p].toLock = r.toLock
          /\ run'[p].solved = r.solved \union {pl} /\ run'[p].fresh = r.fresh \union new
          /\ run'[p].new = r.new /\ run'[p].origin = r.origin
        BY <2>3 DEF Shape, IsRun
    <2>5. RunTyped(run'[p])
        BY <2>1, <2>2, <2>4 DEF RunTyped
    <2>6. \A q \in Proc \ {p} : run'[q] = run[q]
        BY <1>6 DEF Solve, Shape
    <2>7. QED
        BY <1>0, <1>6, <2>5, <2>6, TypeFrame DEF Solve
<1>7. ASSUME NEW p \in Proc, Merge(p)
      PROVE  TypeInv'
    <2> DEFINE r   == run[p]
               new == IF r.origin = None THEN FreshLock(r) ELSE Merged(r)
               pc  == IF r.call.writes THEN "open" ELSE "done"
    <2>1. BookRun(r) /\ RunTyped(r) /\ r.pc = "solve" /\ r.toLock = r.solved
        BY <1>0, <1>7 DEF Merge
    <2>2. LockTyped(new) /\ pc \in {"open", "done"}
        BY <2>1, MergeIsTyped
    <2>3. run'[p] = [r EXCEPT !.new = new, !.pc = pc]
        BY <1>7 DEF Merge, Shape
    <2> HIDE DEF new, pc
    <2>4. /\ run'[p].pc = pc /\ run'[p].toLock = r.toLock
          /\ run'[p].solved = r.solved /\ run'[p].fresh = r.fresh
          /\ run'[p].new = new /\ run'[p].origin = r.origin
        BY <2>3 DEF Shape, IsRun
    <2>5. RunTyped(run'[p])
        BY <2>1, <2>2, <2>4 DEF RunTyped, Steps, Ends
    <2>6. \A q \in Proc \ {p} : run'[q] = run[q]
        BY <1>7 DEF Merge, Shape
    <2>7. QED
        BY <1>0, <1>7, <2>5, <2>6, TypeFrame DEF Merge
<1>8. CASE Edit
    BY <1>8 DEF Edit, TypeInv
<1>9. CASE Publish
    <2>1. latest' \in [Package -> Version]
        BY <1>0, <1>9, LockAssumption DEF Publish, Version
    <2>2. QED
        BY <1>9, <2>1 DEF Publish, TypeInv
<1>10. QED
    BY <1>1, <1>2, <1>3, <1>4, <1>5, <1>6, <1>7, <1>8, <1>9 DEF Next, Step

LEMMA TypeInit == Init => TypeInv
<1>1. SUFFICES ASSUME Init
               PROVE  TypeInv
    OBVIOUS
<1>2. RunTyped(NewRun)
    BY DEF RunTyped, NewRun, Ends
<1>3. \A p \in Proc : run[p] = NewRun
    BY <1>1, Zenon DEF Init
<1>4. latest \in [Package -> Version] /\ runs \in 0 .. MaxRuns /\ lockfile.lock = None
    BY <1>1, LockAssumption DEF Init, Version
<1>5. QED
    BY <1>2, <1>3, <1>4 DEF TypeInv

(* Every package in the lockfile exists, in a version that may be published,  *)
(* and on a platform the lockfile has a hash for.                             *)
THEOREM LockTypesAreKept == Spec => []TypeOK
<1>1. Shape /\ BookInv /\ TypeInv /\ [Next]_vars => (Shape /\ BookInv /\ TypeInv)'
    BY ShapeStep, BookStep, TypeStep
<1>2. Shape /\ BookInv /\ TypeInv => TypeOK
    BY TypedIsLock DEF Shape, BookInv, TypeInv, RunTyped, TypeOK
<1>3. QED
    BY <1>1, <1>2, ShapeInit, BookInit, TypeInit, PTL DEF Spec
-----------------------------------------------------------------------------
(* What a run knows of honesty: the lock it has read and the one it will      *)
(* write are honest, and what it has solved is solved.                        *)
RunHonest(r) ==
    /\ r.origin # None => LockHonest(r.origin)
    /\ r.pc = "solve" => \A pl \in r.solved : Solution(On(r.fresh, pl), r.spec.wants)
    /\ r.pc \in {"open", "dump"} => LockHonest(r.new)

HonestInv ==
    /\ LatestType
    /\ lockfile.state = "whole" => LockHonest(lockfile.lock)
    /\ \A p \in Proc : RunHonest(run[p])

(* One platform's solve returns a solution. *)
LEMMA SolveForArchSolves ==
    ASSUME LatestType, UpdateSafe, NEW r, BookRun(r), RunHonest(r), r.pc = "solve",
           Outcome(r) = "solved"
    PROVE  Solution(SolveForArch(r), r.spec.wants)
<1> DEFINE pl == NextPlatform(r)
<1>1. r.call \in Calls /\ r.spec.wants \in Wants
    BY DEF BookRun, Steps
<1>2. ~SpecMissing(r) /\ ~CondaUnsatisfiable(r) /\ ~PackageMissing(r) /\ ~PipUnsatisfiable(r)
    BY DEF Outcome
<1>3. PipSolution(SolvePypi(r.spec, pl, Locked(r), Named(r.call)), r.spec.wants, pl)
    BY <1>1, <1>2, SolvePypiSolves DEF PipUnsatisfiable
<1>4. CASE Updates(r) = {}
    <2>1. CondaSolution(SolveSpecs(r.spec, pl), r.spec.wants, pl)
        BY <1>1, <1>2, <1>4, SolveSpecsSolves DEF CondaUnsatisfiable
    <2>2. SolveForArch(r) = SolveSpecs(r.spec, pl)
                \union SolvePypi(r.spec, pl, Locked(r), Named(r.call))
        BY <1>4 DEF SolveForArch
    <2>3. QED
        BY <1>1, <1>3, <2>1, <2>2, HalvesSolve
<1>5. CASE Updates(r) # {}
    <2>1. Named(r.call) # {} /\ Updates(r) \subseteq Conda /\ On(Locked(r), pl) # {}
        BY <1>5 DEF Updates, CondaUpdates, NamesIn
    <2>2. \A v, w \in Wants, n \in Conda : Allowed(v, n) = Allowed(w, n)
        BY <1>1, <2>1 DEF UpdateSafe
    <2>3. r.origin # None /\ Locked(r) = r.origin.pkgs
        BY <2>1 DEF Locked, On
    <2>4. pl \in LockedPlatforms(r.origin)
        BY <2>1, <2>3 DEF RunHonest, LockHonest, On
    <2>5. r.origin.hash[pl].wants \in Wants /\ Solves(r.origin, pl)
        BY <2>3, <2>4 DEF RunHonest, LockHonest
    <2>6. /\ \A x, y \in On(Locked(r), pl) : x.name = y.name => x = y
          /\ \A x \in On(Locked(r), pl) : x.name \in Conda =>
                 x.version \in Allowed(r.spec.wants, x.name)
        BY <1>1, <2>2, <2>3, <2>5 DEF Solves, Solution
    <2>7. Updates(r) \subseteq CondaNeeds(r.spec.wants)
        BY <1>2, <2>1 DEF SpecMissing, CondaNeeds
    <2>8. CondaNeeds(r.spec.wants) \subseteq NamesIn(On(Locked(r), pl))
        BY <1>2, <1>5 DEF PackageMissing
    <2>9. \A n \in Updates(r) : Candidates(r.spec.wants, n) # {}
        BY <1>2, <1>5 DEF CondaUnsatisfiable
    <2>10. CondaSolution(UpdateSpecs(r.spec, pl, Locked(r), Updates(r)), r.spec.wants, pl)
        BY <1>1, <2>6, <2>7, <2>8, <2>9, UpdateSpecsSolves
    <2>11. SolveForArch(r) = UpdateSpecs(r.spec, pl, Locked(r), Updates(r))
                \union SolvePypi(r.spec, pl, Locked(r), Named(r.call))
        BY <1>5 DEF SolveForArch
    <2>12. QED
        BY <1>1, <1>3, <2>10, <2>11, HalvesSolve
<1>6. QED
    BY <1>4, <1>5

(* What merge returns is honest if what it merges is. *)
LEMMA MergeIsHonest ==
    ASSUME NEW r, BookRun(r), RunHonest(r), r.pc = "solve", r.toLock = r.solved
    PROVE  LockHonest(IF r.origin = None THEN FreshLock(r) ELSE Merged(r))
<1>1. /\ r.spec.wants \in Wants /\ r.toLock \subseteq r.spec.platforms
      /\ \A x \in r.fresh : x.platform \in r.toLock
      /\ \A pl \in r.toLock : Solution(On(r.fresh, pl), r.spec.wants)
    BY DEF BookRun, RunHonest, Steps
<1>2. CASE r.origin = None
    <2>1. /\ DOMAIN FreshLock(r).hash = r.spec.platforms /\ FreshLock(r).pkgs = r.fresh
          /\ \A pl \in r.spec.platforms : FreshLock(r).hash[pl].wants = r.spec.wants
        BY DEF FreshLock, Hashes, Content
    <2>2. r.toLock = r.spec.platforms
        BY <1>2 DEF BookRun
    <2>3. LockHonest(FreshLock(r))
        BY <1>1, <2>1, <2>2 DEF LockHonest, LockedPlatforms, Solves
    <2>4. QED
        BY <1>2, <2>3
<1>3. CASE r.origin # None
    <2> DEFINE m == Merged(r)
    <2>1. LockHonest(r.origin)
        BY <1>3 DEF RunHonest
    <2>2. r.spec.platforms \ r.toLock \subseteq LockedPlatforms(r.origin)
        BY <1>3 DEF BookRun
    <2>3. /\ LockedPlatforms(m) = LockedPlatforms(r.origin) \union r.spec.platforms
          /\ \A pl \in r.spec.platforms : m.hash[pl] = Content(r.spec)
          /\ \A pl \in LockedPlatforms(r.origin) \ r.toLock : m.hash[pl] = r.origin.hash[pl]
          /\ \A pl \in r.toLock : On(m.pkgs, pl) = On(r.fresh, pl)
          /\ \A pl : pl \notin r.toLock => On(m.pkgs, pl) = On(r.origin.pkgs, pl)
          /\ \A x \in m.pkgs : x \in r.fresh \/ x \in r.origin.pkgs
        BY <1>3, MergedParts
    <2> HIDE DEF m
    <2>4. \A x \in m.pkgs : x.platform \in LockedPlatforms(m)
        BY <1>1, <2>1, <2>3 DEF LockHonest
    <2>5. ASSUME NEW pl \in r.toLock
          PROVE  m.hash[pl].wants \in Wants /\ Solves(m, pl)
        BY <1>1, <2>3 DEF Solves, Content
    <2>6. ASSUME NEW pl \in LockedPlatforms(m) \ r.toLock
          PROVE  m.hash[pl].wants \in Wants /\ Solves(m, pl)
        BY <2>1, <2>2, <2>3 DEF LockHonest, Solves
    <2>7. LockHonest(m)
        BY <2>4, <2>5, <2>6 DEF LockHonest
    <2>8. QED
        BY <1>3, <2>7 DEF m
<1>4. QED
    BY <1>2, <1>3

(* A step of one run leaves the others alone. *)
LEMMA HonestFrame ==
    ASSUME HonestInv, NEW p \in Proc, RunHonest(run'[p]),
           \A q \in Proc \ {p} : run'[q] = run[q],
           UNCHANGED latest,
           lockfile'.state = "whole" => LockHonest(lockfile'.lock)
    PROVE  HonestInv'
BY DEF HonestInv, LatestType

LEMMA HonestStep ==
    ASSUME Shape, UpdateSafe, BookInv, HonestInv, [Next]_vars
    PROVE  HonestInv'
<1>0. /\ lockfile.state = "whole" => LockHonest(lockfile.lock)
      /\ \A p \in Proc : RunHonest(run[p])
      /\ LatestType /\ \A p \in Proc : BookRun(run[p])
    BY DEF BookInv, HonestInv
<1>1. CASE UNCHANGED vars
    BY <1>0, <1>1 DEF vars, HonestInv, LatestType
<1>2. ASSUME NEW p \in Proc, Begin(p)
      PROVE  HonestInv'
    <2>1. PICK c \in Calls : run'[p] =
            [NewRun EXCEPT !.pc = "load", !.call = c,
                !.spec = IF c.platforms = None THEN source
                         ELSE [source EXCEPT !.platforms = c.platforms]]
        BY <1>2 DEF Begin, Shape
    <2>2. RunHonest(run'[p])
        BY <2>1 DEF NewRun, RunHonest
    <2>3. \A q \in Proc \ {p} : run'[q] = run[q]
        BY <1>2 DEF Begin, Shape
    <2>4. QED
        BY <1>0, <1>2, <2>2, <2>3, HonestFrame DEF Begin
<1>3. ASSUME NEW p \in Proc, Load(p)
      PROVE  HonestInv'
    <2>1. run'[p].pc \in {"decide", "ParseError"}
        BY <1>3 DEF Load, Shape, IsRun
    <2>2. \/ run'[p].origin = None
          \/ lockfile.state = "whole" /\ run'[p].origin = lockfile.lock
        BY <1>3 DEF Load, Shape, IsRun
    <2>3. \A q \in Proc \ {p} : run'[q] = run[q]
        BY <1>3 DEF Load, Shape
    <2>4. RunHonest(run'[p])
        BY <1>0, <1>3, <2>1, <2>2 DEF Load, RunHonest, Steps
    <2>5. QED
        BY <1>0, <1>3, <2>3, <2>4, HonestFrame DEF Load
<1>4. ASSUME NEW p \in Proc, RefuseChannels(p) \/ MergeRaises(p) \/ SolveFails(p)
      PROVE  HonestInv'
    <2>1. Outcome(run[p]) \in {"KeyError", "ValueError", "Unsatisfiable", "solved"}
        BY DEF Outcome
    <2>2. run'[p].origin = run[p].origin /\ run'[p].pc \notin Steps
        BY <1>4, <2>1 DEF RefuseChannels, MergeRaises, SolveFails, Shape, IsRun, Steps
    <2>3. RunHonest(run'[p])
        BY <1>0, <2>2 DEF RunHonest, Steps
    <2>4. \A q \in Proc \ {p} : run'[q] = run[q]
        BY <1>4 DEF RefuseChannels, MergeRaises, SolveFails, Shape
    <2>5. QED
        BY <1>0, <1>4, <2>3, <2>4, HonestFrame DEF RefuseChannels, MergeRaises, SolveFails
<1>5. ASSUME NEW p \in Proc, Decide(p)
      PROVE  HonestInv'
    <2> DEFINE todo == PlatformsToLock(run[p])
    <2>1. run' = [run EXCEPT ![p].toLock = todo,
                             ![p].pc = IF todo = {} THEN "done" ELSE "solve"]
        BY <1>5 DEF Decide
    <2> HIDE DEF todo
    <2>2. run'[p] = [run[p] EXCEPT !.toLock = todo,
                                   !.pc = IF todo = {} THEN "done" ELSE "solve"]
        BY <2>1 DEF Shape
    <2>3. /\ run'[p].pc \in {"done", "solve"} /\ run'[p].solved = run[p].solved
          /\ run'[p].origin = run[p].origin
        BY <2>2 DEF Shape, IsRun
    <2>4. run[p].solved = {}
        BY <1>0, <1>5 DEF Decide, BookRun
    <2>5. RunHonest(run'[p])
        BY <1>0, <2>3, <2>4 DEF RunHonest
    <2>6. \A q \in Proc \ {p} : run'[q] = run[q]
        BY <2>1 DEF Shape
    <2>7. QED
        BY <1>0, <1>5, <2>5, <2>6, HonestFrame DEF Decide
<1>6. ASSUME NEW p \in Proc, Solve(p)
      PROVE  HonestInv'
    <2> DEFINE r  == run[p]
               pl == NextPlatform(r)
               new == SolveForArch(r)
    <2>1. /\ BookRun(r) /\ RunHonest(r)
          /\ r.pc = "solve" /\ Solving(r) /\ Outcome(r) = "solved"
        BY <1>0, <1>6 DEF Solve, Solving
    <2>2. Solution(new, r.spec.wants) /\ \A x \in new : x.platform = pl
        BY <1>0, <2>1, SolveForArchSolves, SolvedPlatform
    <2>3. pl \in r.toLock \ r.solved
        BY <2>1, NextPlatformIsNext
    <2>4. run'[p] = [r EXCEPT !.solved = r.solved \union {pl}, !.fresh = r.fresh \union new]
        BY <1>6 DEF Solve, Shape
    <2> HIDE DEF pl, new
    <2>5. /\ run'[p].pc = "solve" /\ run'[p].origin = r.origin /\ run'[p].spec = r.spec
          /\ run'[p].fresh = r.fresh \union new /\ run'[p].solved = r.solved \union {pl}
        BY <2>1, <2>4 DEF Shape, IsRun
    <2>6. /\ \A x \in r.fresh : x.platform \in r.solved
          /\ \A k \in r.solved : Solution(On(r.fresh, k), r.spec.wants)
        BY <2>1 DEF BookRun, RunHonest
    <2>7. On(r.fresh \union new, pl) = new
        BY <2>2, <2>3, <2>6 DEF On
    <2>8. \A k \in r.solved : On(r.fresh \union new, k) = On(r.fresh, k)
        BY <2>2, <2>3 DEF On
    <2>9. \A k \in r.solved \union {pl} : Solution(On(r.fresh \union new, k), r.spec.wants)
        BY <2>2, <2>6, <2>7, <2>8
    <2>10. RunHonest(run'[p])
        BY <2>1, <2>5, <2>9 DEF RunHonest
    <2>11. \A q \in Proc \ {p} : run'[q] = run[q]
        BY <1>6 DEF Solve, Shape
    <2>12. QED
        BY <1>0, <1>6, <2>10, <2>11, HonestFrame DEF Solve
<1>7. ASSUME NEW p \in Proc, Merge(p)
      PROVE  HonestInv'
    <2>1. /\ BookRun(run[p]) /\ RunHonest(run[p])
          /\ run[p].pc = "solve" /\ run[p].toLock = run[p].solved
        BY <1>0, <1>7 DEF Merge
    <2> DEFINE new == IF run[p].origin = None THEN FreshLock(run[p]) ELSE Merged(run[p])
               pc  == IF run[p].call.writes THEN "open" ELSE "done"
    <2>2. LockHonest(new) /\ pc \in {"open", "done"}
        BY <2>1, MergeIsHonest
    <2>3. run'[p] = [run[p] EXCEPT !.new = new, !.pc = pc]
        BY <1>7 DEF Merge, Shape
    <2> HIDE DEF new, pc
    <2>4. /\ run'[p].pc = pc /\ run'[p].new = new /\ run'[p].origin = run[p].origin
        BY <2>3 DEF Shape, IsRun
    <2>5. RunHonest(run'[p])
        BY <2>1, <2>2, <2>4 DEF RunHonest
    <2>6. \A q \in Proc \ {p} : run'[q] = run[q]
        BY <1>7 DEF Merge, Shape
    <2>7. QED
        BY <1>0, <1>7, <2>5, <2>6, HonestFrame DEF Merge
<1>8. ASSUME NEW p \in Proc, Open(p) \/ Dump(p) \/ Kill(p)
      PROVE  HonestInv'
    <2>1. /\ run'[p].origin = run[p].origin
          /\ \/ run'[p].pc \notin Steps
             \/ run[p].pc = "open" /\ run'[p].pc = "dump" /\ run'[p].new = run[p].new
        BY <1>8 DEF Open, Dump, Kill, Shape, IsRun, Steps
    <2>2. RunHonest(run'[p])
        BY <1>0, <2>1 DEF RunHonest, Steps
    <2>3. \A q \in Proc \ {p} : run'[q] = run[q]
        BY <1>8 DEF Open, Dump, Kill, Shape
    <2>4. run[p].pc = "dump" => LockHonest(run[p].new)
        BY <1>0 DEF RunHonest
    <2>5. lockfile'.state = "whole" => LockHonest(lockfile'.lock)
        BY <1>0, <1>8, <2>4 DEF Open, Dump, Kill, Shape
    <2>6. QED
        BY <1>0, <1>8, <2>2, <2>3, <2>5, HonestFrame DEF Open, Dump, Kill
<1>9. CASE Edit
    BY <1>0, <1>9 DEF Edit, HonestInv, LatestType
<1>10. CASE Publish
    <2>1. LatestType'
        BY <1>0, <1>10 DEF Publish, LatestType
    <2>2. QED
        BY <1>0, <1>10, <2>1 DEF Publish, HonestInv
<1>11. QED
    BY <1>1, <1>2, <1>3, <1>4, <1>5, <1>6, <1>7, <1>8, <1>9, <1>10 DEF Next, Step

LEMMA HonestInit ==
    ASSUME Init
    PROVE  HonestInv
<1>1. RunHonest(NewRun)
    BY DEF RunHonest, NewRun, Steps
<1>2. \A p \in Proc : run[p] = NewRun
    BY Zenon DEF Init
<1>3. LatestType /\ lockfile.state # "whole"
    BY DEF Init, LatestType
<1>4. QED
    BY <1>1, <1>2, <1>3 DEF HonestInv

(* A hash in the lockfile is never that of a specification its packages do    *)
(* not solve: --check-input-hash skips nothing that has to be solved.         *)
THEOREM HashesAreHonest ==
    ASSUME UpdateSafe
    PROVE  Spec => []HashHonest
<1>1. Shape /\ BookInv /\ HonestInv /\ [Next]_vars => (Shape /\ BookInv /\ HonestInv)'
    BY ShapeStep, BookStep, HonestStep
<1>2. HonestInv => HashHonest
    BY DEF HonestInv, HashHonest, LockHonest
<1>3. QED
    BY <1>1, <1>2, ShapeInit, BookInit, HonestInit, PTL DEF Spec
-----------------------------------------------------------------------------
(* Without another process on the lockfile, nothing locks it: from here on    *)
(* there is one.                                                              *)
SoleProcess == \A p, q \in Proc : p = q

(* The lock holds the specification's hash for each of its platforms. *)
Locks(lock, spec) ==
    \A pl \in spec.platforms :
        pl \in LockedPlatforms(lock) /\ lock.hash[pl] = Content(spec)

(* What a run knows of the file: until it opens it, it is what was read; what *)
(* was read is what it merges into; then the file is empty, and in the end it *)
(* locks the specification.                                                   *)
FileRun(r, file) ==
    /\ r.pc \in {"decide", "solve", "open"} \union (Failures \ {"killed"}) => file = r.found
    /\ r.pc \in {"decide", "solve", "open", "dump"} /\ r.origin # None =>
           r.found.state = "whole" /\ r.origin = r.found.lock
    /\ r.pc = "dump" => file.state = "empty"
    /\ r.pc = "done" /\ (r.call.writes \/ r.toLock = {}) =>
           file.state = "whole" /\ Locks(file.lock, r.spec)

FileInv == \A p \in Proc : FileRun(run[p], lockfile)

(* What a run is about to write locks its specification. *)
LEMMA NewLocks ==
    ASSUME NEW r, BookRun(r), r.pc = "dump"
    PROVE  Locks(r.new, r.spec)
<1>1. /\ r.toLock = r.solved
      /\ r.new = IF r.origin = None THEN FreshLock(r) ELSE Merged(r)
    BY DEF BookRun
<1>2. CASE r.origin = None
    BY <1>1, <1>2 DEF Locks, FreshLock, Hashes, LockedPlatforms
<1>3. CASE r.origin # None
    <2>1. /\ LockedPlatforms(Merged(r)) = LockedPlatforms(r.origin) \union r.spec.platforms
          /\ \A pl \in r.spec.platforms : Merged(r).hash[pl] = Content(r.spec)
        BY <1>1, <1>3, MergedParts
    <2>2. QED
        BY <1>1, <1>3, <2>1 DEF Locks
<1>4. QED
    BY <1>2, <1>3

(* A run with nothing to solve has found its specification locked. *)
LEMMA SkippedLocks ==
    ASSUME NEW r, BookRun(r), r.pc = "decide", PlatformsToLock(r) = {}
    PROVE  r.origin # None /\ Locks(r.origin, r.spec)
<1>1. r.spec.platforms # {}
    BY DEF BookRun, Steps
<1>2. QED
    BY <1>1 DEF PlatformsToLock, Locks

LEMMA FileStep ==
    ASSUME SoleProcess, Shape, BookInv, FileInv, [Next]_vars
    PROVE  FileInv'
<1>0. \A p \in Proc : FileRun(run[p], lockfile) /\ BookRun(run[p])
    BY DEF FileInv, BookInv
<1>1. CASE UNCHANGED <<run, lockfile>>
    BY <1>1 DEF FileInv
<1>2. SUFFICES ASSUME NEW p \in Proc, Begin(p) \/ Step(p) \/ Kill(p)
               PROVE  FileRun(run'[p], lockfile')
    <2>1. ASSUME NEW p \in Proc, FileRun(run'[p], lockfile')
          PROVE  FileInv'
        BY <2>1 DEF FileInv, SoleProcess
    <2>2. CASE Edit \/ Publish
        BY <1>1, <2>2 DEF Edit, Publish
    <2>3. QED
        BY <1>1, <2>1, <2>2 DEF Next, vars
<1> DEFINE r == run[p]
<1>3. FileRun(r, lockfile) /\ BookRun(r)
    BY <1>0
<1>4. CASE Begin(p) \/ Kill(p)
    <2>1. run'[p].pc \in {"load", "killed"}
        BY <1>4 DEF Begin, Kill, NewRun, Shape, IsRun
    <2>2. QED
        BY <2>1 DEF FileRun, Failures
<1>5. CASE Load(p)
    <2>1. /\ run'[p].pc \in {"decide", "ParseError"} /\ run'[p].found = lockfile
          /\ run'[p].origin # None => lockfile.state = "whole" /\ run'[p].origin = lockfile.lock
        BY <1>5 DEF Load, Shape, IsRun
    <2>2. lockfile' = lockfile
        BY <1>5 DEF Load
    <2>3. QED
        BY <2>1, <2>2 DEF FileRun, Failures
<1>6. CASE RefuseChannels(p) \/ SolveFails(p) \/ MergeRaises(p)
    <2>1. Outcome(r) \in {"KeyError", "ValueError", "Unsatisfiable", "solved"}
        BY DEF Outcome
    <2>2. /\ run'[p].pc \in Failures \ {"killed"} /\ run'[p].found = r.found
          /\ r.pc \in {"decide", "solve"} /\ lockfile' = lockfile
        BY <1>6, <2>1 DEF RefuseChannels, SolveFails, Solving, MergeRaises, Shape, IsRun, Failures
    <2>3. QED
        BY <1>3, <2>2 DEF FileRun, Failures
<1>7. CASE Decide(p)
    <2> DEFINE todo == PlatformsToLock(r)
    <2>1. /\ r.pc = "decide" /\ lockfile' = lockfile
          /\ run'[p] = [r EXCEPT !.toLock = todo,
                                 !.pc = IF todo = {} THEN "done" ELSE "solve"]
        BY <1>7 DEF Decide, Shape
    <2>2. todo = {} => r.origin # None /\ Locks(r.origin, r.spec)
        BY <1>3, <2>1, SkippedLocks
    <2> HIDE DEF todo
    <2>3. /\ run'[p].pc = (IF todo = {} THEN "done" ELSE "solve")
          /\ run'[p].origin = r.origin /\ run'[p].found = r.found /\ run'[p].spec = r.spec
        BY <2>1 DEF Shape, IsRun
    <2>4. lockfile = r.found
          /\ (r.origin # None => r.found.state = "whole" /\ r.origin = r.found.lock)
        BY <1>3, <2>1 DEF FileRun
    <2>5. QED
        BY <2>1, <2>2, <2>3, <2>4 DEF FileRun, Failures
<1>8. CASE Solve(p)
    <2>1. /\ run'[p].pc = "solve" /\ r.pc = "solve" /\ lockfile' = lockfile
          /\ run'[p].origin = r.origin /\ run'[p].found = r.found
        BY <1>8 DEF Solve, Solving, Shape, IsRun
    <2>2. QED
        BY <1>3, <2>1 DEF FileRun, Failures
<1>9. CASE Merge(p)
    <2> DEFINE new == IF r.origin = None THEN FreshLock(r) ELSE Merged(r)
               pc  == IF r.call.writes THEN "open" ELSE "done"
    <2>1. /\ r.pc = "solve" /\ lockfile' = lockfile
          /\ run'[p] = [r EXCEPT !.new = new, !.pc = pc]
        BY <1>9 DEF Merge, Shape
    <2>2. r.toLock # {}
        BY <1>3, <2>1 DEF BookRun
    <2>3. (r.call.writes => pc = "open") /\ (~r.call.writes => pc = "done")
        OBVIOUS
    <2> HIDE DEF new, pc
    <2>4. /\ run'[p].pc = pc /\ run'[p].origin = r.origin /\ run'[p].found = r.found
          /\ run'[p].call = r.call /\ run'[p].toLock = r.toLock
        BY <2>1 DEF Shape, IsRun
    <2>5. CASE r.call.writes
        BY <1>3, <2>1, <2>3, <2>4, <2>5 DEF FileRun, Failures
    <2>6. CASE ~r.call.writes
        BY <2>1, <2>2, <2>3, <2>4, <2>6 DEF FileRun, Failures
    <2>7. QED
        BY <2>5, <2>6
<1>10. CASE Open(p)
    <2>1. /\ r.pc = "open" /\ run'[p].pc = "dump" /\ lockfile'.state = "empty"
          /\ run'[p].origin = r.origin /\ run'[p].found = r.found
        BY <1>10 DEF Open, Shape, IsRun
    <2>2. QED
        BY <1>3, <2>1 DEF FileRun, Failures
<1>11. CASE Dump(p)
    <2>1. /\ r.pc = "dump" /\ lockfile.state = "empty" /\ Locks(r.new, r.spec)
        BY <1>3, <1>11, NewLocks DEF Dump, FileRun
    <2>2. /\ run'[p].pc = "done" /\ run'[p].spec = r.spec
          /\ lockfile'.state = "whole" /\ lockfile'.lock = r.new
        BY <1>11, <2>1 DEF Dump, Shape, IsRun
    <2>3. QED
        BY <2>1, <2>2 DEF FileRun, Failures
<1>12. QED
    BY <1>2, <1>4, <1>5, <1>6, <1>7, <1>8, <1>9, <1>10, <1>11 DEF Step

LEMMA FileInit == Init => FileInv
<1>1. SUFFICES ASSUME Init
               PROVE  FileInv
    OBVIOUS
<1>2. \A p \in Proc : run[p] = NewRun
    BY <1>1, Zenon DEF Init
<1>3. FileRun(NewRun, lockfile)
    BY DEF FileRun, NewRun, Failures
<1>4. QED
    BY <1>2, <1>3 DEF FileInv

(* A run that fails, on whichever platform, leaves the lockfile as it was. *)
THEOREM FailuresChangeNothing ==
    ASSUME SoleProcess
    PROVE  Spec => []AllOrNothing
<1>1. Shape /\ BookInv /\ FileInv /\ [Next]_vars => (Shape /\ BookInv /\ FileInv)'
    BY ShapeStep, BookStep, FileStep
<1>2. FileInv => AllOrNothing
    BY DEF FileInv, FileRun, AllOrNothing
<1>3. QED
    BY <1>1, <1>2, ShapeInit, BookInit, FileInit, PTL DEF Spec

(* A run that has written the lockfile, or found nothing to solve, leaves one *)
(* that locks and solves its specification.                                   *)
THEOREM DoneIsLocked ==
    ASSUME SoleProcess, UpdateSafe
    PROVE  Spec => []DoneMeansLocked
<1>1. Shape /\ BookInv /\ HonestInv /\ FileInv /\ [Next]_vars
          => (Shape /\ BookInv /\ HonestInv /\ FileInv)'
    BY ShapeStep, BookStep, HonestStep, FileStep
<1>2. HonestInv /\ FileInv => DoneMeansLocked
    BY DEF HonestInv, LockHonest, FileInv, FileRun, Locks, DoneMeansLocked
<1>3. QED
    BY <1>1, <1>2, ShapeInit, BookInit, HonestInit, FileInit, PTL DEF Spec
-----------------------------------------------------------------------------
(* Where no run is killed, what a run has read is what is locked. *)
PersistRun(r, file) ==
    /\ r.pc # "dump" => file.state = "whole" \/ (file.state = "absent" /\ file.lock = None)
    /\ r.pc \in {"decide", "solve", "open", "dump"} => r.origin = file.lock

PersistInv == \A p \in Proc : PersistRun(run[p], lockfile)

LEMMA PersistStep ==
    ASSUME SoleProcess, ~Crashes, Shape, FileInv, PersistInv, [Next]_vars
    PROVE  PersistInv'
<1>0. \A p \in Proc : PersistRun(run[p], lockfile) /\ FileRun(run[p], lockfile)
    BY DEF PersistInv, FileInv
<1>1. CASE UNCHANGED <<run, lockfile>>
    BY <1>1 DEF PersistInv
<1>2. SUFFICES ASSUME NEW p \in Proc, Begin(p) \/ Step(p)
               PROVE  PersistRun(run'[p], lockfile')
    <2>1. ASSUME NEW p \in Proc, PersistRun(run'[p], lockfile')
          PROVE  PersistInv'
        BY <2>1 DEF PersistInv, SoleProcess
    <2>2. CASE Edit \/ Publish
        BY <1>1, <2>2 DEF Edit, Publish
    <2>3. QED
        BY <1>1, <2>1, <2>2 DEF Next, Kill, vars
<1> DEFINE r == run[p]
<1>3. PersistRun(r, lockfile) /\ FileRun(r, lockfile)
    BY <1>0
<1>4. CASE Begin(p)
    <2>1. run'[p].pc = "load" /\ r.pc # "dump" /\ lockfile' = lockfile
        BY <1>4 DEF Begin, NewRun, Shape, IsRun, Ends, Failures
    <2>2. QED
        BY <1>3, <2>1 DEF PersistRun
<1>5. CASE Load(p)
    <2>1. /\ r.pc = "load" /\ lockfile' = lockfile
          /\ run'[p].pc \in {"decide", "ParseError"}
          /\ lockfile.state = "whole"  => run'[p].origin = lockfile.lock
          /\ lockfile.state = "absent" => run'[p].origin = None
        BY <1>5 DEF Load, Shape, IsRun
    <2>2. QED
        BY <1>3, <2>1 DEF PersistRun
<1>6. CASE RefuseChannels(p) \/ SolveFails(p) \/ MergeRaises(p)
    <2>1. Outcome(r) \in {"KeyError", "ValueError", "Unsatisfiable", "solved"}
        BY DEF Outcome
    <2>2. /\ run'[p].pc \in Failures /\ r.pc \in {"decide", "solve"} /\ lockfile' = lockfile
        BY <1>6, <2>1 DEF RefuseChannels, SolveFails, Solving, MergeRaises, Shape, IsRun, Failures
    <2>3. QED
        BY <1>3, <2>2 DEF PersistRun, Failures
<1>7. CASE Decide(p) \/ Solve(p) \/ Merge(p)
    <2>1. r.pc \in {"decide", "solve"} /\ lockfile' = lockfile
        BY <1>7 DEF Decide, Solve, Solving, Merge
    <2>2. CASE Decide(p)
        <3> DEFINE todo == PlatformsToLock(r)
        <3>1. run'[p] = [r EXCEPT !.toLock = todo,
                                  !.pc = IF todo = {} THEN "done" ELSE "solve"]
            BY <2>2 DEF Decide, Shape
        <3> HIDE DEF todo
        <3>2. run'[p].pc \in {"solve", "done"} /\ run'[p].origin = r.origin
            BY <3>1 DEF Shape, IsRun
        <3>3. QED
            BY <1>3, <2>1, <3>2 DEF PersistRun
    <2>3. CASE Solve(p)
        <3>1. r.pc = "solve" /\ run'[p].pc = r.pc /\ run'[p].origin = r.origin
            BY <2>3 DEF Solve, Solving, Shape, IsRun
        <3>2. QED
            BY <1>3, <2>1, <3>1 DEF PersistRun
    <2>4. CASE Merge(p)
        <3> DEFINE new == IF r.origin = None THEN FreshLock(r) ELSE Merged(r)
                   pc  == IF r.call.writes THEN "open" ELSE "done"
        <3>1. run'[p] = [r EXCEPT !.new = new, !.pc = pc]
            BY <2>4 DEF Merge, Shape
        <3>2. pc \in {"open", "done"}
            OBVIOUS
        <3> HIDE DEF new, pc
        <3>3. run'[p].pc = pc /\ run'[p].origin = r.origin
            BY <3>1 DEF Shape, IsRun
        <3>4. QED
            BY <1>3, <2>1, <3>2, <3>3 DEF PersistRun
    <2>5. QED
        BY <1>7, <2>2, <2>3, <2>4
<1>8. CASE Open(p)
    <2>1. /\ r.pc = "open" /\ run'[p].pc = "dump" /\ run'[p].origin = r.origin
          /\ lockfile'.lock = lockfile.lock
        BY <1>8 DEF Open, Shape, IsRun
    <2>2. QED
        BY <1>3, <2>1 DEF PersistRun
<1>9. CASE Dump(p)
    <2>1. lockfile.state = "empty"
        BY <1>3, <1>9 DEF Dump, FileRun
    <2>2. run'[p].pc = "done" /\ lockfile'.state = "whole"
        BY <1>9, <2>1 DEF Dump, Shape, IsRun
    <2>3. QED
        BY <2>2 DEF PersistRun
<1>10. QED
    BY <1>2, <1>4, <1>5, <1>6, <1>7, <1>8, <1>9 DEF Step

LEMMA PersistInit == Init => PersistInv
<1>1. SUFFICES ASSUME Init
               PROVE  PersistInv
    OBVIOUS
<1>2. \A p \in Proc : run[p] = NewRun
    BY <1>1, Zenon DEF Init
<1>3. PersistRun(NewRun, lockfile)
    BY <1>1 DEF Init, PersistRun, NewRun
<1>4. QED
    BY <1>2, <1>3 DEF PersistInv

(* Only Dump changes what the lockfile stands for. *)
LEMMA OnlyDumpStores ==
    ASSUME Shape, [Next]_vars
    PROVE  \/ lockfile'.lock = lockfile.lock
           \/ \E p \in Proc : Dump(p) /\ lockfile'.lock = run[p].new
<1>1. ASSUME NEW p \in Proc, Begin(p) \/ Step(p) \/ Kill(p)
      PROVE  lockfile'.lock = lockfile.lock \/ (Dump(p) /\ lockfile'.lock = run[p].new)
    <2>1. CASE Open(p) \/ Kill(p)
        BY <2>1 DEF Open, Kill, Shape
    <2>2. CASE Dump(p)
        BY <2>2 DEF Dump, Shape
    <2>3. CASE Begin(p) \/ Load(p) \/ RefuseChannels(p) \/ Decide(p) \/ Solve(p)
        BY <2>3 DEF Begin, Load, RefuseChannels, Decide, Solve
    <2>4. CASE SolveFails(p) \/ Merge(p) \/ MergeRaises(p)
        BY <2>4 DEF SolveFails, Merge, MergeRaises
    <2>5. QED
        BY <1>1, <2>1, <2>2, <2>3, <2>4 DEF Step
<1>2. CASE Edit \/ Publish \/ UNCHANGED vars
    BY <1>2 DEF Edit, Publish, vars
<1>3. QED
    BY <1>1, <1>2 DEF Next

(* "Persist packages from original lockfile for platforms not requested for   *)
(* lock": a run changes what is locked for no platform but those it solves.   *)
THEOREM OthersArePersisted ==
    ASSUME SoleProcess, ~Crashes
    PROVE  Spec => OthersPersist
<1> DEFINE Kept(pl) ==
        /\ pl \in LockedPlatforms(lockfile'.lock)
        /\ lockfile'.lock.hash[pl] = lockfile.lock.hash[pl]
        /\ On(lockfile'.lock.pkgs, pl) = On(lockfile.lock.pkgs, pl)
<1>1. ASSUME Shape, BookInv, PersistInv, [Next]_vars, lockfile' # lockfile,
             lockfile.lock # None, NEW pl \in LockedPlatforms(lockfile.lock),
             \A p \in Proc : pl \notin run[p].solved
      PROVE  Kept(pl)
    <2>1. CASE lockfile'.lock = lockfile.lock
        BY <1>1, <2>1
    <2>2. ASSUME NEW p \in Proc, Dump(p), lockfile'.lock = run[p].new
          PROVE  Kept(pl)
        <3> DEFINE r == run[p]
        <3>1. BookRun(r) /\ PersistRun(r, lockfile) /\ r.pc = "dump"
            BY <1>1, <2>2 DEF BookInv, PersistInv, Dump
        <3>2. r.origin = lockfile.lock /\ r.toLock = r.solved /\ r.new = Merged(r)
            BY <1>1, <3>1 DEF BookRun, PersistRun
        <3>3. pl \notin r.toLock
            BY <1>1, <3>2
        <3>4. /\ LockedPlatforms(Merged(r)) = LockedPlatforms(r.origin) \union r.spec.platforms
              /\ \A k \in LockedPlatforms(r.origin) \ r.toLock :
                     Merged(r).hash[k] = r.origin.hash[k]
              /\ \A k : k \notin r.toLock => On(Merged(r).pkgs, k) = On(r.origin.pkgs, k)
            BY <1>1, <3>1, <3>2, MergedParts
        <3>5. lockfile'.lock = Merged(r)
            BY <2>2, <3>2
        <3> HIDE DEF r
        <3>6. QED
            BY <1>1, <3>2, <3>3, <3>4, <3>5
    <2>3. QED
        BY <1>1, <2>1, <2>2, OnlyDumpStores
<1>2. Shape /\ BookInv /\ PersistInv /\ [Next]_vars =>
        [lockfile.lock # None =>
            \A pl \in LockedPlatforms(lockfile.lock) :
                (\A p \in Proc : pl \notin run[p].solved) => Kept(pl)]_lockfile
    BY <1>1
<1>3. Shape /\ BookInv /\ FileInv /\ PersistInv /\ [Next]_vars
          => (Shape /\ BookInv /\ FileInv /\ PersistInv)'
    BY ShapeStep, BookStep, FileStep, PersistStep
<1>4. QED
    BY <1>2, <1>3, ShapeInit, BookInit, FileInit, PersistInit, PTL DEF Spec, OthersPersist
-----------------------------------------------------------------------------
(* The parts of a lock that is stored. *)
LEMMA StoredParts ==
    ASSUME lockfile.lock # None
    PROVE  /\ StoredChannel = lockfile.lock.channel
           /\ DOMAIN StoredEntries = LockedPlatforms(lockfile.lock)
           /\ \A pl \in LockedPlatforms(lockfile.lock) :
                StoredEntries[pl] = [content |-> lockfile.lock.hash[pl],
                                     pkgs |-> On(lockfile.lock.pkgs, pl)]
BY DEF StoredChannel, StoredEntries

(* What a run writes is, for the store, a replacement of the entries of its   *)
(* platforms.                                                                 *)
LEMMA DumpRelocks ==
    ASSUME BookInv, ChannelInv, HonestInv, PersistInv, NEW p \in Proc,
           Dump(p), lockfile'.lock = run[p].new, run[p].new # None
    PROVE  Store!Relock(run[p].spec.platforms)
<1> DEFINE r   == run[p]
           pls == r.spec.platforms
<1>1. /\ BookRun(r) /\ PersistRun(r, lockfile) /\ RunHonest(r) /\ RunOfOneChannel(r)
      /\ r.pc = "dump"
    BY DEF BookInv, PersistInv, HonestInv, ChannelInv, Dump
<1>2. /\ r.origin = lockfile.lock /\ r.toLock \subseteq pls
      /\ r.new = IF r.origin = None THEN FreshLock(r) ELSE Merged(r)
    BY <1>1 DEF PersistRun, BookRun
<1>3. Locks(r.new, r.spec) /\ LockHonest(r.new) /\ LockOfOneChannel(r.new)
    BY <1>1, NewLocks DEF RunHonest, RunOfOneChannel
<1>4. /\ StoredChannel' = r.new.channel
      /\ DOMAIN StoredEntries' = LockedPlatforms(r.new)
      /\ \A pl \in LockedPlatforms(r.new) :
            StoredEntries'[pl] = [content |-> r.new.hash[pl], pkgs |-> On(r.new.pkgs, pl)]
    BY DEF StoredChannel, StoredEntries
<1>5. \A pl \in pls : pl \in LockedPlatforms(r.new) /\ r.new.hash[pl] = Content(r.spec)
    BY <1>3 DEF Locks
<1>6. Store!OneSolve(pls, StoredEntries', StoredChannel')
    <2>1. ASSUME NEW pl \in pls
          PROVE  /\ Solution(StoredEntries'[pl].pkgs, StoredEntries'[pl].content.wants)
                 /\ \A x \in StoredEntries'[pl].pkgs :
                        x.name \in Conda => x.channel = StoredChannel'
        <3>1. /\ StoredEntries'[pl].pkgs = On(r.new.pkgs, pl)
              /\ StoredEntries'[pl].content.wants = r.new.hash[pl].wants
              /\ StoredChannel' = r.new.channel
            BY <1>4, <1>5
        <3>2. Solution(On(r.new.pkgs, pl), r.new.hash[pl].wants)
            BY <1>3, <1>5 DEF LockHonest, Solves
        <3>3. \A x \in On(r.new.pkgs, pl) : x.name \in Conda => x.channel = r.new.channel
            BY <1>3 DEF LockOfOneChannel, On
        <3>4. QED
            BY <3>1, <3>2, <3>3
    <2>2. \A pl, q \in pls : StoredEntries'[pl].content = StoredEntries'[q].content
        BY <1>4, <1>5
    <2>3. QED
        BY <2>1, <2>2 DEF Store!OneSolve
<1>7. CASE r.origin = None
    <2>1. DOMAIN StoredEntries = {}
        BY <1>2, <1>7 DEF StoredEntries
    <2>2. LockedPlatforms(r.new) = pls
        BY <1>2, <1>7 DEF LockedPlatforms, FreshLock, Hashes
    <2>3. QED
        BY <1>4, <1>6, <2>1, <2>2 DEF Store!Relock
<1>8. CASE r.origin # None
    <2>1. /\ LockedPlatforms(r.new) = LockedPlatforms(r.origin) \union pls
          /\ \A k \in LockedPlatforms(r.origin) \ r.toLock : r.new.hash[k] = r.origin.hash[k]
          /\ \A k : k \notin r.toLock => On(r.new.pkgs, k) = On(r.origin.pkgs, k)
        BY <1>1, <1>2, <1>8, MergedParts DEF BookRun
    <2>2. r.new.channel = r.origin.channel
        BY <1>2, <1>8 DEF Merged
    <2>3. /\ StoredChannel = r.origin.channel
          /\ DOMAIN StoredEntries = LockedPlatforms(r.origin)
          /\ \A k \in LockedPlatforms(r.origin) :
                StoredEntries[k] = [content |-> r.origin.hash[k], pkgs |-> On(r.origin.pkgs, k)]
        BY <1>2, <1>8, StoredParts
    <2>4. \A k \in DOMAIN StoredEntries \ pls : StoredEntries'[k] = StoredEntries[k]
        BY <1>2, <1>4, <2>1, <2>3
    <2>5. QED
        BY <1>4, <1>6, <2>1, <2>2, <2>3, <2>4 DEF Store!Relock
<1>9. QED
    BY <1>7, <1>8

(* None, a model value in the runs, is no record. *)
NoneIsNoLock == \A ch, h, s : None # [channel |-> ch, hash |-> h, pkgs |-> s]

(* make_lock_files implements LockStore: one process that is not killed never *)
(* leaves a lockfile that mixes two runs on one platform, loses a platform or *)
(* records a specification that is not solved.                                *)
THEOREM LockfileIsAStore ==
    ASSUME SoleProcess, ~Crashes, UpdateSafe, NoneIsNoLock
    PROVE  Spec => ActsAsStore
<1> DEFINE Inv == Shape /\ BookInv /\ ChannelInv /\ HonestInv /\ FileInv /\ PersistInv
<1>1. Init => Store!Init
    BY DEF Init, Store!Init, StoredEntries
<1>2. Inv /\ [Next]_vars => [Store!Next]_<<StoredChannel, StoredEntries>>
    <2>1. SUFFICES ASSUME Inv, [Next]_vars
                   PROVE  [Store!Next]_<<StoredChannel, StoredEntries>>
        OBVIOUS
    <2>2. CASE lockfile'.lock = lockfile.lock
        BY <2>2 DEF StoredChannel, StoredEntries
    <2>3. ASSUME NEW p \in Proc, Dump(p), lockfile'.lock = run[p].new
          PROVE  [Store!Next]_<<StoredChannel, StoredEntries>>
        <3>1. BookRun(run[p]) /\ run[p].pc = "dump"
            BY <2>1, <2>3 DEF BookInv, Dump
        <3>2. run[p].new # None
            BY <3>1 DEF BookRun, FreshLock, Merged, NoneIsNoLock
        <3>3. Store!Relock(run[p].spec.platforms)
            BY <2>1, <2>3, <3>2, DumpRelocks
        <3>4. run[p].spec.platforms \in (SUBSET Platform) \ {{}}
            BY <3>1 DEF BookRun, Steps
        <3>5. QED
            BY <3>3, <3>4 DEF Store!Next
    <2>4. QED
        BY <2>1, <2>2, <2>3, OnlyDumpStores
<1>3. Inv /\ [Next]_vars => Inv'
    BY ShapeStep, BookStep, ChannelStep, HonestStep, FileStep, PersistStep
<1>4. Init => Inv
    BY ShapeInit, BookInit, ChannelInit, HonestInit, FileInit, PersistInit
<1>5. QED
    BY <1>1, <1>2, <1>3, <1>4, PTL DEF Spec, ActsAsStore, Store!Spec
=============================================================================
