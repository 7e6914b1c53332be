------------------------- MODULE LookupCacheProofs -------------------------
(***************************************************************************)
(* The cache of downloads, for any processes, versions and ages.  Types hold *)
(* always.  As long as the lock file does not become old enough to be        *)
(* cleared, and no process is killed, no call returns half a file or a       *)
(* version that is too old.                                                  *)
(***************************************************************************)
EXTENDS LookupCache, TLAPS, FiniteSetTheorems, WellFoundedInduction

(* Past the lock. *)
Loading == {"is_file", "age", "tag", "read_tag", "request", "truncate", "write",
            "write_tag", "read"}

CallType == [ pc     : {"idle"} \union Steps \union Ends,
              start  : Epoch .. MaxTime,
              scan   : SUBSET Path,
              file   : Path \union {None},
              lock   : Nat \union {None},
              held   : BOOLEAN,
              sent   : {None, Truncated} \union Version,
              got    : {None} \union Version,
              gotAt  : Epoch .. MaxTime,
              fd     : Nat \union {None},
              result : {None, Truncated} \union Version ]

WellTyped(c) ==
    /\ c \in CallType
    /\ c.held <=> c.pc \in Loading
    /\ c.pc \in {"flock"} \union Loading => c.lock \in Nat
    /\ c.pc \in {"truncate", "write", "write_tag"} => c.got \in Version
    /\ c.pc = "unlink" => c.file \in Path

TypeInv ==
    /\ now \in Epoch .. MaxTime
    /\ server \in Version
    /\ superseded \in [Version -> Epoch .. Forever]
    /\ dir \in [Path -> FileType]
    /\ call \in [Proc -> CallType]
    /\ \A p \in Proc : WellTyped(call[p])

(* No lock file is old enough to be cleared before the time is over, nor dated *)
(* so far ahead that it would be.                                            *)
LockIsYoung ==
    /\ Skew <= Resolution
    /\ \A l \in LockMTime \union {Epoch} : l <= Epoch + Skew /\ MaxTime < l + MaxAge

(* There is one lock file, of which nobody unlinks the path, and who is past *)
(* the lock holds that file's.                                               *)
OneHolder == \A p, q \in Proc : call[p].held /\ call[q].held => p = q

LockInv ==
    /\ Exists("lock") /\ dir["lock"].ino = 3
    /\ dir["lock"].mtime <= now + Skew /\ MaxTime < dir["lock"].mtime + MaxAge
    /\ \A p \in Proc : call[p].file # "lock" /\ call[p].lock \in {None, 3}
    /\ OneHolder

-----------------------------------------------------------------------------
(* The files, and what a call knows of them: what is on the way holds only   *)
(* without crashes.                                                          *)

(* A version was being served until WriteDelay before t, at least, not         *)
(* counting what files are dated ahead.                                      *)
ServedNear(v, t) == superseded[v] >= t - Skew - WriteDelay

TimeInv ==
    /\ \A v \in Version : v >= server => superseded[v] = Forever
    /\ \A f \in Path : Exists(f) => dir[f].mtime <= now + Skew \/ dir[f].mtime \in Future
    /\ \A p \in Proc : call[p].start <= now /\ call[p].gotAt <= now

(* The ETag is never of a newer version than the file beside it. *)
FilesInv ==
    /\ Exists("etag") => dir["etag"].data \in 1 .. server
    /\ Exists("destination") => dir["destination"].data <= server
    /\ Exists("destination") /\ dir["destination"].data # Truncated =>
           /\ \/ dir["destination"].mtime \in Future
              \/ ServedNear(dir["destination"].data, dir["destination"].mtime)
           /\ Exists("etag") => dir["etag"].data <= dir["destination"].data
    /\ Exists("destination") /\ dir["destination"].data = Truncated =>
           \E p \in Proc : call[p].pc = "write"

(* A version recent enough for the call. *)
Recent(v, c) == superseded[v] > c.start - FreshFor - Skew - WriteDelay

(* What a 304 has vouched for. *)
Vouched(c) == c.sent # None /\ c.got = None

CallInv(c) ==
    /\ c.pc \notin {"request", "truncate", "write", "write_tag", "read"} \union Ends =>
           c.sent = None /\ c.got = None
    /\ c.pc = "request" =>
           /\ c.got = None
           /\ c.sent # None /\ Exists("destination") => c.sent <= dir["destination"].data
    /\ c.pc \in {"truncate", "write", "write_tag"} =>
           /\ c.got <= server
           /\ c.start <= c.gotAt /\ c.gotAt <= superseded[c.got]
           /\ Exists("etag") => dir["etag"].data <= c.got
    /\ c.pc \in {"truncate", "write"} => now <= c.gotAt + WriteDelay
    /\ c.pc = "write" /\ Exists("destination") => dir["destination"].ino = c.fd
    /\ c.pc = "write_tag" /\ Exists("destination") => dir["destination"].data = c.got
    /\ c.pc = "read" /\ Exists("destination") =>
           /\ Recent(dir["destination"].data, c)
           /\ Vouched(c) => superseded[dir["destination"].data] >= c.start
    /\ c.pc = "returned" =>
           /\ c.result \in Version /\ Recent(c.result, c)
           /\ Vouched(c) => superseded[c.result] >= c.start

CacheInv == TimeInv /\ FilesInv /\ \A p \in Proc : CallInv(call[p])

-----------------------------------------------------------------------------
(* Operators. *)

LEMMA Constants ==
    /\ MaxVersion \in Nat /\ FreshFor \in Nat /\ MaxAge \in Nat
    /\ Epoch \in Nat /\ MaxTime \in Nat /\ WriteDelay \in Nat /\ Epoch <= MaxTime
    /\ Resolution \in Nat /\ Skew \in Nat
    /\ Future \subseteq Nat /\ \A t \in Future : t > MaxTime + Resolution
    /\ None \notin Nat /\ None \notin Path
    /\ \A i, d, m \in Nat : [ino |-> i, data |-> d, mtime |-> m] # None
BY CacheAssumption

(* A set of naturals that is not empty has a least element. *)
LEMMA MinOfNaturals ==
    ASSUME NEW S \in SUBSET Nat, S # {}
    PROVE  Min(S) \in S
<1>1. PICK x \in S : \A y \in S : ~(<<y, x>> \in OpToRel(<, Nat))
  BY NatLessThanWellFounded, WFMin
<1>2. ASSUME NEW y \in S PROVE x =< y
  <2>1. CASE y < x
    <3>1. <<y, x>> \in Nat \X Nat /\ <<y, x>>[1] < <<y, x>>[2]
      BY <2>1
    <3> QED
      BY <1>1, <3>1 DEF OpToRel
  <2> QED
    BY <2>1
<1> QED
  BY <1>2 DEF Min

(* The values of a function on a finite set are not more than the set. *)
LEMMA Values ==
    ASSUME NEW S, IsFiniteSet(S), NEW f, DOMAIN f = S
    PROVE  /\ IsFiniteSet({f[x] : x \in S})
           /\ Cardinality({f[x] : x \in S}) <= Cardinality(S)
<1> DEFINE T == {f[x] : x \in S}
           g == [x \in S |-> f[x]]
<1>1. g \in Surjection(S, T)
  BY DEF Surjection
<1> QED
  BY <1>1, FS_Surjection

LEMMA UnionBound ==
    ASSUME NEW S, IsFiniteSet(S), NEW T, IsFiniteSet(T)
    PROVE  /\ IsFiniteSet(S \union T) /\ Cardinality(S \union T) \in Nat
           /\ Cardinality(S \union T) <= Cardinality(S) + Cardinality(T)
<1>1. IsFiniteSet(S \intersect T) /\ Cardinality(S \intersect T) \in Nat
  BY FS_Intersection, FS_CardinalityType
<1>2. Cardinality(S) \in Nat /\ Cardinality(T) \in Nat
  BY FS_CardinalityType
<1>3. /\ IsFiniteSet(S \union T)
      /\ Cardinality(S \union T) = Cardinality(S) + Cardinality(T) - Cardinality(S \intersect T)
  BY FS_Union
<1> QED
  BY <1>1, <1>2, <1>3, FS_CardinalityType

(* FreshInode is a number: fewer are in use than there are to choose from.   *)
LEMMA FreshInodeIsNat ==
    FreshInode \in Nat
<1> DEFINE files == {g \in Path : Exists(g)}
           ofFiles == {dir[f].ino : f \in files}
           locks == {call[p].lock : p \in Proc}
           fds == {call[p].fd : p \in Proc}
           used == (ofFiles \union locks) \union fds
           all == 1 .. 3 + 2 * Cardinality(Proc) + 1
<1>1. IsFiniteSet(Proc) /\ Cardinality(Proc) \in Nat
  BY CacheAssumption, FS_CardinalityType
<1>2. IsFiniteSet(ofFiles) /\ Cardinality(ofFiles) \in Nat /\ Cardinality(ofFiles) <= 3
  <2>1. IsFiniteSet(Path) /\ Cardinality(Path) = 3
    <3>1. IsFiniteSet({"destination"}) /\ Cardinality({"destination"}) = 1
      BY FS_Singleton
    <3>2. /\ IsFiniteSet({"destination"} \union {"etag"})
          /\ Cardinality({"destination"} \union {"etag"}) = 2
      BY <3>1, FS_AddElement
    <3>3. /\ IsFiniteSet(({"destination"} \union {"etag"}) \union {"lock"})
          /\ Cardinality(({"destination"} \union {"etag"}) \union {"lock"}) = 3
      BY <3>2, FS_AddElement
    <3>4. ({"destination"} \union {"etag"}) \union {"lock"} = Path
      BY DEF Path
    <3> QED
      BY <3>3, <3>4
  <2>2. /\ IsFiniteSet(files) /\ Cardinality(files) \in Nat /\ Cardinality(files) <= 3
    BY <2>1, FS_Subset, FS_CardinalityType
  <2>3. /\ IsFiniteSet(ofFiles) /\ Cardinality(ofFiles) <= Cardinality(files)
    <3> DEFINE h == [f \in files |-> dir[f].ino]
    <3>1. {h[f] : f \in files} = ofFiles
      OBVIOUS
    <3>2. DOMAIN h = files
      OBVIOUS
    <3> HIDE DEF h, ofFiles, files
    <3> QED
      BY <2>2, <3>1, <3>2, Values
  <2> QED
    BY <2>2, <2>3, FS_CardinalityType
<1>3. IsFiniteSet(locks) /\ Cardinality(locks) \in Nat /\ Cardinality(locks) <= Cardinality(Proc)
  <2> DEFINE h == [p \in Proc |-> call[p].lock]
  <2>1. {h[p] : p \in Proc} = locks /\ DOMAIN h = Proc
    OBVIOUS
  <2> HIDE DEF h, locks
  <2> QED
    BY <1>1, <2>1, Values, FS_CardinalityType
<1>4. IsFiniteSet(fds) /\ Cardinality(fds) \in Nat /\ Cardinality(fds) <= Cardinality(Proc)
  <2> DEFINE h == [p \in Proc |-> call[p].fd]
  <2>1. {h[p] : p \in Proc} = fds /\ DOMAIN h = Proc
    OBVIOUS
  <2> HIDE DEF h, fds
  <2> QED
    BY <1>1, <2>1, Values, FS_CardinalityType
<1>5. IsFiniteSet(used) /\ Cardinality(used) \in Nat /\ Cardinality(used) <= 3 + 2 * Cardinality(Proc)
  <2> HIDE DEF ofFiles, locks, fds
  <2>1. /\ IsFiniteSet(ofFiles \union locks) /\ Cardinality(ofFiles \union locks) \in Nat
        /\ Cardinality(ofFiles \union locks) <= Cardinality(ofFiles) + Cardinality(locks)
    BY <1>2, <1>3, UnionBound
  <2>2. /\ IsFiniteSet(used) /\ Cardinality(used) \in Nat
        /\ Cardinality(used) <= Cardinality(ofFiles \union locks) + Cardinality(fds)
    BY <1>4, <2>1, UnionBound
  <2> QED
    BY <1>1, <1>2, <1>3, <1>4, <2>1, <2>2
<1>6. IsFiniteSet(all) /\ Cardinality(all) = 3 + 2 * Cardinality(Proc) + 1
  <2> DEFINE N == 3 + 2 * Cardinality(Proc) + 1
  <2>1. N \in Nat
    BY <1>1
  <2> HIDE DEF N
  <2>2. /\ IsFiniteSet(1 .. N)
        /\ Cardinality(1 .. N) = IF 1 > N THEN 0 ELSE N - 1 + 1
    BY <2>1, FS_Interval
  <2>3. Cardinality(1 .. N) = N
    BY <2>1, <2>2
  <2> QED
    BY <2>2, <2>3 DEF N
<1> HIDE DEF used, all
<1>7. all \ used # {}
  <2>1. CASE all \ used = {}
    <3>1. all \in SUBSET used
      BY <2>1
    <3>2. Cardinality(all) <= Cardinality(used)
      BY <1>5, <3>1, FS_Subset
    <3> QED
      BY <1>1, <1>5, <1>6, <3>2
  <2> QED
    BY <2>1
<1>8. all \ used \in SUBSET Nat
  BY <1>1 DEF all
<1>9. Min(all \ used) \in all \ used
  BY <1>7, <1>8, MinOfNaturals
<1>10. FreshInode = Min(all \ used)
  BY DEF FreshInode, all, used
<1> QED
  BY <1>8, <1>9, <1>10

(* Opening a file for writing gives a file. *)
LEMMA OpenedFile ==
    ASSUME TypeInv, NEW f \in Path, NEW t \in Stamps
    PROVE  /\ t \in Nat /\ t <= now + Skew
           /\ OpenForWriting(f, t) \in [ino : Nat, data : {Truncated}, mtime : {t}]
           /\ OpenForWriting(f, t) # None
           /\ Exists(f) => OpenForWriting(f, t).ino = dir[f].ino
<1>1. now \in Nat /\ dir[f] \in FileType /\ t \in Nat /\ t >= now /\ t <= now + Skew
  BY Constants DEF TypeInv, Stamps
<1>2. /\ OpenForWriting(f, t) \in [ino : Nat, data : {Truncated}, mtime : {t}]
      /\ Exists(f) => OpenForWriting(f, t).ino = dir[f].ino
  BY <1>1, FreshInodeIsNat DEF OpenForWriting, FileType, Exists, Truncated, Version
<1>3. PICK i \in Nat, d \in Nat, m \in Nat :
          OpenForWriting(f, t) = [ino |-> i, data |-> d, mtime |-> m]
  BY <1>1, <1>2 DEF Truncated
<1> QED
  BY <1>1, <1>2, <1>3, Constants

-----------------------------------------------------------------------------
(* Types. *)

LEMMA InitTypes == Init => TypeInv
<1> SUFFICES ASSUME Init PROVE TypeInv
  OBVIOUS
<1>1. /\ now = Epoch /\ server \in Version
      /\ superseded = [v \in Version |-> IF v < server THEN Epoch ELSE Forever]
      /\ call = [p \in Proc |-> NewCall]
  BY DEF Init
<1>2. dir \in [Path -> FileType]
  <2>1. PICK l \in LockMTime, d \in (0 .. Epoch + Skew) \union Future, v \in 1 .. server, cached \in BOOLEAN :
           dir = [ destination |-> IF cached THEN [ino |-> 1, data |-> v, mtime |-> d] ELSE None,
                   etag |-> IF cached /\ v \notin Untagged
                            THEN [ino |-> 2, data |-> v, mtime |-> d] ELSE None,
                   lock |-> [ino |-> 3, data |-> Truncated, mtime |-> l] ]
    BY DEF Init
  <2>2. l \in Nat /\ d \in Nat /\ v \in Version
    BY <1>1, CacheAssumption, Constants DEF Version
  <2>3. /\ [ino |-> 1, data |-> v, mtime |-> d] \in FileType
        /\ [ino |-> 2, data |-> v, mtime |-> d] \in FileType
        /\ [ino |-> 3, data |-> Truncated, mtime |-> l] \in FileType
        /\ None \in FileType
    BY <2>2 DEF FileType
  <2> QED
    BY <2>1, <2>3 DEF Path
<1>3. WellTyped(NewCall)
  BY Constants DEF WellTyped, NewCall, CallType, Loading
<1>4. superseded \in [Version -> Epoch .. Forever]
  BY <1>1, Constants DEF Forever
<1> QED
  BY <1>1, <1>2, <1>3, <1>4, Constants DEF TypeInv, WellTyped

(* A step of one call. *)
Moves(p) == call' = [call EXCEPT ![p] = call'[p]]

LEMMA Typed ==
    ASSUME TypeInv, NEW p \in Proc, Moves(p), WellTyped(call'[p]),
           UNCHANGED <<now, server, superseded>>, dir' \in [Path -> FileType]
    PROVE  TypeInv'
BY DEF TypeInv, Moves, WellTyped

(* The steps of a call that change no file. *)
LEMMA QuietMoves ==
    ASSUME TypeInv, NEW p \in Proc,
           \/ Start(p) \/ ClearStat(p) \/ ClearDone(p) \/ LockAcquire(p) \/ LockRetry(p)
           \/ CheckIsFile(p) \/ CheckAge(p) \/ FindTag(p) \/ ReadTag(p)
           \/ Request304(p) \/ Request200(p) \/ RequestFails(p) \/ ReadBytes(p)
    PROVE  Moves(p) /\ WellTyped(call'[p]) /\ UNCHANGED <<now, server, superseded, dir>>
<1>1. /\ call \in [Proc -> CallType] /\ WellTyped(call[p])
      /\ now \in Epoch .. MaxTime /\ server \in Version /\ dir \in [Path -> FileType]
  BY DEF TypeInv
<1>2. CASE Start(p)
  BY <1>1, <1>2, Constants DEF Start, Moves, WellTyped, CallType, Loading, Steps, Ends
<1>3. CASE ClearStat(p)
  <2>1. PICK f \in call[p].scan :
            IF Exists(f) /\ (Age(f) < 0 \/ Age(f) >= MaxAge)
            THEN call' = [call EXCEPT ![p].scan = @ \ {f}, ![p].file = f, ![p].pc = "unlink"]
            ELSE call' = [call EXCEPT ![p].scan = @ \ {f}]
    BY <1>3 DEF ClearStat
  <2>2. f \in Path /\ call[p].pc = "clear" /\ UNCHANGED <<now, server, superseded, dir>>
    BY <1>1, <1>3 DEF ClearStat, CallType
  <2>3. CASE Exists(f) /\ (Age(f) < 0 \/ Age(f) >= MaxAge)
    <3>1. call' = [call EXCEPT ![p].scan = @ \ {f}, ![p].file = f, ![p].pc = "unlink"]
      BY <2>1, <2>3
    <3> QED
      BY <1>1, <2>2, <3>1 DEF Moves, WellTyped, CallType, Loading, Steps
  <2>4. CASE ~(Exists(f) /\ (Age(f) < 0 \/ Age(f) >= MaxAge))
    <3>1. call' = [call EXCEPT ![p].scan = @ \ {f}]
      BY <2>1, <2>4
    <3> QED
      BY <1>1, <2>2, <3>1 DEF Moves, WellTyped, CallType, Loading
  <2> QED
    BY <2>3, <2>4
<1>4. CASE ClearDone(p)
  BY <1>1, <1>4, Constants DEF ClearDone, Moves, WellTyped, CallType, Loading, Steps, Ends
<1>5. CASE LockAcquire(p)
  BY <1>1, <1>5, Constants DEF LockAcquire, Moves, WellTyped, CallType, Loading, Steps, Ends
<1>6. CASE LockRetry(p)
  BY <1>1, <1>6, Constants DEF LockRetry, Moves, WellTyped, CallType, Loading, Steps, Ends
<1>7. CASE CheckIsFile(p)
  BY <1>1, <1>7, Constants DEF CheckIsFile, Moves, WellTyped, CallType, Loading, Steps, Ends
<1>8. CASE CheckAge(p)
  BY <1>1, <1>8, Constants DEF CheckAge, Leave, Moves, WellTyped, CallType, Loading, Steps, Ends
<1>9. CASE FindTag(p)
  BY <1>1, <1>9, Constants DEF FindTag, Moves, WellTyped, CallType, Loading, Steps, Ends
<1>10. CASE ReadTag(p)
  BY <1>1, <1>10, Constants DEF ReadTag, Leave, FileType, Exists, Moves, WellTyped, CallType, Loading, Steps, Ends
<1>11. CASE Request304(p)
  BY <1>1, <1>11, Constants DEF Request304, Moves, WellTyped, CallType, Loading, Steps, Ends
<1>12. CASE Request200(p)
  BY <1>1, <1>12, Constants DEF Request200, Moves, WellTyped, CallType, Loading, Steps, Ends
<1>13. CASE RequestFails(p)
  BY <1>1, <1>13, Constants DEF RequestFails, Leave, Moves, WellTyped, CallType, Loading, Steps, Ends
<1>14. CASE ReadBytes(p)
  BY <1>1, <1>14, Constants DEF ReadBytes, Leave, FileType, Exists, Moves, WellTyped, CallType, Loading, Steps, Ends
<1> QED
  BY <1>2, <1>3, <1>4, <1>5, <1>6, <1>7, <1>8, <1>9, <1>10, <1>11, <1>12, <1>13, <1>14

(* The steps of a call that do. *)
LEMMA FileMoves ==
    ASSUME TypeInv, NEW p \in Proc,
           \/ ClearUnlink(p) \/ LockOpen(p) \/ WriteOpen(p) \/ WriteBytes(p) \/ WriteTag(p)
           \/ Kill(p)
    PROVE  /\ Moves(p) /\ WellTyped(call'[p]) /\ UNCHANGED <<now, server, superseded>>
           /\ dir' \in [Path -> FileType]
<1>1. /\ call \in [Proc -> CallType] /\ WellTyped(call[p]) /\ now \in Nat
      /\ dir \in [Path -> FileType]
  BY Constants DEF TypeInv
<1>2. \A f \in Path, t \in Stamps :
          /\ OpenForWriting(f, t) \in FileType /\ OpenForWriting(f, t).ino \in Nat
          /\ \A v \in Version : [OpenForWriting(f, t) EXCEPT !.data = v] \in FileType
  BY <1>1, OpenedFile DEF FileType
<1>3. CASE ClearUnlink(p)
  <2>1. /\ call[p].pc = "unlink" /\ dir' = [dir EXCEPT ![call[p].file] = None]
        /\ call' = [call EXCEPT ![p].pc = "clear", ![p].file = None]
        /\ UNCHANGED <<now, server, superseded>>
    BY <1>3 DEF ClearUnlink
  <2> QED
    BY <1>1, <2>1 DEF Moves, WellTyped, CallType, Loading, Steps, FileType
<1>4. CASE LockOpen(p)
  <2>1. PICK t \in Stamps :
        /\ call[p].pc = "open" /\ dir' = [dir EXCEPT !["lock"] = OpenForWriting("lock", t)]
        /\ call' = [call EXCEPT ![p].lock = dir'["lock"].ino, ![p].pc = "flock"]
        /\ UNCHANGED <<now, server, superseded>>
    BY <1>4 DEF LockOpen
  <2>2. dir' \in [Path -> FileType] /\ dir'["lock"].ino \in Nat
    BY <1>1, <1>2, <2>1 DEF Path
  <2> QED
    BY <1>1, <2>1, <2>2 DEF Moves, WellTyped, CallType, Loading, Steps
<1>5. CASE WriteOpen(p)
  <2>1. PICK t \in Stamps :
        /\ call[p].pc = "truncate"
        /\ dir' = [dir EXCEPT !["destination"] = OpenForWriting("destination", t)]
        /\ call' = [call EXCEPT ![p].fd = dir'["destination"].ino, ![p].pc = "write"]
        /\ UNCHANGED <<now, server, superseded>>
    BY <1>5 DEF WriteOpen
  <2>2. dir' \in [Path -> FileType] /\ dir'["destination"].ino \in Nat
    BY <1>1, <1>2, <2>1 DEF Path
  <2> QED
    BY <1>1, <2>1, <2>2 DEF Moves, WellTyped, CallType, Loading, Steps
<1>6. CASE WriteBytes(p)
  <2>1. /\ call[p].pc = "write" /\ call[p].got \in Version
        /\ call' = [call EXCEPT ![p].fd = None, ![p].pc = "write_tag"]
        /\ UNCHANGED <<now, server, superseded>>
    BY <1>1, <1>6 DEF WriteBytes, WellTyped
  <2>2. dir' \in [Path -> FileType]
    <3>1. CASE Exists("destination") /\ dir["destination"].ino = call[p].fd
      <4>1. PICK t \in Stamps :
                dir' = [dir EXCEPT !["destination"].data = call[p].got,
                                   !["destination"].mtime = t]
        BY <1>6, <3>1 DEF WriteBytes
      <4>3. t \in Nat
        BY <1>1, Constants DEF Stamps
      <4>2. dir["destination"] \in [ino : Nat, data : {Truncated} \union Version, mtime : Nat]
        BY <1>1, <3>1 DEF Exists, FileType, Path
      <4> QED
        BY <1>1, <2>1, <4>1, <4>2, <4>3 DEF FileType, Path
    <3>2. CASE ~(Exists("destination") /\ dir["destination"].ino = call[p].fd)
      BY <1>1, <1>6, <3>2 DEF WriteBytes
    <3> QED
      BY <3>1, <3>2
  <2> QED
    BY <1>1, <2>1, <2>2 DEF Moves, WellTyped, CallType, Loading, Steps
<1>7. CASE WriteTag(p)
  <2>1. /\ call[p].pc = "write_tag" /\ call[p].got \in Version
        /\ call' = [call EXCEPT ![p].pc = "read"]
        /\ UNCHANGED <<now, server, superseded>>
        /\ \/ dir' = dir
           \/ \E t \in Stamps :
                  dir' = [dir EXCEPT !["etag"] =
                             [OpenForWriting("etag", t) EXCEPT !.data = call[p].got]]
    BY <1>1, <1>7 DEF WriteTag, WellTyped
  <2>2. dir' \in [Path -> FileType]
    BY <1>1, <1>2, <2>1 DEF Path
  <2> QED
    BY <1>1, <2>1, <2>2 DEF Moves, WellTyped, CallType, Loading, Steps
<1>8. CASE Kill(p)
  <2>1. UNCHANGED <<now, server, superseded>> /\ Leave(p, "killed", None)
        /\ \/ UNCHANGED dir
           \/ \E t \in Stamps : dir' = [dir EXCEPT !["etag"] = OpenForWriting("etag", t)]
    BY <1>8 DEF Kill
  <2>2. dir' \in [Path -> FileType]
    BY <1>1, <1>2, <2>1 DEF Path
  <2>3. call' = [call EXCEPT ![p].pc = "killed", ![p].result = None, ![p].lock = None,
                             ![p].held = FALSE, ![p].fd = None]
    BY <2>1 DEF Leave
  <2>4. Moves(p)
    BY <1>1, <2>3 DEF Moves
  <2>5. call'[p] = [call[p] EXCEPT !.pc = "killed", !.result = None, !.lock = None,
                                   !.held = FALSE, !.fd = None]
    BY <1>1, <2>3
  <2>6. call'[p] \in CallType
    <3>1. call[p] \in CallType /\ "killed" \in {"idle"} \union Steps \union Ends
      BY <1>1 DEF Ends
    <3> QED
      BY <2>5, <3>1 DEF CallType
  <2>7. call'[p].pc = "killed" /\ call'[p].held = FALSE
    BY <1>1, <2>5 DEF CallType
  <2>8. WellTyped(call'[p])
    BY <2>6, <2>7 DEF WellTyped, Loading
  <2> QED
    BY <2>1, <2>2, <2>4, <2>8
<1> QED
  BY <1>3, <1>4, <1>5, <1>6, <1>7, <1>8

LEMMA NextTypes == TypeInv /\ [Next]_vars => TypeInv'
<1> SUFFICES ASSUME TypeInv, [Next]_vars PROVE TypeInv'
  OBVIOUS
<1>1. ASSUME NEW p \in Proc, Start(p) \/ Step(p) \/ Kill(p) PROVE TypeInv'
  <2>1. dir \in [Path -> FileType]
    BY DEF TypeInv
  <2>2. CASE \/ ClearUnlink(p) \/ LockOpen(p) \/ WriteOpen(p) \/ WriteBytes(p) \/ WriteTag(p)
             \/ Kill(p)
    BY <2>2, FileMoves, Typed
  <2>3. CASE ~(\/ ClearUnlink(p) \/ LockOpen(p) \/ WriteOpen(p) \/ WriteBytes(p) \/ WriteTag(p)
               \/ Kill(p))
    <3>1. Moves(p) /\ WellTyped(call'[p]) /\ UNCHANGED <<now, server, superseded, dir>>
      BY <1>1, <2>3, QuietMoves DEF Step, Download
    <3> QED
      BY <2>1, <3>1, Typed
  <2> QED
    BY <2>2, <2>3
<1>2. CASE Publish
  <2>1. /\ server \in Version /\ now \in Epoch .. Forever
        /\ superseded \in [Version -> Epoch .. Forever]
    BY Constants DEF TypeInv, Forever
  <2>2. server' \in Version /\ superseded' \in [Version -> Epoch .. Forever]
    BY <1>2, <2>1, Constants DEF Publish, Version
  <2> QED
    BY <1>2, <2>2 DEF Publish, TypeInv, WellTyped
<1>3. CASE Tick
  <2>1. now' \in Epoch .. MaxTime
    BY <1>3, Constants DEF Tick, TypeInv
  <2> QED
    BY <1>3, <2>1 DEF Tick, TypeInv, WellTyped
<1>4. CASE UNCHANGED vars
  BY <1>4 DEF vars, TypeInv, WellTyped
<1> QED
  BY <1>1, <1>2, <1>3, <1>4 DEF Next

LEMMA TypesAlways == Spec => []TypeInv
BY InitTypes, NextTypes, PTL DEF Spec

(* Every variable keeps its type, for any number of processes, also when they *)
(* are killed and when old files are cleared under them.                     *)
THEOREM TypeCorrect == Spec => []TypeOK
<1>1. TypeInv => TypeOK
  BY Constants DEF TypeInv, TypeOK, WellTyped, CallType
<1> QED
  BY <1>1, TypesAlways, PTL

-----------------------------------------------------------------------------
(* The lock.  Its file is younger than MaxAge from the first state to the    *)
(* last, so that clear_old_files_from_cache leaves it.                       *)

LEMMA InitLock == Init /\ LockIsYoung => LockInv
<1> SUFFICES ASSUME Init, LockIsYoung PROVE LockInv
  OBVIOUS
<1>1. PICK l \in LockMTime : dir["lock"] = [ino |-> 3, data |-> Truncated, mtime |-> l]
  BY DEF Init
<1>2. l \in Nat /\ l <= now + Skew /\ MaxTime < l + MaxAge /\ now = Epoch
  <2>1. l \in (0 .. Epoch + Skew) \union Future
    BY CacheAssumption
  <2>2. now = Epoch
    BY DEF Init
  <2>3. l \in Nat
    BY <2>1, Constants
  <2> QED
    BY <2>2, <2>3 DEF LockIsYoung
<1>3. dir["lock"] # None
  BY <1>1, <1>2, Constants DEF Truncated
<1>4. \A p \in Proc : call[p] = NewCall
  BY DEF Init
<1> QED
  BY <1>1, <1>2, <1>3, <1>4, Constants
  DEF LockInv, Exists, OneHolder, NewCall, Path

(* A step of a call that does not concern the lock: it lets go of it or keeps *)
(* it, or nobody has it.                                                     *)
LEMMA LockKept ==
    ASSUME TypeInv, LockInv, NEW p \in Proc, Moves(p), now' = now, dir'["lock"] = dir["lock"],
           call'[p].file # "lock", call'[p].lock \in {None, 3},
           call'[p].held => call[p].held \/ \A q \in Proc : ~call[q].held
    PROVE  LockInv'
<1>1. \A q \in Proc : q # p => call'[q] = call[q]
  BY DEF Moves, TypeInv
<1>2. OneHolder'
  <2> SUFFICES ASSUME NEW q \in Proc, NEW r \in Proc, call'[q].held, call'[r].held
               PROVE  q = r
    BY DEF OneHolder
  <2>1. CASE call[q].held /\ call[r].held
    BY <2>1 DEF LockInv, OneHolder
  <2>2. CASE ~(call[q].held /\ call[r].held)
    BY <1>1, <2>2
  <2> QED
    BY <2>1, <2>2
<1>3. \A q \in Proc : call'[q].file # "lock" /\ call'[q].lock \in {None, 3}
  BY <1>1 DEF LockInv
<1> QED
  BY <1>2, <1>3 DEF LockInv, Exists

(* The steps that neither open, take nor clear anything. *)
LEMMA LockLeftAlone ==
    ASSUME TypeInv, LockInv, NEW p \in Proc,
           \/ Start(p) \/ ClearDone(p) \/ LockRetry(p)
           \/ CheckIsFile(p) \/ CheckAge(p) \/ FindTag(p) \/ ReadTag(p)
           \/ Request304(p) \/ Request200(p) \/ RequestFails(p) \/ ReadBytes(p)
    PROVE  /\ call'[p].file # "lock" /\ call'[p].lock \in {None, 3}
           /\ call'[p].held => call[p].held
<1>1. call \in [Proc -> CallType] /\ call[p].file # "lock" /\ call[p].lock \in {None, 3}
  BY DEF TypeInv, LockInv
<1>2. CASE Start(p)
  BY <1>1, <1>2 DEF Start, Moves, CallType
<1>3. CASE ClearDone(p)
  BY <1>1, <1>3 DEF ClearDone, Moves, CallType
<1>4. CASE LockRetry(p)
  BY <1>1, <1>4 DEF LockRetry, Moves, CallType
<1>5. CASE CheckIsFile(p)
  BY <1>1, <1>5 DEF CheckIsFile, Moves, CallType
<1>6. CASE CheckAge(p)
  BY <1>1, <1>6 DEF CheckAge, Leave, Moves, CallType
<1>7. CASE FindTag(p)
  BY <1>1, <1>7 DEF FindTag, Moves, CallType
<1>8. CASE ReadTag(p)
  BY <1>1, <1>8 DEF ReadTag, Leave, Moves, CallType
<1>9. CASE Request304(p)
  BY <1>1, <1>9 DEF Request304, Moves, CallType
<1>10. CASE Request200(p)
  BY <1>1, <1>10 DEF Request200, Moves, CallType
<1>11. CASE RequestFails(p)
  BY <1>1, <1>11 DEF RequestFails, Leave, Moves, CallType
<1>12. CASE ReadBytes(p)
  BY <1>1, <1>12 DEF ReadBytes, Leave, Moves, CallType
<1> QED
  BY <1>2, <1>3, <1>4, <1>5, <1>6, <1>7, <1>8, <1>9, <1>10, <1>11, <1>12

LEMMA NextLock == LockIsYoung /\ TypeInv /\ TypeInv' /\ LockInv /\ [Next]_vars => LockInv'
<1> SUFFICES ASSUME LockIsYoung, TypeInv, TypeInv', LockInv, [Next]_vars PROVE LockInv'
  OBVIOUS
<1>1. /\ call \in [Proc -> CallType] /\ dir \in [Path -> FileType]
      /\ \A p \in Proc : WellTyped(call[p])
      /\ now \in Epoch .. MaxTime /\ now' \in Epoch .. MaxTime
  BY DEF TypeInv
<1>2. /\ Exists("lock") /\ dir["lock"].ino = 3 /\ dir["lock"].mtime \in Nat
      /\ dir["lock"].mtime <= now + Skew /\ MaxTime < dir["lock"].mtime + MaxAge
      /\ \A p \in Proc : call[p].file # "lock" /\ call[p].lock \in {None, 3}
  BY <1>1 DEF LockInv, Exists, FileType, Path
<1>7. Skew <= Resolution /\ MaxTime < Epoch + MaxAge
  BY DEF LockIsYoung
<1>3. ASSUME NEW p \in Proc, Start(p) \/ Step(p) \/ Kill(p) PROVE LockInv'
  <2>1. CASE \/ Start(p) \/ ClearDone(p) \/ LockRetry(p)
             \/ CheckIsFile(p) \/ CheckAge(p) \/ FindTag(p) \/ ReadTag(p)
             \/ Request304(p) \/ Request200(p) \/ RequestFails(p) \/ ReadBytes(p)
    <3>1. Moves(p) /\ UNCHANGED <<now, dir>>
      BY <2>1, QuietMoves
    <3> QED
      BY <2>1, <3>1, LockLeftAlone, LockKept
  <2>2. CASE ClearStat(p)
    <3>1. Moves(p) /\ UNCHANGED <<now, dir>>
      BY <2>2, QuietMoves
    <3>2. Age("lock") >= 0 /\ Age("lock") < MaxAge
      <4>1. 0 < MaxAge
        BY CacheAssumption, Constants
      <4>2. CASE dir["lock"].mtime \in now + 1 .. now + Resolution
        BY <4>1, <4>2 DEF Age
      <4>3. CASE dir["lock"].mtime \notin now + 1 .. now + Resolution
        <5>1. Age("lock") = now - dir["lock"].mtime
          BY <4>3 DEF Age
        <5>2. dir["lock"].mtime <= now
          BY <1>1, <1>2, <1>7, <4>3, Constants
        <5> QED
          BY <1>1, <1>2, <5>1, <5>2, Constants
      <4> QED
        BY <4>2, <4>3
    <3>3. PICK f \in call[p].scan :
            IF Exists(f) /\ (Age(f) < 0 \/ Age(f) >= MaxAge)
            THEN call' = [call EXCEPT ![p].scan = @ \ {f}, ![p].file = f, ![p].pc = "unlink"]
            ELSE call' = [call EXCEPT ![p].scan = @ \ {f}]
      BY <2>2 DEF ClearStat
    <3>4. CASE f = "lock" \/ ~(Exists(f) /\ (Age(f) < 0 \/ Age(f) >= MaxAge))
      <4>1. call' = [call EXCEPT ![p].scan = @ \ {f}]
        <5>1. Age("lock") \in Int
          BY <1>1, <1>2, Constants DEF Age
        <5> QED
          BY <3>2, <3>3, <3>4, <5>1, Constants
      <4>2. call'[p].file = call[p].file /\ call'[p].lock = call[p].lock
            /\ call'[p].held = call[p].held
        BY <1>1, <4>1 DEF CallType
      <4> QED
        BY <1>2, <3>1, <4>2, LockKept
    <3>5. CASE f # "lock" /\ Exists(f) /\ (Age(f) < 0 \/ Age(f) >= MaxAge)
      <4>1. call' = [call EXCEPT ![p].scan = @ \ {f}, ![p].file = f, ![p].pc = "unlink"]
        BY <3>3, <3>5
      <4>2. call'[p].file = f /\ call'[p].lock = call[p].lock /\ call'[p].held = call[p].held
        BY <1>1, <4>1 DEF CallType
      <4> QED
        BY <1>2, <3>1, <3>5, <4>2, LockKept
    <3> QED
      BY <3>4, <3>5
  <2>3. CASE ClearUnlink(p)
    <3>1. Moves(p) /\ now' = now
      BY <2>3, FileMoves
    <3>2. dir' = [dir EXCEPT ![call[p].file] = None] /\ call[p].file # "lock"
          /\ call' = [call EXCEPT ![p].pc = "clear", ![p].file = None]
      BY <1>2, <2>3 DEF ClearUnlink
    <3>3. dir'["lock"] = dir["lock"]
      BY <1>1, <3>2 DEF Path
    <3>4. call'[p].file = None /\ call'[p].lock = call[p].lock /\ call'[p].held = call[p].held
      BY <1>1, <3>2 DEF CallType
    <3> QED
      BY <1>2, <3>1, <3>3, <3>4, LockKept, Constants DEF Path
  <2>4. CASE LockOpen(p)
    <3>1. Moves(p) /\ now' = now
      BY <2>4, FileMoves
    <3>2. PICK t \in Stamps :
          /\ dir' = [dir EXCEPT !["lock"] = OpenForWriting("lock", t)]
          /\ call' = [call EXCEPT ![p].lock = dir'["lock"].ino, ![p].pc = "flock"]
      BY <2>4 DEF LockOpen
    <3>3. dir'["lock"] = OpenForWriting("lock", t)
      BY <1>1, <3>2 DEF Path
    <3>4. dir'["lock"] # None /\ dir'["lock"].ino = 3 /\ dir'["lock"].mtime = t
      BY <1>2, <3>3, OpenedFile DEF Path
    <3>5. call'[p].lock = 3 /\ call'[p].file = call[p].file /\ call'[p].held = call[p].held
      BY <1>1, <3>2, <3>4 DEF CallType
    <3>6. \A q \in Proc : q # p => call'[q] = call[q]
      BY <1>1, <3>1 DEF Moves
    <3>7. OneHolder'
      BY <3>5, <3>6 DEF LockInv, OneHolder
    <3>8. t <= now + Skew /\ MaxTime < t + MaxAge
      BY <1>1, <1>7, Constants DEF Stamps
    <3> QED
      BY <1>1, <1>2, <3>1, <3>4, <3>5, <3>6, <3>7, <3>8, Constants DEF LockInv, Exists
  <2>5. CASE LockAcquire(p)
    <3>1. Moves(p) /\ UNCHANGED <<now, dir>>
      BY <2>5, QuietMoves
    <3>2. /\ call[p].pc = "flock" /\ call' = [call EXCEPT ![p].held = TRUE, ![p].pc = "is_file"]
          /\ \A q \in Proc : call[q].held => call[q].lock # call[p].lock
      BY <2>5 DEF LockAcquire
    <3>3. call'[p].file = call[p].file /\ call'[p].lock = call[p].lock
      BY <1>1, <3>2 DEF CallType
    <3>4. \A q \in Proc : call[q].held => call[q].lock = 3
      BY <1>1, <1>2, Constants DEF WellTyped
    <3>5. call[p].lock = 3
      BY <1>1, <1>2, <3>2, Constants DEF WellTyped
    <3>6. \A q \in Proc : ~call[q].held
      BY <3>2, <3>4, <3>5
    <3> QED
      BY <1>2, <3>1, <3>3, <3>6, LockKept
  <2>6. CASE WriteOpen(p) \/ WriteBytes(p) \/ WriteTag(p)
    <3>1. Moves(p) /\ now' = now
      BY <2>6, FileMoves
    <3>2. dir'["lock"] = dir["lock"]
      BY <1>1, <2>6 DEF WriteOpen, WriteBytes, WriteTag, Path
    <3>3. call'[p].file = call[p].file /\ call'[p].lock = call[p].lock
          /\ call'[p].held = call[p].held
      BY <1>1, <2>6 DEF WriteOpen, WriteBytes, WriteTag, CallType
    <3> QED
      BY <1>2, <3>1, <3>2, <3>3, LockKept
  <2>7. CASE Kill(p)
    <3>1. Moves(p) /\ now' = now
      BY <2>7, FileMoves
    <3>2. dir'["lock"] = dir["lock"]
      BY <1>1, <2>7 DEF Kill, Path
    <3>3. call'[p].file = call[p].file /\ call'[p].lock = None /\ ~call'[p].held
      BY <1>1, <2>7 DEF Kill, Leave, CallType
    <3> QED
      BY <1>2, <3>1, <3>2, <3>3, LockKept
  <2> QED
    BY <1>3, <2>1, <2>2, <2>3, <2>4, <2>5, <2>6, <2>7 DEF Step, Download
<1>4. CASE Publish
  BY <1>4 DEF Publish, LockInv, Exists, OneHolder
<1>5. CASE Tick
  <2>1. UNCHANGED <<dir, call>> /\ now' = now + 1
    BY <1>5 DEF Tick
  <2>2. dir["lock"].mtime <= now' + Skew
    BY <1>1, <1>2, <2>1, Constants
  <2> QED
    BY <2>1, <2>2 DEF LockInv, Exists, OneHolder
<1>6. CASE UNCHANGED vars
  BY <1>6 DEF vars, LockInv, Exists, OneHolder
<1> QED
  BY <1>3, <1>4, <1>5, <1>6 DEF Next

LEMMA LockAlways == ASSUME LockIsYoung PROVE Spec => []LockInv
BY InitTypes, NextTypes, InitLock, NextLock, PTL DEF Spec

-----------------------------------------------------------------------------
(* The files, without crashes. *)

LEMMA Alone ==
    ASSUME TypeInv, LockInv, NEW p \in Proc, call[p].pc \in Loading
    PROVE  \A q \in Proc : q # p => call[q].pc \notin Loading
BY DEF TypeInv, WellTyped, LockInv, OneHolder

(* Past the lock and not writing, a call finds a whole file or none.         *)
LEMMA WholeFile ==
    ASSUME TypeInv, LockInv, FilesInv, NEW p \in Proc, call[p].pc \in Loading \ {"write"},
           Exists("destination")
    PROVE  /\ dir["destination"] \in [ino : Nat, data : Version, mtime : Nat]
           /\ dir["destination"].data <= server
           /\ \/ dir["destination"].mtime \in Future
              \/ ServedNear(dir["destination"].data, dir["destination"].mtime)
           /\ Exists("etag") => dir["etag"].data <= dir["destination"].data
<1>1. \A q \in Proc : call[q].pc # "write"
  BY Alone DEF Loading
<1>2. dir["destination"].data # Truncated
  BY <1>1 DEF FilesInv
<1>3. dir["destination"] \in [ino : Nat, data : {Truncated} \union Version, mtime : Nat]
  BY DEF TypeInv, FileType, Exists, Path
<1> QED
  BY <1>2, <1>3 DEF FilesInv

LEMMA InitCache == Init => CacheInv
<1> SUFFICES ASSUME Init PROVE CacheInv
  OBVIOUS
<1>1. /\ now = Epoch /\ server \in Version
      /\ superseded = [v \in Version |-> IF v < server THEN Epoch ELSE Forever]
      /\ \A p \in Proc : call[p] = NewCall
  BY DEF Init
<1>2. PICK l \in LockMTime, d \in (0 .. Epoch + Skew) \union Future, v \in 1 .. server, cached \in BOOLEAN :
           dir = [ destination |-> IF cached THEN [ino |-> 1, data |-> v, mtime |-> d] ELSE None,
                   etag |-> IF cached /\ v \notin Untagged
                            THEN [ino |-> 2, data |-> v, mtime |-> d] ELSE None,
                   lock |-> [ino |-> 3, data |-> Truncated, mtime |-> l] ]
  BY DEF Init
<1>3. /\ l \in Nat /\ (l <= Epoch + Skew \/ l \in Future)
      /\ d \in Nat /\ (d <= Epoch + Skew \/ d \in Future)
      /\ v \in Version /\ server \in Nat
  BY <1>1, CacheAssumption, Constants DEF Version
<1>4. /\ Exists("etag") => dir["etag"].data = v /\ dir["etag"].mtime = d
      /\ Exists("destination") => dir["destination"].data = v /\ dir["destination"].mtime = d
      /\ dir["lock"].mtime = l
  BY <1>2 DEF Exists
<1>5. superseded[v] >= Epoch
  BY <1>1, <1>3, Constants DEF Forever
<1>6. TimeInv
  BY <1>1, <1>3, <1>4, Constants DEF TimeInv, NewCall, Path
<1>7. FilesInv
  <2>1. d \in Future \/ superseded[v] >= d - Skew - WriteDelay
    <3>1. superseded[v] \in Int /\ d \in Int /\ (d <= Epoch + Skew \/ d \in Future)
      BY <1>1, <1>3, Constants DEF Forever
    <3> QED
      BY <1>5, <3>1, Constants
  <2>2. v \in 1 .. server /\ v <= server /\ v # Truncated /\ v <= v
    BY <1>3 DEF Truncated
  <2> QED
    BY <1>4, <2>1, <2>2 DEF FilesInv, ServedNear
<1>8. CallInv(NewCall)
  BY DEF CallInv, NewCall, Ends
<1> QED
  BY <1>1, <1>6, <1>7, <1>8 DEF CacheInv

(* A step that changes only one call: what is left to show is what it knows  *)
(* of the files.                                                             *)
LEMMA QuietKeeps ==
    ASSUME TypeInv, CacheInv, NEW p \in Proc, Moves(p),
           UNCHANGED <<now, server, superseded, dir>>, call[p].pc # "write",
           CallInv(call'[p]), call'[p].start <= now, call'[p].gotAt <= now
    PROVE  CacheInv'
<1>1. \A q \in Proc : q # p => call'[q] = call[q]
  BY DEF TypeInv, Moves
<1>2. TimeInv'
  BY <1>1 DEF CacheInv, TimeInv, Exists
<1>3. FilesInv'
  <2>1. \A q \in Proc : call[q].pc = "write" => call'[q].pc = "write"
    BY <1>1
  <2> QED
    BY <2>1 DEF CacheInv, FilesInv, Exists, ServedNear
<1>4. \A q \in Proc : CallInv(call'[q])
  BY <1>1 DEF CacheInv
<1>5. \A q \in Proc : CallInv(call[q])'
  BY <1>4 DEF CallInv, Exists, Recent, Vouched
<1> QED
  BY <1>2, <1>3, <1>5 DEF CacheInv

(* What a call knows that has not yet sent a request, or will send none.     *)
LEMMA EarlyCalls ==
    ASSUME NEW c,
           \/ /\ c.pc \in {"clear", "unlink", "open", "flock", "is_file", "age", "tag",
                            "read_tag", "request"}
              /\ c.sent = None /\ c.got = None
           \/ c.pc \in Ends \ {"returned"}
    PROVE  CallInv(c)
BY DEF CallInv, Ends

(* The steps before the request, but those that need the files. *)
LEMMA EarlyMoves ==
    ASSUME TypeInv, CacheInv, NEW p \in Proc,
           \/ Start(p) \/ ClearStat(p) \/ ClearDone(p) \/ LockAcquire(p) \/ LockRetry(p)
           \/ CheckIsFile(p) \/ FindTag(p) \/ RequestFails(p)
    PROVE  CacheInv'
<1>1. /\ call \in [Proc -> CallType] /\ CallInv(call[p]) /\ now \in Nat
      /\ call[p].start <= now /\ call[p].gotAt <= now
  BY Constants DEF TypeInv, CacheInv, TimeInv
<1>2. Moves(p) /\ UNCHANGED <<now, server, superseded, dir>>
  BY QuietMoves
<1>3. CASE RequestFails(p)
  <2>1. /\ call'[p].pc = "HTTPError" /\ call[p].pc = "request"
        /\ call'[p].start = call[p].start /\ call'[p].gotAt = call[p].gotAt
    BY <1>1, <1>3 DEF RequestFails, Leave, CallType
  <2> QED
    BY <1>1, <1>2, <2>1, EarlyCalls, QuietKeeps DEF Ends
<1>4. CASE \/ Start(p) \/ ClearStat(p) \/ ClearDone(p) \/ LockAcquire(p) \/ LockRetry(p)
           \/ CheckIsFile(p) \/ FindTag(p)
  <2>1. /\ call[p].pc \in {"idle", "clear", "flock", "is_file", "tag"}
        /\ call'[p].pc \in {"clear", "unlink", "open", "is_file", "age", "tag",
                            "read_tag", "request"}
        /\ call'[p].sent = call[p].sent /\ call'[p].got = call[p].got
        /\ call'[p].gotAt = call[p].gotAt
        /\ call'[p].start \in {now, call[p].start}
    <3>1. CASE Start(p)
      BY <1>1, <3>1 DEF Start, CallType
    <3>2. CASE ClearStat(p)
      <4>1. PICK f \in call[p].scan :
                \/ call' = [call EXCEPT ![p].scan = @ \ {f}, ![p].file = f, ![p].pc = "unlink"]
                \/ call' = [call EXCEPT ![p].scan = @ \ {f}]
        BY <3>2 DEF ClearStat
      <4>2. call[p].pc = "clear"
        BY <3>2 DEF ClearStat
      <4>3. CASE call' = [call EXCEPT ![p].scan = @ \ {f}, ![p].file = f, ![p].pc = "unlink"]
        BY <1>1, <4>2, <4>3 DEF CallType
      <4>4. CASE call' = [call EXCEPT ![p].scan = @ \ {f}]
        BY <1>1, <4>2, <4>4 DEF CallType
      <4> QED
        BY <4>1, <4>3, <4>4
    <3>3. CASE ClearDone(p)
      BY <1>1, <3>3 DEF ClearDone, CallType
    <3>4. CASE LockAcquire(p)
      BY <1>1, <3>4 DEF LockAcquire, CallType
    <3>5. CASE LockRetry(p)
      BY <1>1, <3>5 DEF LockRetry, CallType
    <3>6. CASE CheckIsFile(p)
      BY <1>1, <3>6 DEF CheckIsFile, CallType
    <3>7. CASE FindTag(p)
      BY <1>1, <3>7 DEF FindTag, CallType
    <3> QED
      BY <1>4, <3>1, <3>2, <3>3, <3>4, <3>5, <3>6, <3>7
  <2>2. call[p].sent = None /\ call[p].got = None
    BY <1>1, <2>1 DEF CallInv, Ends
  <2>3. CallInv(call'[p])
    BY <2>1, <2>2, EarlyCalls
  <2> QED
    BY <1>1, <1>2, <2>1, <2>3, QuietKeeps
<1> QED
  BY <1>3, <1>4

(* A file that is fresh was being served at most FreshFor, and the time of a *)
(* write, before the call began.                                             *)
LEMMA CheckAgeKeeps ==
    ASSUME TypeInv, LockInv, CacheInv, NEW p \in Proc, CheckAge(p)
    PROVE  CacheInv'
<1>1. /\ call \in [Proc -> CallType] /\ CallInv(call[p]) /\ now \in Nat
      /\ call[p].start <= now /\ call[p].gotAt <= now /\ call[p].start \in Nat
      /\ superseded \in [Version -> Epoch .. Forever]
  BY Constants DEF TypeInv, CacheInv, TimeInv, CallType
<1>2. Moves(p) /\ UNCHANGED <<now, server, superseded, dir>>
  BY QuietMoves
<1>3. call[p].pc = "age" /\ call[p].sent = None /\ call[p].got = None
  BY <1>1 DEF CheckAge, CallInv, Ends
<1>4. CASE ~Exists("destination")
  <2>1. /\ call'[p].pc = "RuntimeError"
        /\ call'[p].start = call[p].start /\ call'[p].gotAt = call[p].gotAt
    BY <1>1, <1>4 DEF CheckAge, Leave, CallType
  <2> QED
    BY <1>1, <1>2, <1>3, <2>1, EarlyCalls, QuietKeeps DEF Ends
<1>5. CASE Exists("destination")
  <2>1. call' = [call EXCEPT ![p].pc =
                IF Age("destination") \in 0 .. FreshFor - 1 THEN "read" ELSE "tag"]
    BY <1>5 DEF CheckAge
  <2>2. /\ call'[p].sent = None /\ call'[p].got = None
        /\ call'[p].start = call[p].start /\ call'[p].gotAt = call[p].gotAt
    BY <1>1, <1>3, <2>1 DEF CallType
  <2>3. CASE Age("destination") \in 0 .. FreshFor - 1
    <3>1. call'[p].pc = "read"
      BY <1>1, <2>1, <2>3 DEF CallType
    <3> DEFINE v == dir["destination"].data
               m == dir["destination"].mtime
    <3>2. v \in Version /\ m \in Nat /\ (m \in Future \/ ServedNear(v, m))
      BY <1>3, <1>5, WholeFile DEF CacheInv, Loading
    <3>6. m <= now + Resolution /\ now - m <= FreshFor - 1
      <4>1. now <= MaxTime
        BY DEF TypeInv
      <4>2. CASE m \in now + 1 .. now + Resolution
        <5>1. Age("destination") = 0
          BY <4>2 DEF Age
        <5> QED
          BY <1>1, <2>3, <3>2, <4>2, <5>1, Constants
      <4>3. CASE m \notin now + 1 .. now + Resolution
        <5>1. Age("destination") = now - m
          BY <4>3 DEF Age
        <5> QED
          BY <1>1, <2>3, <3>2, <4>3, <5>1, Constants
      <4> QED
        BY <4>2, <4>3
    <3>7. m \notin Future
      <4>1. now <= MaxTime /\ MaxTime \in Nat
        BY Constants DEF TypeInv
      <4> QED
        BY <1>1, <3>2, <3>6, <4>1, Constants
    <3>3. superseded[v] \in Int /\ superseded[v] >= m - Skew - WriteDelay
      BY <1>1, <3>2, <3>7, Constants DEF ServedNear, Forever
    <3>4. Recent(v, call'[p])
      BY <1>1, <2>2, <3>2, <3>3, <3>6, Constants DEF Recent
    <3>5. CallInv(call'[p])
      BY <2>2, <3>1, <3>4 DEF CallInv, Vouched, Ends
    <3> QED
      BY <1>1, <1>2, <1>3, <2>2, <3>5, QuietKeeps
  <2>4. CASE ~(Age("destination") \in 0 .. FreshFor - 1)
    <3>1. call'[p].pc = "tag"
      BY <1>1, <2>1, <2>4 DEF CallType
    <3> QED
      BY <1>1, <1>2, <1>3, <2>2, <3>1, EarlyCalls, QuietKeeps
  <2> QED
    BY <2>3, <2>4
<1> QED
  BY <1>4, <1>5

(* The ETag that is sent is not of a version after that of the file. *)
LEMMA ReadTagKeeps ==
    ASSUME TypeInv, LockInv, CacheInv, NEW p \in Proc, ReadTag(p)
    PROVE  CacheInv'
<1>1. /\ call \in [Proc -> CallType] /\ CallInv(call[p])
      /\ call[p].start <= now /\ call[p].gotAt <= now
  BY DEF TypeInv, CacheInv, TimeInv
<1>2. Moves(p) /\ UNCHANGED <<now, server, superseded, dir>>
  BY QuietMoves
<1>3. call[p].pc = "read_tag" /\ call[p].sent = None /\ call[p].got = None
  BY <1>1 DEF ReadTag, CallInv, Ends
<1>4. CASE ~Exists("etag")
  <2>1. /\ call'[p].pc = "FileNotFoundError"
        /\ call'[p].start = call[p].start /\ call'[p].gotAt = call[p].gotAt
    BY <1>1, <1>4 DEF ReadTag, Leave, CallType
  <2> QED
    BY <1>1, <1>2, <1>3, <2>1, EarlyCalls, QuietKeeps DEF Ends
<1>5. CASE Exists("etag")
  <2>1. /\ call'[p].pc = "request" /\ call'[p].sent = dir["etag"].data
        /\ call'[p].got = None
        /\ call'[p].start = call[p].start /\ call'[p].gotAt = call[p].gotAt
    BY <1>1, <1>3, <1>5 DEF ReadTag, CallType
  <2>2. Exists("destination") => dir["etag"].data <= dir["destination"].data
    BY <1>3, <1>5, WholeFile DEF CacheInv, Loading
  <2>3. CallInv(call'[p])
    BY <2>1, <2>2 DEF CallInv, Ends
  <2> QED
    BY <1>1, <1>2, <1>3, <2>1, <2>3, QuietKeeps
<1> QED
  BY <1>4, <1>5

(* A 304 says that the file, which is not older than its ETag, is current.   *)
LEMMA Request304Keeps ==
    ASSUME 0 < FreshFor + WriteDelay, TypeInv, LockInv, CacheInv, NEW p \in Proc, Request304(p)
    PROVE  CacheInv'
<1>1. /\ call \in [Proc -> CallType] /\ CallInv(call[p])
      /\ call[p].start <= now /\ call[p].gotAt <= now
      /\ call[p].start \in Epoch .. MaxTime
      /\ server \in Version /\ superseded[server] = Forever
  BY Constants DEF TypeInv, CacheInv, TimeInv, CallType, Version
<1>2. Moves(p) /\ UNCHANGED <<now, server, superseded, dir>>
  BY QuietMoves
<1>3. /\ call[p].pc = "request" /\ call[p].sent = server
      /\ call' = [call EXCEPT ![p].pc = "read"]
  BY DEF Request304, NotModified
<1>4. /\ call'[p].pc = "read" /\ call'[p].start = call[p].start
      /\ call'[p].gotAt = call[p].gotAt
  BY <1>1, <1>3 DEF CallType
<1>5. Exists("destination") => dir["destination"].data = server
  <2> SUFFICES ASSUME Exists("destination") PROVE dir["destination"].data = server
    OBVIOUS
  <2>1. dir["destination"].data \in Version /\ dir["destination"].data <= server
    BY <1>3, WholeFile DEF CacheInv, Loading
  <2>2. server # None
    BY <1>1, Constants DEF Version
  <2>3. server <= dir["destination"].data
    BY <1>1, <1>3, <2>2 DEF CallInv
  <2> QED
    BY <1>1, <2>1, <2>3, Constants DEF Version
<1>6. Forever > call[p].start - FreshFor - Skew - WriteDelay /\ Forever >= call[p].start
  BY <1>1, Constants DEF Forever
<1>7. CallInv(call'[p])
  BY <1>1, <1>4, <1>5, <1>6 DEF CallInv, Recent, Ends
<1> QED
  BY <1>1, <1>2, <1>3, <1>4, <1>7, QuietKeeps

LEMMA Request200Keeps ==
    ASSUME TypeInv, CacheInv, NEW p \in Proc, Request200(p)
    PROVE  CacheInv'
<1>1. /\ call \in [Proc -> CallType] /\ now \in Epoch .. MaxTime
      /\ call[p].start <= now /\ superseded[server] = Forever
      /\ server \in Nat
      /\ Exists("etag") => dir["etag"].data <= server
  <2>1. server \in Version /\ server \in Nat
    BY Constants DEF TypeInv, Version
  <2>2. Exists("etag") => dir["etag"].data \in 1 .. server
    BY DEF CacheInv, FilesInv
  <2> QED
    BY <2>1, <2>2 DEF TypeInv, CacheInv, TimeInv
<1>2. Moves(p) /\ UNCHANGED <<now, server, superseded, dir>>
  BY QuietMoves
<1>3. /\ call[p].pc = "request"
      /\ call' = [call EXCEPT ![p].got = server, ![p].gotAt = now, ![p].pc = "truncate"]
  BY DEF Request200
<1>4. /\ call'[p].pc = "truncate" /\ call'[p].got = server /\ call'[p].gotAt = now
      /\ call'[p].start = call[p].start
  BY <1>1, <1>3 DEF CallType
<1>5. now <= Forever /\ now <= now + WriteDelay /\ now <= now /\ server <= server
  BY <1>1, Constants DEF Forever
<1>6. CallInv(call'[p])
  BY <1>1, <1>4, <1>5 DEF CallInv, Ends
<1> QED
  BY <1>1, <1>2, <1>3, <1>4, <1>5, <1>6, QuietKeeps

(* What a call returns is what it found when it was last known of the file.  *)
LEMMA ReadBytesKeeps ==
    ASSUME TypeInv, LockInv, CacheInv, NEW p \in Proc, ReadBytes(p)
    PROVE  CacheInv'
<1>1. /\ call \in [Proc -> CallType] /\ CallInv(call[p])
      /\ call[p].start <= now /\ call[p].gotAt <= now /\ call[p].pc = "read"
  BY DEF TypeInv, CacheInv, TimeInv, ReadBytes
<1>2. Moves(p) /\ UNCHANGED <<now, server, superseded, dir>>
  BY QuietMoves
<1>3. CASE ~Exists("destination")
  <2>1. /\ call'[p].pc = "FileNotFoundError"
        /\ call'[p].start = call[p].start /\ call'[p].gotAt = call[p].gotAt
    BY <1>1, <1>3 DEF ReadBytes, Leave, CallType
  <2> QED
    BY <1>1, <1>2, <2>1, EarlyCalls, QuietKeeps DEF Ends
<1>4. CASE Exists("destination")
  <2>1. /\ call'[p].pc = "returned" /\ call'[p].result = dir["destination"].data
        /\ call'[p].start = call[p].start /\ call'[p].gotAt = call[p].gotAt
        /\ call'[p].sent = call[p].sent /\ call'[p].got = call[p].got
    BY <1>1, <1>4 DEF ReadBytes, Leave, CallType
  <2>2. dir["destination"].data \in Version
    BY <1>1, <1>4, WholeFile DEF CacheInv, Loading
  <2>3. CallInv(call'[p])
    BY <1>1, <1>4, <2>1, <2>2 DEF CallInv, Recent, Vouched, Ends
  <2> QED
    BY <1>1, <1>2, <2>1, <2>3, QuietKeeps
<1> QED
  BY <1>3, <1>4

(* Clearing and locking: of the destination and its ETag each stays as it is *)
(* or goes away.                                                             *)
LEMMA ClearedKeeps ==
    ASSUME TypeInv, CacheInv, NEW p \in Proc, ClearUnlink(p) \/ LockOpen(p)
    PROVE  CacheInv'
<1>1. /\ call \in [Proc -> CallType] /\ CallInv(call[p]) /\ now \in Nat
      /\ call[p].start <= now /\ call[p].gotAt <= now
      /\ dir \in [Path -> FileType]
  BY Constants DEF TypeInv, CacheInv, TimeInv
<1>2. Moves(p) /\ UNCHANGED <<now, server, superseded>>
  BY FileMoves
<1>3. \A f \in {"destination", "etag"} : dir'[f] \in {dir[f], None}
  BY <1>1 DEF ClearUnlink, LockOpen, Path
<1>4. dir'["lock"] \in {dir["lock"], None} \/ dir'["lock"].mtime <= now + Skew
  <2>1. CASE ClearUnlink(p)
    BY <1>1, <2>1 DEF ClearUnlink, Path
  <2>2. CASE LockOpen(p)
    <3>1. PICK t \in Stamps : dir' = [dir EXCEPT !["lock"] = OpenForWriting("lock", t)]
      BY <2>2 DEF LockOpen
    <3>2. dir'["lock"].mtime = t /\ t <= now + Skew
      BY <1>1, <3>1, OpenedFile DEF Path
    <3> QED
      BY <3>2
  <2> QED
    BY <2>1, <2>2
<1>5. /\ call[p].pc \in {"unlink", "open"} /\ call'[p].pc \in {"clear", "flock"}
      /\ call'[p].sent = call[p].sent /\ call'[p].got = call[p].got
      /\ call'[p].start = call[p].start /\ call'[p].gotAt = call[p].gotAt
  <2>1. CASE ClearUnlink(p)
    BY <1>1, <2>1 DEF ClearUnlink, CallType
  <2>2. CASE LockOpen(p)
    BY <1>1, <2>2 DEF LockOpen, CallType
  <2> QED
    BY <2>1, <2>2
<1>6. \A q \in Proc : q # p => call'[q] = call[q]
  BY <1>1, <1>2 DEF Moves
<1>7. TimeInv'
  <2>1. \A f \in Path : Exists(f)' => dir'[f].mtime <= now + Skew \/ dir'[f].mtime \in Future
    BY <1>1, <1>3, <1>4 DEF CacheInv, TimeInv, Exists, Path
  <2> QED
    BY <1>1, <1>2, <1>5, <1>6, <2>1 DEF CacheInv, TimeInv
<1>8. FilesInv'
  <2>1. \A q \in Proc : call[q].pc = "write" => call'[q].pc = "write"
    BY <1>5, <1>6
  <2> QED
    BY <1>2, <1>3, <2>1 DEF CacheInv, FilesInv, Exists, ServedNear
<1>9. ASSUME NEW q \in Proc PROVE CallInv(call[q])'
  <2>1. CASE q = p
    BY <1>1, <1>5, <2>1 DEF CallInv, Ends
  <2>2. CASE q # p
    <3>1. CallInv(call[q]) /\ call'[q] = call[q]
      BY <1>6, <2>2 DEF CacheInv
    <3> QED
      BY <1>2, <1>3, <3>1 DEF CallInv, Exists, Recent, Vouched
  <2> QED
    BY <2>1, <2>2
<1> QED
  BY <1>7, <1>8, <1>9 DEF CacheInv

(* What the others know while one call writes. *)
LEMMA OthersKnow ==
    ASSUME TypeInv, LockInv, CacheInv, NEW p \in Proc, Moves(p), call[p].pc \in Loading,
           UNCHANGED superseded
    PROVE  \A q \in Proc : q # p => CallInv(call[q])'
<1> SUFFICES ASSUME NEW q \in Proc, q # p PROVE CallInv(call[q])'
  OBVIOUS
<1>1. CallInv(call[q]) /\ call'[q] = call[q]
  BY DEF CacheInv, Moves, TypeInv
<1>2. call[q].pc \notin Loading
  BY Alone
<1> QED
  BY <1>1, <1>2 DEF CallInv, Loading, Recent, Vouched

LEMMA WriteOpenKeeps ==
    ASSUME TypeInv, LockInv, CacheInv, NEW p \in Proc, WriteOpen(p)
    PROVE  CacheInv'
<1>1. /\ call \in [Proc -> CallType] /\ CallInv(call[p]) /\ now \in Nat /\ server \in Nat
      /\ call[p].start <= now /\ call[p].gotAt <= now
      /\ dir \in [Path -> FileType]
  BY Constants DEF TypeInv, CacheInv, TimeInv, Version
<1>2. Moves(p) /\ UNCHANGED <<now, server, superseded>>
  BY FileMoves
<1>3. PICK t \in Stamps :
      /\ call[p].pc = "truncate"
      /\ dir' = [dir EXCEPT !["destination"] = OpenForWriting("destination", t)]
      /\ call' = [call EXCEPT ![p].fd = dir'["destination"].ino, ![p].pc = "write"]
  BY DEF WriteOpen
<1>4. /\ dir'["destination"] = OpenForWriting("destination", t)
      /\ dir'["destination"].data = Truncated
      /\ dir'["destination"].mtime = t /\ t <= now + Skew
      /\ dir'["etag"] = dir["etag"] /\ dir'["lock"] = dir["lock"]
  BY <1>1, <1>3, OpenedFile DEF Path
<1>5. /\ call'[p].pc = "write" /\ call'[p].fd = dir'["destination"].ino
      /\ call'[p].got = call[p].got /\ call'[p].sent = call[p].sent
      /\ call'[p].start = call[p].start /\ call'[p].gotAt = call[p].gotAt
  BY <1>1, <1>3 DEF CallType
<1>6. \A q \in Proc : q # p => call'[q] = call[q]
  BY <1>1, <1>2 DEF Moves
<1>7. TimeInv'
  <2>1. \A f \in Path : Exists(f)' => dir'[f].mtime <= now + Skew \/ dir'[f].mtime \in Future
    BY <1>1, <1>4 DEF CacheInv, TimeInv, Exists, Path
  <2> QED
    BY <1>1, <1>2, <1>5, <1>6, <2>1 DEF CacheInv, TimeInv
<1>8. FilesInv'
  BY <1>1, <1>2, <1>4, <1>5 DEF CacheInv, FilesInv, Exists, Truncated
<1>9. CallInv(call[p])'
  BY <1>1, <1>2, <1>3, <1>4, <1>5 DEF CallInv, Exists, Ends
<1>10. \A q \in Proc : q # p => CallInv(call[q])'
  BY <1>2, <1>3, OthersKnow DEF Loading
<1> QED
  BY <1>7, <1>8, <1>9, <1>10 DEF CacheInv

(* What is written was being served when the response came, which was at     *)
(* most WriteDelay ago.                                                      *)
LEMMA WriteBytesKeeps ==
    ASSUME TypeInv, LockInv, CacheInv, NEW p \in Proc, WriteBytes(p)
    PROVE  CacheInv'
<1>1. /\ call \in [Proc -> CallType] /\ CallInv(call[p]) /\ now \in Nat /\ server \in Nat
      /\ call[p].start <= now /\ call[p].gotAt <= now /\ call[p].gotAt \in Nat
      /\ dir \in [Path -> FileType] /\ superseded \in [Version -> Epoch .. Forever]
  BY Constants DEF TypeInv, CacheInv, TimeInv, CallType, Version
<1>2. Moves(p) /\ UNCHANGED <<now, server, superseded>>
  BY FileMoves
<1>3. /\ call[p].pc = "write" /\ call[p].got \in Version
      /\ call' = [call EXCEPT ![p].fd = None, ![p].pc = "write_tag"]
  BY DEF WriteBytes, TypeInv, WellTyped
<1>4. /\ call[p].got <= server /\ call[p].start <= call[p].gotAt
      /\ call[p].gotAt <= superseded[call[p].got]
      /\ Exists("etag") => dir["etag"].data <= call[p].got
      /\ now <= call[p].gotAt + WriteDelay
      /\ Exists("destination") => dir["destination"].ino = call[p].fd
  BY <1>1, <1>3 DEF CallInv
<1>5. /\ Exists("destination")' <=> Exists("destination")
      /\ Exists("destination") =>
             /\ dir'["destination"].data = call[p].got
             /\ dir'["destination"].mtime \in Nat /\ dir'["destination"].mtime <= now + Skew
      /\ dir'["etag"] = dir["etag"] /\ dir'["lock"] = dir["lock"]
  <2>1. CASE Exists("destination")
    <3>1. PICK t \in Stamps :
              dir' = [dir EXCEPT !["destination"].data = call[p].got,
                                 !["destination"].mtime = t]
      BY <1>4, <2>1 DEF WriteBytes
    <3>5. t \in Nat /\ t <= now + Skew
      BY <1>1, Constants DEF Stamps
    <3>2. dir["destination"] \in [ino : Nat, data : {Truncated} \union Version, mtime : Nat]
      BY <1>1, <2>1 DEF Exists, FileType, Path
    <3>3. PICK i \in Nat : dir'["destination"] = [ino |-> i, data |-> call[p].got, mtime |-> t]
      BY <1>1, <3>1, <3>2 DEF Path
    <3>4. dir'["destination"] # None
      BY <1>1, <1>3, <3>3, <3>5, Constants DEF Version
    <3> QED
      BY <1>1, <2>1, <3>1, <3>3, <3>4, <3>5 DEF Exists, Path
  <2>2. CASE ~Exists("destination")
    BY <2>2 DEF WriteBytes, Exists
  <2> QED
    BY <2>1, <2>2
<1>6. /\ call'[p].pc = "write_tag" /\ call'[p].got = call[p].got
      /\ call'[p].sent = call[p].sent
      /\ call'[p].start = call[p].start /\ call'[p].gotAt = call[p].gotAt
  BY <1>1, <1>3 DEF CallType
<1>7. \A q \in Proc : q # p => call'[q] = call[q]
  BY <1>1, <1>2 DEF Moves
<1>8. TimeInv'
  <2>1. \A f \in Path : Exists(f)' => dir'[f].mtime <= now + Skew \/ dir'[f].mtime \in Future
    BY <1>1, <1>5 DEF CacheInv, TimeInv, Exists, Path
  <2> QED
    BY <1>1, <1>2, <1>6, <1>7, <2>1 DEF CacheInv, TimeInv
<1>9. FilesInv'
  <2>1. call[p].got # Truncated
    BY <1>3, Constants DEF Version, Truncated
  <2>2. Exists("destination") =>
            superseded[call[p].got] >= dir'["destination"].mtime - Skew - WriteDelay
    <3>1. superseded[call[p].got] \in Int
      BY <1>1, <1>3, Constants DEF Forever
    <3> QED
      BY <1>1, <1>4, <1>5, <3>1, Constants
  <2>3. Exists("etag") => dir["etag"].data \in 1 .. server
    BY DEF CacheInv, FilesInv
  <2> QED
    BY <1>2, <1>4, <1>5, <2>1, <2>2, <2>3 DEF FilesInv, Exists, ServedNear
<1>10. CallInv(call[p])'
  BY <1>2, <1>4, <1>5, <1>6 DEF CallInv, Exists, Ends
<1>11. \A q \in Proc : q # p => CallInv(call[q])'
  BY <1>2, <1>3, OthersKnow DEF Loading
<1> QED
  BY <1>8, <1>9, <1>10, <1>11 DEF CacheInv

LEMMA WriteTagKeeps ==
    ASSUME 0 < FreshFor + WriteDelay, TypeInv, LockInv, CacheInv, NEW p \in Proc, WriteTag(p)
    PROVE  CacheInv'
<1>1. /\ call \in [Proc -> CallType] /\ CallInv(call[p]) /\ now \in Nat /\ server \in Nat
      /\ call[p].start <= now /\ call[p].gotAt <= now
      /\ call[p].start \in Nat /\ call[p].gotAt \in Nat
      /\ dir \in [Path -> FileType] /\ superseded \in [Version -> Epoch .. Forever]
  BY Constants DEF TypeInv, CacheInv, TimeInv, CallType, Version
<1>2. Moves(p) /\ UNCHANGED <<now, server, superseded>>
  BY FileMoves
<1>3. /\ call[p].pc = "write_tag" /\ call[p].got \in Version /\ call[p].got \in 1 .. server
      /\ call' = [call EXCEPT ![p].pc = "read"]
      /\ \/ dir' = dir
         \/ \E t \in Stamps :
                dir' = [dir EXCEPT !["etag"] =
                           [OpenForWriting("etag", t) EXCEPT !.data = call[p].got]]
  <2>1. call[p].pc = "write_tag" /\ call[p].got \in Version
    BY DEF WriteTag, TypeInv, WellTyped
  <2>2. call[p].got <= server
    BY <1>1, <2>1 DEF CallInv
  <2> QED
    BY <1>1, <2>1, <2>2, Constants DEF WriteTag, Version
<1>4. /\ call[p].start <= call[p].gotAt /\ call[p].gotAt <= superseded[call[p].got]
      /\ Exists("destination") => dir["destination"].data = call[p].got
      /\ Exists("etag") => dir["etag"].data <= call[p].got
  BY <1>1, <1>3 DEF CallInv
<1>5. /\ dir'["destination"] = dir["destination"] /\ dir'["lock"] = dir["lock"]
      /\ \/ dir'["etag"] = dir["etag"]
         \/ dir'["etag"].data = call[p].got /\ dir'["etag"].mtime <= now + Skew
  <2>1. ASSUME NEW t \in Stamps
        PROVE  /\ OpenForWriting("etag", t) \in [ino : Nat, data : {Truncated}, mtime : {t}]
               /\ t <= now + Skew
    BY OpenedFile DEF Path
  <2>2. CASE dir' = dir
    BY <2>2
  <2>3. CASE \E t \in Stamps :
                dir' = [dir EXCEPT !["etag"] =
                           [OpenForWriting("etag", t) EXCEPT !.data = call[p].got]]
    BY <1>1, <2>1, <2>3 DEF Path
  <2> QED
    BY <1>3, <2>2, <2>3
<1>6. /\ call'[p].pc = "read" /\ call'[p].got = call[p].got
      /\ call'[p].start = call[p].start /\ call'[p].gotAt = call[p].gotAt
  BY <1>1, <1>3 DEF CallType
<1>7. \A q \in Proc : q # p => call'[q] = call[q]
  BY <1>1, <1>2 DEF Moves
<1>8. TimeInv'
  <2>1. \A f \in Path : Exists(f)' => dir'[f].mtime <= now + Skew \/ dir'[f].mtime \in Future
    BY <1>1, <1>5 DEF CacheInv, TimeInv, Exists, Path
  <2> QED
    BY <1>1, <1>2, <1>6, <1>7, <2>1 DEF CacheInv, TimeInv
<1>9. FilesInv'
  <2>1. call[p].got <= call[p].got /\ call[p].got # Truncated
    BY <1>3, Constants DEF Version, Truncated
  <2>2. \A q \in Proc : call[q].pc = "write" => call'[q].pc = "write"
    BY <1>3, <1>7
  <2> QED
    BY <1>2, <1>3, <1>4, <1>5, <2>1, <2>2 DEF CacheInv, FilesInv, Exists, ServedNear
<1>10. CallInv(call[p])'
  <2>1. superseded[call[p].got] > call[p].start - FreshFor - Skew - WriteDelay
    <3>1. superseded[call[p].got] \in Int
      BY <1>1, <1>3, Constants DEF Forever
    <3> QED
      BY <1>1, <1>4, <3>1, Constants
  <2>2. call[p].got # None
    BY <1>1, <1>3, Constants DEF Version
  <2> QED
    BY <1>2, <1>4, <1>5, <1>6, <2>1, <2>2 DEF CallInv, Exists, Recent, Vouched, Ends
<1>11. \A q \in Proc : q # p => CallInv(call[q])'
  BY <1>2, <1>3, OthersKnow DEF Loading
<1> QED
  BY <1>8, <1>9, <1>10, <1>11 DEF CacheInv

(* What is superseded now was being served until now. *)
LEMMA PublishKeeps ==
    ASSUME 0 < FreshFor + WriteDelay, TypeInv, CacheInv, Publish
    PROVE  CacheInv'
<1>1. /\ now \in Nat /\ server \in Nat /\ server \in Version
      /\ superseded \in [Version -> Epoch .. Forever]
      /\ call \in [Proc -> CallType] /\ dir \in [Path -> FileType]
      /\ \A v \in Version : superseded[v] \in Int
  BY Constants DEF TypeInv, Version, Forever
<1>2. /\ server' = server + 1 /\ superseded' = [superseded EXCEPT ![server] = now]
      /\ UNCHANGED <<now, dir, call>>
  BY DEF Publish
<1>3. \A v \in Version : superseded'[v] \in {superseded[v], now}
  BY <1>1, <1>2
<1>4. TimeInv'
  <2>1. \A v \in Version : v >= server' => superseded'[v] = Forever
    BY <1>1, <1>2, Constants DEF CacheInv, TimeInv, Version
  <2> QED
    BY <1>2, <2>1 DEF CacheInv, TimeInv, Exists
<1>5. FilesInv'
  <2>1. Exists("etag") => dir["etag"].data \in 1 .. server'
    BY <1>1, <1>2 DEF CacheInv, FilesInv
  <2>2. ASSUME Exists("destination")
        PROVE  /\ dir["destination"].data <= server'
               /\ dir["destination"].data # Truncated =>
                      \/ dir["destination"].mtime \in Future
                      \/ superseded'[dir["destination"].data]
                            >= dir["destination"].mtime - Skew - WriteDelay
    <3>1. dir["destination"] \in [ino : Nat, data : {Truncated} \union Version, mtime : Nat]
      BY <1>1, <2>2 DEF Exists, FileType, Path
    <3>2. /\ dir["destination"].data <= server'
          /\ dir["destination"].mtime <= now + Skew \/ dir["destination"].mtime \in Future
      BY <1>1, <1>2, <2>2, <3>1, Constants
      DEF CacheInv, FilesInv, TimeInv, Truncated, Version, Path
    <3>3. ASSUME dir["destination"].data # Truncated, dir["destination"].mtime \notin Future
          PROVE  superseded'[dir["destination"].data]
                   >= dir["destination"].mtime - Skew - WriteDelay
      <4>1. dir["destination"].data \in Version
        BY <3>1, <3>3
      <4>2. superseded[dir["destination"].data] >= dir["destination"].mtime - Skew - WriteDelay
        BY <2>2, <3>3 DEF CacheInv, FilesInv, ServedNear
      <4>3. now >= dir["destination"].mtime - Skew - WriteDelay
        BY <1>1, <3>1, <3>2, <3>3, Constants
      <4> QED
        BY <1>3, <4>1, <4>2, <4>3
    <3> QED
      BY <3>2, <3>3
  <2> QED
    BY <1>2, <2>1, <2>2 DEF CacheInv, FilesInv, Exists, ServedNear
<1>6. ASSUME NEW p \in Proc PROVE CallInv(call[p])'
  <2> DEFINE c == call[p]
  <2>1. /\ c.start \in Nat /\ c.gotAt \in Nat /\ c.start <= now /\ c.gotAt <= now
        /\ CallInv(c)
    BY <1>1, Constants DEF CallType, CacheInv, TimeInv
  <2>2. ASSUME NEW v \in Version
        PROVE  /\ superseded[v] > c.start - FreshFor - Skew - WriteDelay =>
                      superseded'[v] > c.start - FreshFor - Skew - WriteDelay
               /\ superseded[v] >= c.start => superseded'[v] >= c.start
               /\ c.gotAt <= superseded[v] => c.gotAt <= superseded'[v]
    <3>1. now > c.start - FreshFor - Skew - WriteDelay /\ now >= c.start /\ c.gotAt <= now
      BY <1>1, <2>1, Constants
    <3> QED
      BY <1>3, <3>1
  <2>3. c.pc \in {"truncate", "write", "write_tag"} => c.got \in Version /\ c.got <= server'
    BY <1>1, <1>2, <2>1, Constants DEF TypeInv, WellTyped, CallInv, Version
  <2>4. c.pc = "read" /\ Exists("destination") /\ dir["destination"].data \in Version =>
            /\ Recent(dir["destination"].data, c)'
            /\ Vouched(c) => superseded'[dir["destination"].data] >= c.start
    BY <1>2, <2>1, <2>2 DEF CallInv, Recent
  <2>5. c.pc = "read" /\ Exists("destination") /\ dir["destination"].data \notin Version =>
            /\ Recent(dir["destination"].data, c)'
            /\ Vouched(c) => superseded'[dir["destination"].data] >= c.start
    <3>1. dir["destination"].data \notin Version => dir["destination"].data # server
      BY <1>1
    <3> QED
      BY <1>1, <1>2, <2>1, <3>1 DEF CallInv, Recent
  <2> QED
    BY <1>2, <2>1, <2>2, <2>3, <2>4, <2>5 DEF CallInv, Exists, Recent, Vouched
<1> QED
  BY <1>4, <1>5, <1>6 DEF CacheInv

LEMMA TickKeeps ==
    ASSUME TypeInv, CacheInv, Tick
    PROVE  CacheInv'
<1>1. /\ now \in Nat /\ now' = now + 1 /\ UNCHANGED <<server, superseded, dir, call>>
      /\ \A p \in Proc : call[p].pc \in {"truncate", "write"} => now < call[p].gotAt + WriteDelay
      /\ call \in [Proc -> CallType] /\ dir \in [Path -> FileType]
  BY Constants DEF Tick, TypeInv
<1>2. /\ \A p \in Proc : call[p].start \in Nat /\ call[p].gotAt \in Nat
      /\ \A f \in Path : Exists(f) => dir[f].mtime \in Nat
  BY <1>1, Constants DEF CallType, FileType, Exists
<1>3. TimeInv'
  BY <1>1, <1>2, Constants DEF CacheInv, TimeInv, Exists
<1>4. FilesInv'
  BY <1>1 DEF CacheInv, FilesInv, Exists, ServedNear
<1>5. ASSUME NEW p \in Proc PROVE CallInv(call[p])'
  <2>1. CallInv(call[p])
    BY DEF CacheInv
  <2>2. call[p].pc \in {"truncate", "write"} => now' <= call[p].gotAt + WriteDelay
    BY <1>1, <1>2, Constants
  <2> QED
    BY <1>1, <2>1, <2>2 DEF CallInv, Exists, Recent, Vouched
<1> QED
  BY <1>3, <1>4, <1>5 DEF CacheInv

LEMMA NextCache ==
    ASSUME ~Crashes, 0 < FreshFor + WriteDelay, TypeInv, LockInv, CacheInv, [Next]_vars
    PROVE  CacheInv'
<1>1. ASSUME NEW p \in Proc, Start(p) \/ Step(p) \/ Kill(p) PROVE CacheInv'
  <2>1. ~Kill(p)
    BY DEF Kill
  <2> QED
    BY <1>1, <2>1, EarlyMoves, CheckAgeKeeps, ReadTagKeeps, Request304Keeps, Request200Keeps,
       ReadBytesKeeps, ClearedKeeps, WriteOpenKeeps, WriteBytesKeeps, WriteTagKeeps
    DEF Step, Download
<1>2. CASE UNCHANGED vars
  BY <1>2 DEF vars, CacheInv, TimeInv, FilesInv, CallInv, Exists, ServedNear, Recent, Vouched
<1> QED
  BY <1>1, <1>2, PublishKeeps, TickKeeps DEF Next

(* What the theorems below assume: the lock file is not cleared, and nobody  *)
(* is killed in the middle of a write.  Nothing is shown of a FreshFor and a *)
(* WriteDelay that are both 0, where a version may have been superseded in   *)
(* the instant in which it was asked for.                                    *)
CalmCache == LockIsYoung /\ ~Crashes /\ 0 < FreshFor + WriteDelay

LEMMA CacheAlways ==
    ASSUME CalmCache
    PROVE  Spec => []CacheInv
<1>1. LockIsYoung /\ ~Crashes /\ 0 < FreshFor + WriteDelay
  BY DEF CalmCache
<1>2. TypeInv /\ LockInv /\ CacheInv /\ [Next]_vars => CacheInv'
  BY <1>1, NextCache
<1>3. Spec => []TypeInv
  BY TypesAlways
<1>4. Spec => []LockInv
  BY <1>1, LockAlways
<1> QED
  BY <1>2, <1>3, <1>4, InitCache, PTL DEF Spec

(* No call of cached_download_file returns a file that another one has       *)
(* truncated and not yet written, for any processes and any times.           *)
THEOREM WholeFiles ==
    ASSUME CalmCache
    PROVE  Spec => []ReturnsWholeFile
<1>1. CacheInv => ReturnsWholeFile
  BY DEF CacheInv, CallInv, ReturnsWholeFile
<1> QED
  BY <1>1, CacheAlways, PTL

(* A file taken without asking the server, because it is fresh, or with a 304 *)
(* or a 200, is of a version that was served at most FreshFor, and the time  *)
(* of a write, before the call.                                              *)
THEOREM StalenessBounded ==
    ASSUME CalmCache
    PROVE  Spec => []BoundedStaleness
<1>1. CacheInv => BoundedStaleness
  BY DEF CacheInv, CallInv, Recent, BoundedStaleness
<1> QED
  BY <1>1, CacheAlways, PTL

(* The ETag that is sent is never newer than the file it is sent for, so that *)
(* a 304 vouches for the file that is returned.                              *)
THEOREM ValidatedCurrent ==
    ASSUME CalmCache
    PROVE  Spec => []ValidatedIsCurrent
<1>1. CacheInv => ValidatedIsCurrent
  BY DEF CacheInv, CallInv, Vouched, ValidatedIsCurrent
<1> QED
  BY <1>1, CacheAlways, PTL
=============================================================================
