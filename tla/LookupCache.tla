---------------------------- MODULE LookupCache ----------------------------
(***************************************************************************)
(* cached_download_file (conda_lock/lookup_cache.py): several processes     *)
(* fetch one URL through one cache directory.  The directory holds the      *)
(* downloaded file, its ETag and a lock file.  Old files are cleared        *)
(* WITHOUT the lock; the download itself happens with it.                   *)
(*                                                                          *)
(* Paths and files are kept apart: a lock, and a file opened for writing,   *)
(* belong to an inode, which unlinking the path leaves alive.  Contents and *)
(* ETags are stood for by the version of the remote file.                   *)
(***************************************************************************)
EXTENDS Integers, FiniteSets, FiniteSetsExt

CONSTANTS
    Proc,        \* processes, each of which makes one call
    None,        \* no file, no lock, no header, no response
    MaxVersion,  \* bound: versions the server publishes
    Untagged,    \* the versions served without an ETag header
    FreshFor,    \* dont_check_if_newer_than_seconds
    MaxAge,      \* max_age_seconds
    Epoch,       \* time at which the behaviour begins
    MaxTime,     \* bound: time at which it ends
    WriteDelay,  \* bound: time from a response to the end of its write
    Resolution,  \* TIMESTAMP_RESOLUTION_SECONDS
    Skew,        \* bound: how far ahead of the clock a file is dated when written
    Future,      \* dates, later than all that is tolerated, a file may have at Epoch
    LockMTime,   \* modification times the lock file may have at Epoch
    Crashes      \* whether processes may be killed

Version   == 1 .. MaxVersion
Truncated == 0           \* what a file holds between open(..., "w") and write
Forever   == MaxTime + 1
Path      == {"destination", "etag", "lock"}

ASSUME CacheAssumption ==
    /\ MaxVersion \in Nat \ {0}
    /\ Untagged \subseteq Version
    /\ {FreshFor, MaxAge, Epoch, MaxTime, WriteDelay, Resolution, Skew} \subseteq Nat
    /\ FreshFor < MaxAge /\ Epoch <= MaxTime
    /\ Future \subseteq {t \in Nat : t > MaxTime + Resolution}
    /\ LockMTime \subseteq (0 .. Epoch + Skew) \union Future
    /\ Crashes \in BOOLEAN
    /\ IsFiniteSet(Proc)
    /\ None \notin (Nat \union Path) \union [ino : Nat, data : Nat, mtime : Nat]

VARIABLES
    now,         \* wall-clock time
    server,      \* the version being served
    superseded,  \* [Version -> time at which it was replaced]
    dir,         \* [Path -> None or [ino, data, mtime]]
    call         \* [Proc -> the local state of its call]

vars == <<now, server, superseded, dir, call>>

(* Where a call is: "idle", the steps of cached_download_file, and its ends. *)
Ends  == {"returned", "FileNotFoundError", "RuntimeError", "HTTPError", "killed"}
Steps == {"clear", "unlink", "open", "flock", "is_file", "age", "tag", "read_tag",
          "request", "truncate", "write", "write_tag", "read"}

NewCall == [ pc     |-> "idle",
             start  |-> Epoch,   \* when it began
             scan   |-> {},      \* files clear_old_files_from_cache has yet to look at
             file   |-> None,    \* the file it is about to unlink
             lock   |-> None,    \* inode opened by FileLock
             held   |-> FALSE,   \* whether that inode is locked
             sent   |-> None,    \* If-None-Match
             got    |-> None,    \* version in the response
             gotAt  |-> Epoch,   \* when it came
             fd     |-> None,    \* inode opened for writing
             result |-> None ]   \* bytes returned

-----------------------------------------------------------------------------
Exists(f) == dir[f] # None

(* Mutant of Age: no age is negative. *)
AgeNeverNegative(f) == IF dir[f].mtime > now THEN 0 ELSE now - dir[f].mtime

(* get_age_seconds of an existing file: an age that is negative by no more    *)
(* than what file systems get wrong is 0.                                    *)
Age(f) == IF dir[f].mtime \in now + 1 .. now + Resolution THEN 0 ELSE now - dir[f].mtime

(* The dates a file may get that is written now. *)
Stamps == now .. now + Skew

(* An inode number nobody refers to. *)
FreshInode ==
    LET used == {dir[f].ino : f \in {g \in Path : Exists(g)}}
                \union {call[p].lock : p \in Proc} \union {call[p].fd : p \in Proc}
    IN  Min((1 .. 3 + 2 * Cardinality(Proc) + 1) \ used)

(* open(path, "w"): the inode of an existing file is kept and truncated. *)
OpenForWriting(f, t) ==
    IF Exists(f) THEN [dir[f] EXCEPT !.data = Truncated, !.mtime = t]
                 ELSE [ino |-> FreshInode, data |-> Truncated, mtime |-> t]

(* Mutant of Leave: the lock is not released. *)
LeaveLocked(p, how, result) ==
    call' = [call EXCEPT ![p].pc = how, ![p].result = result, ![p].fd = None]

(* Mutant of Leave: the lock file is closed, but believed to be held. *)
LeaveHolding(p, how, result) ==
    call' = [call EXCEPT ![p].pc = how, ![p].result = result, ![p].lock = None,
                         ![p].fd = None]

(* Leaving the FileLock context, normally or by an exception. *)
Leave(p, how, result) ==
    call' = [call EXCEPT ![p].pc = how, ![p].result = result, ![p].lock = None,
                         ![p].held = FALSE, ![p].fd = None]

-----------------------------------------------------------------------------
Init ==
    /\ now = Epoch
    /\ server \in Version
    /\ superseded = [v \in Version |-> IF v < server THEN Epoch ELSE Forever]
    /\ \E l \in LockMTime, d \in (0 .. Epoch + Skew) \union Future,
          v \in 1 .. server, cached \in BOOLEAN :
        /\ ~cached => d = 0 /\ v = 1
        /\ dir = [ destination |-> IF cached THEN [ino |-> 1, data |-> v, mtime |-> d] ELSE None,
                   etag |-> IF cached /\ v \notin Untagged
                            THEN [ino |-> 2, data |-> v, mtime |-> d] ELSE None,
                   lock |-> [ino |-> 3, data |-> Truncated, mtime |-> l] ]
    /\ call = [p \in Proc |-> NewCall]

(* cached_download_file is called; iterdir lists the directory. *)
Start(p) ==
    /\ call[p].pc = "idle"
    /\ call' = [call EXCEPT ![p].pc = "clear", ![p].start = now,
                            ![p].scan = {f \in Path : Exists(f)}]
    /\ UNCHANGED <<now, server, superseded, dir>>

(* The loop of clear_old_files_from_cache: stat one file... *)
ClearStat(p) ==
    /\ call[p].pc = "clear"
    /\ \E f \in call[p].scan :
        IF Exists(f) /\ (Age(f) < 0 \/ Age(f) >= MaxAge)
        THEN call' = [call EXCEPT ![p].scan = @ \ {f}, ![p].file = f, ![p].pc = "unlink"]
        ELSE call' = [call EXCEPT ![p].scan = @ \ {f}]
    /\ UNCHANGED <<now, server, superseded, dir>>

(* ... and unlink it, whatever the path denotes by now. *)
ClearUnlink(p) ==
    /\ call[p].pc = "unlink"
    /\ dir' = [dir EXCEPT ![call[p].file] = None]
    /\ call' = [call EXCEPT ![p].pc = "clear", ![p].file = None]
    /\ UNCHANGED <<now, server, superseded>>

ClearDone(p) ==
    /\ call[p].pc = "clear" /\ call[p].scan = {}
    /\ call' = [call EXCEPT ![p].pc = "open"]
    /\ UNCHANGED <<now, server, superseded, dir>>

(* FileLock opens the lock file, creating or truncating it. *)
LockOpen(p) ==
    /\ call[p].pc = "open"
    /\ \E t \in Stamps : dir' = [dir EXCEPT !["lock"] = OpenForWriting("lock", t)]
    /\ call' = [call EXCEPT ![p].lock = dir'["lock"].ino, ![p].pc = "flock"]
    /\ UNCHANGED <<now, server, superseded>>

(* flock, without blocking. *)
LockAcquire(p) ==
    /\ call[p].pc = "flock"
    /\ \A q \in Proc : call[q].held => call[q].lock # call[p].lock
    /\ call' = [call EXCEPT ![p].held = TRUE, ![p].pc = "is_file"]
    /\ UNCHANGED <<now, server, superseded, dir>>

(* Mutant of LockRetry: after a Timeout the cache is used without the lock. *)
LockGiveUp(p) ==
    /\ call[p].pc = "flock"
    /\ \E q \in Proc : call[q].held /\ call[q].lock = call[p].lock
    /\ call' = [call EXCEPT ![p].lock = None, ![p].pc = "is_file"]
    /\ UNCHANGED <<now, server, superseded, dir>>

(* It is held by another: close, wait, try again (after a Timeout, too). *)
LockRetry(p) ==
    /\ call[p].pc = "flock"
    /\ \E q \in Proc : call[q].held /\ call[q].lock = call[p].lock
    /\ call' = [call EXCEPT ![p].lock = None, ![p].pc = "open"]
    /\ UNCHANGED <<now, server, superseded, dir>>

(* _is_cached_file_fresh: is there a file... *)
CheckIsFile(p) ==
    /\ call[p].pc = "is_file"
    /\ call' = [call EXCEPT ![p].pc = IF Exists("destination") THEN "age" ELSE "tag"]
    /\ UNCHANGED <<now, server, superseded, dir>>

(* ... and how old is it, if it is still there? *)
CheckAge(p) ==
    /\ call[p].pc = "age"
    /\ \/ /\ ~Exists("destination")
          /\ Leave(p, "RuntimeError", None)
       \/ /\ Exists("destination")
          /\ call' = [call EXCEPT ![p].pc =
                IF Age("destination") \in 0 .. FreshFor - 1 THEN "read" ELSE "tag"]
    /\ UNCHANGED <<now, server, superseded, dir>>

(* An ETag is sent only if there is a file it could be the ETag of. *)
FindTag(p) ==
    /\ call[p].pc = "tag"
    /\ call' = [call EXCEPT ![p].pc =
          IF Exists("destination") /\ Exists("etag") THEN "read_tag" ELSE "request"]
    /\ UNCHANGED <<now, server, superseded, dir>>

ReadTag(p) ==
    /\ call[p].pc = "read_tag"
    /\ \/ /\ ~Exists("etag")
          /\ Leave(p, "FileNotFoundError", None)
       \/ /\ Exists("etag")
          /\ call' = [call EXCEPT ![p].sent = dir["etag"].data, ![p].pc = "request"]
    /\ UNCHANGED <<now, server, superseded, dir>>

(* The server compares the ETag it is sent with that of what it serves. *)
NotModified(p) == server \notin Untagged /\ call[p].sent = server

Request304(p) ==
    /\ call[p].pc = "request" /\ NotModified(p)
    /\ call' = [call EXCEPT ![p].pc = "read"]
    /\ UNCHANGED <<now, server, superseded, dir>>

Request200(p) ==
    /\ call[p].pc = "request" /\ ~NotModified(p)
    /\ call' = [call EXCEPT ![p].got = server, ![p].gotAt = now, ![p].pc = "truncate"]
    /\ UNCHANGED <<now, server, superseded, dir>>

(* requests.get or raise_for_status raises. *)
RequestFails(p) ==
    /\ call[p].pc = "request"
    /\ Leave(p, "HTTPError", None)
    /\ UNCHANGED <<now, server, superseded, dir>>

(* destination.write_bytes: open ... *)
WriteOpen(p) ==
    /\ call[p].pc = "truncate"
    /\ \E t \in Stamps :
           dir' = [dir EXCEPT !["destination"] = OpenForWriting("destination", t)]
    /\ call' = [call EXCEPT ![p].fd = dir'["destination"].ino, ![p].pc = "write"]
    /\ UNCHANGED <<now, server, superseded>>

(* ... and write, to the inode that was opened. *)
WriteBytes(p) ==
    /\ call[p].pc = "write"
    /\ IF Exists("destination") /\ dir["destination"].ino = call[p].fd
       THEN \E t \in Stamps :
               dir' = [dir EXCEPT !["destination"].data = call[p].got,
                                  !["destination"].mtime = t]
       ELSE UNCHANGED dir
    /\ call' = [call EXCEPT ![p].fd = None, ![p].pc = "write_tag"]
    /\ UNCHANGED <<now, server, superseded>>

(* destination_etag.write_text, if the response has an ETag. *)
WriteTag(p) ==
    /\ call[p].pc = "write_tag"
    /\ IF call[p].got \in Untagged THEN UNCHANGED dir
       ELSE \E t \in Stamps :
               dir' = [dir EXCEPT !["etag"] =
                          [OpenForWriting("etag", t) EXCEPT !.data = call[p].got]]
    /\ call' = [call EXCEPT ![p].pc = "read"]
    /\ UNCHANGED <<now, server, superseded>>

(* destination.read_bytes *)
ReadBytes(p) ==
    /\ call[p].pc = "read"
    /\ \/ /\ ~Exists("destination")
          /\ Leave(p, "FileNotFoundError", None)
       \/ /\ Exists("destination")
          /\ Leave(p, "returned", dir["destination"].data)
    /\ UNCHANGED <<now, server, superseded, dir>>

(* The process is killed: its lock goes with it, its half-done writes stay.   *)
(* Killed in write_text it may leave the ETag file empty.                     *)
Kill(p) ==
    /\ Crashes /\ call[p].pc \in Steps
    /\ \/ UNCHANGED dir
       \/ /\ call[p].pc = "write_tag" /\ call[p].got \notin Untagged
          /\ \E t \in Stamps : dir' = [dir EXCEPT !["etag"] = OpenForWriting("etag", t)]
    /\ Leave(p, "killed", None)
    /\ UNCHANGED <<now, server, superseded>>

(* The mapping is published anew. *)
Publish ==
    /\ server < MaxVersion
    /\ server' = server + 1
    /\ superseded' = [superseded EXCEPT ![server] = now]
    /\ UNCHANGED <<now, dir, call>>

Tick ==
    /\ now < MaxTime
    /\ \A p \in Proc : call[p].pc \in {"truncate", "write"} => now < call[p].gotAt + WriteDelay
    /\ now' = now + 1
    /\ UNCHANGED <<server, superseded, dir, call>>

Download(p) ==
    \/ CheckIsFile(p) \/ CheckAge(p) \/ FindTag(p) \/ ReadTag(p)
    \/ Request304(p) \/ Request200(p) \/ RequestFails(p)
    \/ WriteOpen(p) \/ WriteBytes(p) \/ WriteTag(p) \/ ReadBytes(p)

Step(p) ==
    \/ ClearStat(p) \/ ClearUnlink(p) \/ ClearDone(p)
    \/ LockOpen(p) \/ LockAcquire(p) \/ LockRetry(p)
    \/ Download(p)

Next ==
    \/ \E p \in Proc : Start(p) \/ Step(p) \/ Kill(p)
    \/ Publish \/ Tick

Spec == Init /\ [][Next]_vars

(* Every process that has begun a call is scheduled again and again, and      *)
(* requests.get, which has no timeout, is supposed to return or to raise.    *)
FairSpec == Spec /\ \A p \in Proc : WF_vars(Step(p))

-----------------------------------------------------------------------------
FileType == {None} \union [ino : Nat, data : {Truncated} \union Version, mtime : Nat]

TypeOK ==
    /\ now \in Epoch .. MaxTime
    /\ server \in Version
    /\ superseded \in [Version -> Epoch .. Forever]
    /\ dir \in [Path -> FileType]
    /\ \A p \in Proc :
        /\ call[p].pc \in {"idle"} \union Steps \union Ends
        /\ call[p].start \in Epoch .. MaxTime /\ call[p].gotAt \in Epoch .. MaxTime
        /\ call[p].scan \subseteq Path /\ call[p].file \in Path \union {None}
        /\ call[p].held => call[p].lock # None
        /\ call[p].result \in {None, Truncated} \union Version

(* A file that is half written is seen by nobody but its writer: no call      *)
(* returns a truncated file.                                                  *)
ReturnsWholeFile ==
    \A p \in Proc : call[p].pc = "returned" => call[p].result \in Version

(* A version that is returned was still being served at most FreshFor before  *)
(* the call began, not counting the time a response takes to be written and   *)
(* what files are dated ahead: a file dated in the future is never fresh.     *)
BoundedStaleness ==
    \A p \in Proc : call[p].pc = "returned" /\ call[p].result \in Version =>
        superseded[call[p].result] > call[p].start - FreshFor - Skew - WriteDelay

(* Once the server has vouched for the cached file (304), what is returned    *)
(* is a version it served after the call began.                               *)
ValidatedIsCurrent ==
    \A p \in Proc :
        call[p].pc = "returned" /\ call[p].sent # None /\ call[p].got = None =>
            /\ call[p].result \in Version
            /\ superseded[call[p].result] >= call[p].start

(* Every call comes to an end, whoever else calls and is killed.              *)
CallsEnd == \A p \in Proc : call[p].pc = "clear" ~> call[p].pc \in Ends
=============================================================================
