----------------------------- MODULE LockStore -----------------------------
(***************************************************************************)
(* What make_lock_files promises about a lockfile that one process keeps:   *)
(* it is a store with an entry per platform.  A run replaces the entries of *)
(* the platforms of its specification, all of them in one step, by packages *)
(* that solve the specification whose hash it records, and touches no other *)
(* entry.  The channels the store was begun with are its channels for good. *)
(***************************************************************************)
CONSTANTS
    Platform,
    Conda,          \* the packages that have a channel
    Solution(_, _)  \* whether packages solve a specification

VARIABLES
    channel,  \* the channels of the store
    locked    \* [platforms -> [content, pkgs]]

(* The entries of one run: one specification, solved on each platform. *)
OneSolve(pls, entry, ch) ==
    /\ \A pl, q \in pls : entry[pl].content = entry[q].content
    /\ \A pl \in pls :
        /\ Solution(entry[pl].pkgs, entry[pl].content.wants)
        /\ \A x \in entry[pl].pkgs : x.name \in Conda => x.channel = ch

Init == DOMAIN locked = {}

Relock(pls) ==
    /\ DOMAIN locked # {} => channel' = channel
    /\ DOMAIN locked' = DOMAIN locked \union pls
    /\ \A pl \in DOMAIN locked \ pls : locked'[pl] = locked[pl]
    /\ OneSolve(pls, locked', channel')

Next == \E pls \in (SUBSET Platform) \ {{}} : Relock(pls)

Spec == Init /\ [][Next]_<<channel, locked>>
=============================================================================
