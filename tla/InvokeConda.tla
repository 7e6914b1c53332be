---------------------------- MODULE InvokeConda ----------------------------
(***************************************************************************)
(* _invoke_conda (conda_lock/invoke_conda.py): a conda process, the two     *)
(* pipes it writes to, a thread that drains its standard output and the     *)
(* main thread, which drains its standard error, joins the thread and waits *)
(* for the process.  A pipe holds a bounded number of lines, and who writes *)
(* to a full one is blocked.                                                *)
(***************************************************************************)
EXTENDS Integers, Sequences, FiniteSets

CONSTANTS
    Capacity,  \* lines that a pipe holds
    Text,      \* lines that are logged as they are
    Progress,  \* lines with a "%", of which the first word is logged
    Blank,     \* an empty line
    Banner,    \* "Downloading and Extracting Packages"
    Garbled    \* a line that is not UTF-8

Line   == Text \union Progress \union {Blank, Banner, Garbled}
Stream == {"stdout", "stderr"}

ASSUME InvokeAssumption ==
    /\ Capacity \in Nat \ {0}
    /\ Text \intersect Progress = {}
    /\ Blank # Banner /\ Banner # Garbled /\ Blank # Garbled
    /\ {Blank, Banner, Garbled} \intersect (Text \union Progress) = {}

VARIABLES
    program,  \* what the process writes in all: a sequence of <<stream, line>>
    child,    \* [todo, alive, code]: what it has yet to write, its exit code
    pipe,     \* [Stream -> lines written and not yet read]
    closed,   \* the streams whose reading ends have been closed
    reader,   \* the thread: "none", "reading", "done", "dead"
    main,     \* the main thread: a step of _invoke_conda, or how it ended
    got       \* [Stream -> the lines kept]

invokeVars == <<program, child, pipe, closed, reader, main, got>>

Ended == main \in {"none", "returned", "CalledProcessError", "UnicodeDecodeError"}

NoChild == [todo |-> <<>>, alive |-> FALSE, code |-> 0]
Empty   == [s \in Stream |-> <<>>]

Init ==
    /\ program = <<>> /\ child = NoChild
    /\ pipe = Empty /\ got = Empty
    /\ closed = {} /\ reader = "none" /\ main = "none"

(* subprocess.Popen, and the start of the thread. *)
Invoke(writes, code) ==
    /\ program' = writes
    /\ child'   = [todo |-> writes, alive |-> TRUE, code |-> code]
    /\ pipe'    = Empty
    /\ got'     = Empty
    /\ closed'  = {}
    /\ reader'  = "reading"
    /\ main'    = "stderr"

-----------------------------------------------------------------------------
(* The process. *)

ChildWrites ==
    /\ child.alive /\ child.todo # <<>>
    /\ LET s == Head(child.todo)[1]
       IN  /\ s \notin closed
           /\ Len(pipe[s]) < Capacity
           /\ pipe' = [pipe EXCEPT ![s] = Append(@, Head(child.todo)[2])]
    /\ child' = [child EXCEPT !.todo = Tail(@)]
    /\ UNCHANGED <<program, closed, reader, main, got>>

(* It dies of writing to a pipe that nobody can read from. *)
BrokenPipe ==
    /\ child.alive /\ child.todo # <<>>
    /\ Head(child.todo)[1] \in closed
    /\ child' = [todo |-> <<>>, alive |-> FALSE, code |-> 1]
    /\ UNCHANGED <<program, pipe, closed, reader, main, got>>

ChildExits ==
    /\ child.alive /\ child.todo = <<>>
    /\ child' = [child EXCEPT !.alive = FALSE]
    /\ UNCHANGED <<program, pipe, closed, reader, main, got>>

EndOfFile(s) == pipe[s] = <<>> /\ ~child.alive

-----------------------------------------------------------------------------
(* Who reads. *)

Seen(line, kept) == \E n \in DOMAIN kept : kept[n] = line

(* _process_stdout drops empty lines at the beginning and after the banner,  *)
(* and what it has yielded of a package's progress.                          *)
Dropped(line, kept) ==
    \/ line = Blank /\ (kept = <<>> \/ Seen(Banner, kept))
    \/ line \in Progress /\ Seen(line, kept)

(* Mutant of ReaderReads: standard output is read after standard error. *)
ReaderReadsLast ==
    /\ reader = "reading" /\ pipe["stdout"] # <<>> /\ main # "stderr"
    /\ LET line == Head(pipe["stdout"])
       IN  /\ reader' = IF line = Garbled THEN "dead" ELSE reader
           /\ got' = IF line = Garbled \/ Dropped(line, got["stdout"]) THEN got
                     ELSE [got EXCEPT !["stdout"] = Append(@, line)]
    /\ pipe' = [pipe EXCEPT !["stdout"] = Tail(@)]
    /\ UNCHANGED <<program, child, closed, main>>

(* read_stdout; a line that cannot be decoded is the end of the thread. *)
ReaderReads ==
    /\ reader = "reading" /\ pipe["stdout"] # <<>> /\ "stdout" \notin closed
    /\ LET line == Head(pipe["stdout"])
       IN  /\ reader' = IF line = Garbled THEN "dead" ELSE reader
           /\ got' = IF line = Garbled \/ Dropped(line, got["stdout"]) THEN got
                     ELSE [got EXCEPT !["stdout"] = Append(@, line)]
    /\ pipe' = [pipe EXCEPT !["stdout"] = Tail(@)]
    /\ UNCHANGED <<program, child, closed, main>>

ReaderEnds ==
    /\ reader = "reading"
    /\ \/ "stdout" \in closed  \* a ValueError in the thread
       \/ EndOfFile("stdout")
    /\ reader' = "done"
    /\ UNCHANGED <<program, child, pipe, closed, main, got>>

(* Mutant of MainReads: a line that cannot be decoded is kept. *)
MainReadsKeeping ==
    /\ main = "stderr" /\ pipe["stderr"] # <<>>
    /\ got' = [got EXCEPT !["stderr"] = Append(@, Head(pipe["stderr"]))]
    /\ pipe' = [pipe EXCEPT !["stderr"] = Tail(@)]
    /\ UNCHANGED <<program, child, closed, reader, main>>

(* _stderr_to_log; here the exception is one of the main thread. *)
MainReads ==
    /\ main = "stderr" /\ pipe["stderr"] # <<>>
    /\ LET line == Head(pipe["stderr"])
       IN  IF line = Garbled
           THEN main' = "unwind" /\ UNCHANGED got
           ELSE got' = [got EXCEPT !["stderr"] = Append(@, line)] /\ UNCHANGED main
    /\ pipe' = [pipe EXCEPT !["stderr"] = Tail(@)]
    /\ UNCHANGED <<program, child, closed, reader>>

MainAtEnd ==
    /\ main = "stderr" /\ EndOfFile("stderr")
    /\ main' = "join"
    /\ UNCHANGED <<program, child, pipe, closed, reader, got>>

(* Mutant of Join: nobody waits for the thread. *)
JoinAtOnce ==
    /\ main = "join"
    /\ main' = "wait" /\ closed' = Stream
    /\ UNCHANGED <<program, child, pipe, reader, got>>

(* stdout_thread.join(), and Popen.__exit__ closes what has been read. *)
Join ==
    /\ main = "join" /\ reader # "reading"
    /\ main' = "wait" /\ closed' = Stream
    /\ UNCHANGED <<program, child, pipe, reader, got>>

(* Popen.__exit__ after an exception: closing standard output waits for the  *)
(* read that the thread is blocked in.                                       *)
Unwind ==
    /\ main = "unwind"
    /\ reader = "reading" => pipe["stdout"] # <<>> \/ EndOfFile("stdout")
    /\ main' = "unwound" /\ closed' = Stream
    /\ UNCHANGED <<program, child, pipe, reader, got>>

(* Mutant of Judge: the return code is not looked at (check_call=False). *)
JudgeNothing ==
    /\ main \in {"wait", "unwound"} /\ ~child.alive
    /\ main' = IF main = "unwound" THEN "UnicodeDecodeError" ELSE "returned"
    /\ UNCHANGED <<program, child, pipe, closed, reader, got>>

(* Mutant of Judge: the process is left running. *)
JudgeWithoutWaiting ==
    /\ main \in {"wait", "unwound"}
    /\ main' = CASE main = "unwound" -> "UnicodeDecodeError"
                 [] ~child.alive /\ child.code # 0 -> "CalledProcessError"
                 [] OTHER -> "returned"
    /\ UNCHANGED <<program, child, pipe, closed, reader, got>>

(* Popen.__exit__ waits; with check_call=True a return code other than 0 is  *)
(* raised.                                                                   *)
Judge ==
    /\ main \in {"wait", "unwound"} /\ ~child.alive
    /\ main' = CASE main = "unwound" -> "UnicodeDecodeError"
                 [] main = "wait" /\ child.code # 0 -> "CalledProcessError"
                 [] main = "wait" /\ child.code = 0 -> "returned"
    /\ UNCHANGED <<program, child, pipe, closed, reader, got>>

Child  == ChildWrites \/ BrokenPipe \/ ChildExits
Reader == ReaderReads \/ ReaderEnds
Main   == MainReads \/ MainAtEnd \/ Join \/ Unwind \/ Judge

(* The three run independently of each other. *)
Next == Child \/ Reader \/ Main
Fairness == WF_invokeVars(Child) /\ WF_invokeVars(Reader) /\ WF_invokeVars(Main)

-----------------------------------------------------------------------------
TypeOK ==
    /\ program \in Seq(Stream \X Line) /\ child.todo \in Seq(Stream \X Line)
    /\ child.alive \in BOOLEAN /\ child.code \in Int
    /\ \A s \in Stream :
        /\ pipe[s] \in Seq(Line) /\ Len(pipe[s]) <= Capacity
        /\ got[s] \in Seq(Line \ {Garbled})
    /\ closed \in {{}, Stream}
    /\ reader \in {"none", "reading", "done", "dead"}
    /\ main \in {"none", "stderr", "join", "wait", "unwind", "unwound",
                 "returned", "CalledProcessError", "UnicodeDecodeError"}

(* The lines of a stream among all that is written, by their positions.      *)
Of(writes, s) == {n \in DOMAIN writes : writes[n][1] = s}
Before(writes, n) == {m \in Of(writes, writes[n][1]) : m < n}

(* The lines of standard output that are worth keeping: no empty line before *)
(* anything else or after the banner, and no progress twice.                 *)
Worth(writes) ==
    {n \in Of(writes, "stdout") :
        /\ writes[n][2] = Blank =>
               /\ \E m \in Before(writes, n) : writes[m][2] # Blank
               /\ \A m \in Before(writes, n) : writes[m][2] # Banner
        /\ writes[n][2] \in Progress =>
               \A m \in Before(writes, n) : writes[m][2] # writes[n][2]}

(* The lines are those at the positions in S, all of them and in order.      *)
InOrder(lines, S, writes) ==
    \E pos \in [DOMAIN lines -> S] :
        /\ \A i, j \in DOMAIN lines : i < j => pos[i] < pos[j]
        /\ \A n \in S : \E i \in DOMAIN lines : pos[i] = n
        /\ \A i \in DOMAIN lines : lines[i] = writes[pos[i]][2]

Readable == \A n \in DOMAIN program : program[n][2] # Garbled

(* When a process is judged it is gone, and everything it wrote on either    *)
(* pipe is in the output that the exception carries, in order, what          *)
(* _process_stdout drops excepted: join and wait come before the judgement.  *)
AllOutputCollected ==
    main \in {"returned", "CalledProcessError"} =>
        /\ ~child.alive
        /\ Readable =>
            /\ InOrder(got["stdout"], Worth(program), program)
            /\ InOrder(got["stderr"], Of(program, "stderr"), program)
=============================================================================
