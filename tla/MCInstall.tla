------------------------------ MODULE MCInstall ------------------------------
(* Instances of Install: every request, and processes that write up to four  *)
(* lines through pipes of one line.                                           *)
EXTENDS Install

MCRequests ==
    {r \in [kind : FileKind, yml : BOOLEAN, platform : BOOLEAN, validate : BOOLEAN, vars : BOOLEAN,
            auth : BOOLEAN, pip : BOOLEAN, delete : BOOLEAN] :
        /\ r.kind = "lock" => r.validate /\ r.yml
        /\ r.kind # "lock" => r.vars}

Out(l) == <<"stdout", l>>
Err(l) == <<"stderr", l>>

(* Every order of four lines on the two pipes, what _process_stdout treats    *)
(* specially, and lines that cannot be decoded.                              *)
MCPrograms ==
    ([1 .. 4 -> {Out("text"), Err("text")}] \X {0, 1})
    \union ({ <<Out(Blank), Out("50%"), Out("50%"), Out("text")>>,
             <<Out("text"), Out(Blank), Out(Banner), Out(Blank), Out("50%")>>,
             <<Err("text"), Out(Garbled), Out("text"), Out("text")>>,
             <<Err(Garbled), Err("text"), Out("text"), Err("text")>>,
             <<Out("text"), Err(Garbled), Out("50%"), Out("text")>> } \X {0})
=============================================================================
