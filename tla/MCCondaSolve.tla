---------------------------- MODULE MCCondaSolve ----------------------------
(* Instances of CondaSolve: the first version of "a" requires "b", the second *)
(* does not; "c" is requested or left over.  There may be nothing to request:  *)
(* a platform may have pip packages only.                                     *)
EXTENDS CondaSolve

MCRequires == [x \in {"a", "b", "c"} \X {1, 2} |->
                  IF x = <<"a", 1>> \/ x = <<"c", 2>> THEN {"b"} ELSE {}]

MCLocked == {NoPackages, [n \in {"a", "b"} |-> 1], [n \in {"a", "b", "c"} |-> 1]}

MCJobs ==
    {j \in [requested : {{}, {"a"}, {"a", "c"}}, locked : MCLocked,
            update : {{}, {"a"}, {"b"}, {"a", "c"}}, mamba : BOOLEAN] :
        j.mamba => j.update # {}}
=============================================================================
