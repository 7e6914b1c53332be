------------------------------ MODULE Install ------------------------------
(***************************************************************************)
(* The install command (conda_lock/conda_lock.py): a lockfile is rendered   *)
(* into a temporary explicit file, credentials are added to a copy of it,   *)
(* conda creates the environment from the copy and then runs pip on the     *)
(* requirements that the file carries in comments.  Each invocation is one  *)
(* of InvokeConda; temporary files go away when their context is left,      *)
(* unless they are to be preserved (conda_lock/tempdir_manager.py).         *)
(***************************************************************************)
EXTENDS InvokeConda

CONSTANTS
    None,
    Requests,  \* the calls of install
    Programs   \* what a conda process may write and return: <<writes, code>>

FileKind == {"lock", "explicit", "env"}

IsRequest(r) ==
    /\ r.kind \in FileKind    \* by what is in the file
    /\ r.yml \in BOOLEAN      \* its name ends in .yml
    /\ r.platform \in BOOLEAN  \* the file is for this platform, or has it
    /\ r.validate \in BOOLEAN  \* --validate-platform
    /\ r.vars \in BOOLEAN      \* the variables of its channels are set
    /\ r.auth \in BOOLEAN      \* --auth
    /\ r.pip \in BOOLEAN       \* it has pip packages
    /\ r.delete \in BOOLEAN    \* state.delete_temp_paths

ASSUME InstallAssumption ==
    /\ \A r \in Requests : IsRequest(r)
    /\ \A g \in Programs : g[1] \in Seq(Stream \X Line) /\ g[2] \in Nat
    /\ None \notin {"rendered", "auth", "requirements", "PlatformValidationError",
                   "MissingEnvVarError", "CalledProcessError", "UnicodeDecodeError"}

VARIABLES
    request,    \* the arguments of install
    at,         \* where install is, or how it ended
    open,       \* the contexts that are open, innermost last
    temp,       \* the temporary files there are
    preserved,  \* state._preserved_paths
    using,      \* the temporary file that the last process was given, or None
    installed,  \* what the environment has: "conda", "pip"
    raised      \* the exception on its way up, or None

installVars == <<request, at, open, temp, preserved, using, installed, raised>>
vars == <<invokeVars, installVars>>

TempFile == {"rendered", "auth", "requirements"}
Steps    == {"start", "render", "auth", "create", "creating", "pip", "piping",
             "leave", "returned", "raised"}

InstallInit ==
    /\ Init
    /\ request \in Requests
    /\ at = "start"
    /\ open = <<>> /\ temp = {} /\ preserved = {}
    /\ using = None /\ installed = {} /\ raised = None

(* temporary_file_with_contents is entered. *)
EnterFile(f) ==
    /\ open' = Append(open, f)
    /\ temp' = temp \union {f}
    /\ preserved' = IF request.delete THEN preserved ELSE preserved \union {f}

(* An exception is raised; the contexts that are open are left one by one. *)
Raise(e) ==
    /\ at' = "leave" /\ raised' = e
    /\ UNCHANGED <<request, open, temp, preserved>>

(* Files for one platform are checked unless --no-validate-platform. *)
Validate ==
    /\ at = "start"
    /\ IF request.validate /\ request.kind # "lock" /\ ~request.platform
       THEN Raise("PlatformValidationError")
       ELSE at' = "render" /\ UNCHANGED <<request, open, temp, preserved, raised>>
    /\ UNCHANGED <<invokeVars, using, installed>>

(* _render_lockfile_for_install *)
RenderLockfile ==
    /\ at = "render"
    /\ CASE request.kind # "lock" ->
                at' = "auth" /\ UNCHANGED <<request, open, temp, preserved, raised>>
         [] request.kind = "lock" /\ ~request.platform -> Raise("PlatformValidationError")
         [] request.kind = "lock" /\ request.platform /\ ~request.vars -> Raise("MissingEnvVarError")
         [] OTHER ->
                EnterFile("rendered") /\ at' = "auth" /\ UNCHANGED <<request, raised>>
    /\ UNCHANGED <<invokeVars, using, installed>>

AddAuth ==
    /\ at = "auth"
    /\ at' = "create"
    /\ IF request.auth THEN EnterFile("auth") ELSE UNCHANGED <<open, temp, preserved>>
    /\ UNCHANGED <<invokeVars, request, using, installed, raised>>

(* The file that do_conda_install is given, None for the user's own. *)
File == IF open = <<>> THEN None ELSE open[Len(open)]

(* do_conda_install takes for an environment file what is named *.yml, as the *)
(* user's own may be, whatever is in it, and a temporary file is not.         *)
TakenForEnv == request.yml /\ File = None

(* The first invocation, of conda create or conda env create.  Being told    *)
(* the wrong kind of a file, an env.yaml for example, it fails.              *)
Create ==
    /\ at = "create"
    /\ \E g \in Programs :
        /\ (request.kind = "env") # TakenForEnv => g[2] # 0
        /\ Invoke(g[1], g[2])
    /\ using' = File
    /\ at' = "creating"
    /\ UNCHANGED <<request, open, temp, preserved, installed, raised>>

(* pip requirements are looked for in explicit files only. *)
WithRequirements == request.kind # "env" /\ ~TakenForEnv /\ request.pip

(* What a process has installed when it returns 0. *)
Installs(parts) == installed' = IF child.code = 0 THEN installed \union parts ELSE installed

Created ==
    /\ at = "creating" /\ Ended
    /\ Installs(IF TakenForEnv /\ request.pip THEN {"conda", "pip"} ELSE {"conda"})
    /\ IF main # "returned" THEN Raise(main)
       ELSE IF WithRequirements
       THEN EnterFile("requirements") /\ at' = "pip" /\ UNCHANGED <<request, raised>>
       ELSE at' = "leave" /\ UNCHANGED <<request, open, temp, preserved, raised>>
    /\ UNCHANGED <<invokeVars, using>>

(* The second invocation, of pip install in the new environment. *)
RunPip ==
    /\ at = "pip"
    /\ \E g \in Programs : Invoke(g[1], g[2])
    /\ using' = "requirements"
    /\ at' = "piping"
    /\ UNCHANGED <<request, open, temp, preserved, installed, raised>>

PipEnded ==
    /\ at = "piping" /\ Ended
    /\ Installs({"pip"})
    /\ IF main # "returned" THEN Raise(main)
       ELSE at' = "leave" /\ UNCHANGED <<request, open, temp, preserved, raised>>
    /\ UNCHANGED <<invokeVars, using>>

(* temporary_file_with_contents is left, normally or by an exception. *)
LeaveFile ==
    /\ at = "leave" /\ open # <<>>
    /\ open' = SubSeq(open, 1, Len(open) - 1)
    /\ temp' = IF request.delete THEN temp \ {File} ELSE temp
    /\ UNCHANGED <<invokeVars, request, at, preserved, using, installed, raised>>

End ==
    /\ at = "leave" /\ open = <<>>
    /\ at' = IF raised = None THEN "returned" ELSE "raised"
    /\ UNCHANGED <<invokeVars, request, open, temp, preserved, using, installed, raised>>

Own == Validate \/ RenderLockfile \/ AddAuth \/ Create \/ Created \/ RunPip
            \/ PipEnded \/ LeaveFile \/ End

Invocation == Next /\ UNCHANGED installVars

InstallNext == Own \/ Invocation
InstallSpec == InstallInit /\ [][InstallNext]_vars /\ Fairness /\ WF_vars(Own)

-----------------------------------------------------------------------------
InstallTypeOK ==
    /\ TypeOK
    /\ request \in Requests /\ at \in Steps
    /\ open \in Seq(TempFile) /\ temp \subseteq TempFile /\ preserved \subseteq TempFile
    /\ using \in TempFile \union {None}
    /\ installed \subseteq {"conda", "pip"}
    /\ raised \in {None, "PlatformValidationError", "MissingEnvVarError",
                   "CalledProcessError", "UnicodeDecodeError"}

(* install returns only when both of its processes have succeeded: after a   *)
(* failure of either, or of the reading of its output, it raises, although   *)
(* the first may have left an environment behind (check_call=True).          *)
ReturnedMeansInstalled ==
    at = "returned" => installed = {"conda"} \union (IF request.pip THEN {"pip"} ELSE {})

(* A process that runs finds the file it was given: no exception in the      *)
(* reading of its output leaves the file's context before it is gone.  And   *)
(* whatever fails, with the end of install its files are gone, or else       *)
(* preserved and tracked (temporary_file_with_contents).                     *)
FilesLastAsLongAsNeeded ==
    /\ child.alive => using \in temp \union {None}
    /\ at \in {"returned", "raised"} => temp = preserved
    /\ request.delete => preserved = {}

(* "This avoids a potential deadlock" (_invoke_conda): install ends, however  *)
(* much its processes write to either pipe and in whatever order, as long as  *)
(* it is UTF-8.  A line that cannot be decoded kills the thread, and the      *)
(* process may be left writing to a pipe that nobody drains.                  *)
InstallEnds == [](at \in {"creating", "piping"} => Readable) => <>(at \in {"returned", "raised"})
=============================================================================
