----------------------------- MODULE Installer -----------------------------
(***************************************************************************)
(* install.py: what is missing is found out, the user is asked, packages   *)
(* go one at a time into an environment of their own, and the system tools *)
(* are offered separately. optional.py answers from the interpreter that   *)
(* runs the installer, which is not the one it installs into.              *)
(*                                                                         *)
(* A package stands for the others of its tier that are got the same way.  *)
(***************************************************************************)
EXTENDS Naturals, Sequences

CONSTANT Selections     \* bound: what --tier may name, in that order

VARIABLES
    tiers,      \* --tier
    here,       \* --here
    yes,        \* --yes
    system,     \* "too", "no" (--no-system), "only" (--system-only)
    nvidia,     \* there is a GPU of this vendor
    manager,    \* there is a package manager that is recognised
    own,        \* what the running interpreter can import
    venv,       \* what the environment can import, once it exists
    tools,      \* the system tools are missing
    stage,
    todo,       \* places that pip_install has still to go through
    ok, failed, skipped,
    exit

args == <<tiers, here, yes, system, nvidia, manager>>
vars == <<args, own, venv, tools, stage, todo, ok, failed, skipped, exit>>

Packages == {"numpy", "pyopencl", "onnxruntime", "tensorrt_libs"}
Tier == [compute |-> <<"numpy">>, gpu |-> <<"pyopencl">>, data |-> <<"numpy">>, ai |-> <<"onnxruntime", "tensorrt_libs">>]

\* A place is that of a package in a tier that was named: a package may have
\* several.
Places == UNION {{k} \X DOMAIN Tier[tiers[k]] : k \in DOMAIN tiers}
PackageAt(x) == Tier[tiers[x[1]]][x[2]]
Before(x, y) == x[1] < y[1] \/ (x[1] = y[1] /\ x[2] < y[2])

applies(p) == p = "tensorrt_libs" => nvidia
MissingFrom(interpreter) == {x \in Places : applies(PackageAt(x)) /\ PackageAt(x) \notin interpreter}
Missing == MissingFrom(own)

SamePython == IF here THEN own ELSE venv
Importing == own
\* tensorrt_distribution reads the provider library of the onnxruntime that
\* this interpreter imports.
pip_target(p) == applies(p) /\ (p = "tensorrt_libs" => "onnxruntime" \in Importing)

TypeOK ==
    /\ tiers \in Selections /\ here \in BOOLEAN /\ yes \in BOOLEAN /\ system \in {"too", "no", "only"}
    /\ nvidia \in BOOLEAN /\ manager \in BOOLEAN /\ tools \in BOOLEAN
    /\ own \subseteq Packages /\ venv \subseteq Packages
    /\ stage \in {"start", "ask", "environment", "pip", "result", "system", "done"}
    /\ todo \subseteq Places /\ ok \subseteq Places /\ failed \subseteq Places /\ skipped \subseteq Places
    /\ exit \in {0, 1, 3, 4}

Init ==
    /\ tiers \in Selections
    /\ here \in BOOLEAN /\ yes \in BOOLEAN /\ system \in {"too", "no", "only"}
    /\ nvidia \in BOOLEAN /\ manager \in BOOLEAN /\ tools \in BOOLEAN
    /\ own \in {{}, {"onnxruntime"}, {"numpy"}} /\ venv \in {{}, {"numpy"}}
    /\ stage = "start" /\ todo = {} /\ ok = {} /\ failed = {} /\ skipped = {} /\ exit = 0

Done(code) == stage' = "done" /\ exit' = code
Wanted == tools /\ system # "no"

Survey ==
    /\ stage = "start"
    /\ \/ system = "only" /\ ~tools /\ Done(0)
       \/ (IF system = "only" THEN tools ELSE Missing = {} /\ Wanted) /\ stage' = "system" /\ UNCHANGED exit
       \/ system # "only" /\ Missing = {} /\ ~Wanted /\ Done(0)
       \/ system # "only" /\ Missing # {} /\ stage' = "ask" /\ UNCHANGED exit
    /\ todo' = IF stage' = "ask" THEN Missing ELSE {}
    /\ UNCHANGED <<args, own, venv, tools, ok, failed, skipped>>

Ask ==
    /\ stage = "ask"
    /\ \/ stage' = (IF here THEN "pip" ELSE "environment") /\ UNCHANGED exit
       \/ ~yes /\ Done(1)
    /\ UNCHANGED <<args, own, venv, tools, todo, ok, failed, skipped>>

ensure_venv ==
    /\ stage = "environment"
    /\ \/ stage' = "pip" /\ UNCHANGED exit
       \/ venv = {} /\ Done(3)
    /\ UNCHANGED <<args, own, venv, tools, todo, ok, failed, skipped>>

StopAtFailure(rest) == {}
AfterFailure(rest) == rest

\* One package of pip_install. With --here, what was installed can be
\* imported at once.
Skip(x) ==
    /\ ~pip_target(PackageAt(x))
    /\ skipped' = skipped \cup {x} /\ todo' = todo \ {x}
    /\ UNCHANGED <<own, venv, ok, failed>>

Succeed(x) ==
    /\ pip_target(PackageAt(x))
    /\ ok' = ok \cup {x} /\ todo' = todo \ {x}
    /\ own' = IF here THEN own \cup {PackageAt(x)} ELSE own
    /\ venv' = IF here THEN venv ELSE venv \cup {PackageAt(x)}
    /\ UNCHANGED <<failed, skipped>>

Fail(x) ==
    /\ pip_target(PackageAt(x))
    /\ failed' = failed \cup {x} /\ todo' = AfterFailure(todo \ {x})
    /\ UNCHANGED <<own, venv, ok, skipped>>

Install ==
    /\ stage = "pip"
    /\ \E x \in todo :
          /\ \A y \in todo : ~Before(y, x)
          /\ Skip(x) \/ Succeed(x) \/ Fail(x)
    /\ UNCHANGED <<args, tools, stage, exit>>

Result ==
    /\ stage = "pip" /\ todo = {}
    /\ stage' = IF Wanted THEN "system" ELSE "result"
    /\ UNCHANGED <<args, own, venv, tools, todo, ok, failed, skipped, exit>>

Tried == ok \cup failed \cup skipped

\* Refused, not possible here, or run, whatever it then left installed.
system_install ==
    /\ stage = "system"
    /\ \/ manager /\ tools' = FALSE
       \/ UNCHANGED tools
    /\ IF Tried = {}
       THEN Done(IF tools' THEN 4 ELSE 0)
       ELSE stage' = "result" /\ UNCHANGED exit
    /\ UNCHANGED <<args, own, venv, todo, ok, failed, skipped>>

Exit ==
    /\ stage = "result"
    /\ Done(IF ok # {} THEN 0 ELSE 4)
    /\ UNCHANGED <<args, own, venv, tools, todo, ok, failed, skipped>>

Next == Survey \/ Ask \/ ensure_venv \/ Install \/ Result \/ system_install \/ Exit

-----------------------------------------------------------------------------
\* The interpreter as it was found: --here has added what went in.
AsFound == own \ {PackageAt(x) : x \in ok}

(* Whatever pip makes of one package (install.py 140-142), each that was   *)
(* missing is tried once, none but TensorRT is given up for the sake of    *)
(* another, and that one, with --here, only where no ONNX Runtime went in  *)
(* before it (147-149). A run that tried ends with 4 if nothing went in.   *)
OneFailureCostsOne ==
    /\ stage = "result" =>
          /\ Tried = MissingFrom(AsFound)
          /\ ok \cap failed = {} /\ ok \cap skipped = {} /\ failed \cap skipped = {}
    /\ \A x \in skipped :
          /\ PackageAt(x) = "tensorrt_libs"
          /\ here => \A y \in ok : PackageAt(y) = "onnxruntime" => Before(x, y)
    /\ stage = "done" /\ Tried # {} => (exit = 4 <=> ok = {})

(* TensorRT's version is looked for in the interpreter that runs the       *)
(* installer, so that without --here TensorRT is skipped although ONNX     *)
(* Runtime is where it goes (147-149).                                     *)
ResolvedWhereItGoes ==
    \A x \in skipped : PackageAt(x) = "tensorrt_libs" => "onnxruntime" \notin SamePython
=============================================================================
