---------------------------- MODULE Accelerators ----------------------------
(***************************************************************************)
(* The graphics processors (gpucompute.py) and the neural accelerators     *)
(* (npu.py) of a machine as main measures them: devices and providers one  *)
(* by one, each of which can fail, and the one that is scored. Nothing     *)
(* tells reliably what a device is or where an operator ran.               *)
(*                                                                         *)
(* Speeds are percent of what the CPU does.                                *)
(***************************************************************************)
EXTENDS Naturals, Sequences, FiniteSetsExt, SequencesExt

CONSTANTS
    Speeds,     \* of a device, or of a provider that uses one
    Noise,      \* of a provider whose operators run on the CPU
    ENGAGE      \* ENGAGE_THRESHOLD, in percent

VARIABLES
    half,       \* which of the two sections is looked at
    opencl,     \* pyopencl: "absent", "broken" or "works"
    torch,      \* PyTorch with a GPU: "none", "fails" or "works"
    gpus,       \* the OpenCL devices, platform by platform
    providers,  \* what each execution provider does
    turn,
    measured,   \* what each device or provider came to; 0 is an error
    available,  \* the section got as far as its devices
    best,       \* the position of what is scored, or 0
    matmul,     \* the precisions PyTorch measured
    model,      \* npu_model.onnx: "none", "part" or "whole"
    other       \* another run that writes it

vars == <<half, opencl, torch, gpus, providers, turn, measured, available, best, matmul, model, other>>
machine == <<half, opencl, torch, gpus, providers>>
file == <<model, other>>

\* What its name hints at, whether it has the memory of the host, and
\* whether its driver says so. An OpenCL device may be the CPU.
Devices == [name : {"discrete", "integrated", "plain"}, shares : BOOLEAN, reported : BOOLEAN]
           \cup {[name |-> "cpu", shares |-> TRUE, reported |-> TRUE]}
Apple == [name |-> "apple", shares |-> TRUE, reported |-> TRUE]
UpToTwo(S) == {<<>>} \cup {<<s>> : s \in S} \cup (S \X S)

Init ==
    /\ half \in {"gpu", "npu"}
    /\ opencl \in {"absent", "broken", "works"} /\ torch \in {"none", "fails", "works"}
    /\ gpus \in UpToTwo(Devices) \cup {<<Apple>>}
    /\ providers \in UpToTwo({"accelerates", "falls back", "runs on the CPU", "raises"})
    /\ opencl # "works" => gpus = <<>>
    /\ half = "gpu" => providers = <<>>
    /\ half = "npu" => opencl = "absent" /\ torch = "none"
    /\ turn = "start"
    /\ measured = <<>> /\ available = FALSE /\ best = 0 /\ matmul = {}
    /\ model \in {"none", "whole"} /\ other = "away"
    /\ half = "gpu" => model = "none"

-----------------------------------------------------------------------------
(* gpucompute.run, and the condition main makes of it.                     *)

Guarded == opencl # "absent"

StartGpu ==
    /\ turn = "start" /\ half = "gpu"
    /\ turn' = IF ~Guarded THEN "over" ELSE IF opencl = "broken" THEN "matmul" ELSE "devices"
    /\ UNCHANGED <<machine, measured, available, best, matmul, file>>

MeasureDevice ==
    /\ turn = "devices" /\ Len(measured) < Len(gpus)
    /\ \E s \in Speeds \cup {0} : measured' = Append(measured, s)
    /\ UNCHANGED <<machine, turn, available, best, matmul, file>>

\* A platform that does not answer: what was measured is not returned.
EnumerationFails ==
    /\ turn = "devices"
    /\ measured' = <<>> /\ turn' = "matmul"
    /\ UNCHANGED <<machine, available, best, matmul, file>>

Class(d) ==
    CASE d.name = "cpu" -> "unknown"
      [] d.name \in {"discrete", "apple"} -> "discrete"
      [] d.name = "integrated" \/ (d.reported /\ d.shares) -> "integrated"
      [] d.name = "plain" /\ d.reported /\ ~d.shares -> "discrete"
      [] OTHER -> "unknown"
Rank(d) == CASE Class(d) = "discrete" -> 0 [] Class(d) = "unknown" -> 1 [] Class(d) = "integrated" -> 2

First(S) == IF S = {} THEN 0 ELSE Min(S)
Usable == {i \in DOMAIN measured : measured[i] > 0}
Fastest == First({i \in Usable : \A j \in Usable : measured[j] <= measured[i]})
SelectBest ==
    First({i \in Usable : \A j \in Usable :
        \/ Rank(gpus[i]) < Rank(gpus[j])
        \/ Rank(gpus[i]) = Rank(gpus[j]) /\ measured[i] >= measured[j]})

DevicesOver ==
    /\ turn = "devices" /\ Len(measured) = Len(gpus)
    /\ available' = TRUE /\ best' = SelectBest
    /\ turn' = "matmul"
    /\ UNCHANGED <<machine, measured, matmul, file>>

\* torch_matmul: each precision may fail by itself.
Matmul ==
    /\ turn = "matmul"
    /\ matmul' \in IF torch = "works" THEN (SUBSET {"fp32", "fp16"}) \ {{}} ELSE {{}}
    /\ turn' = "over"
    /\ UNCHANGED <<machine, measured, available, best, file>>

-----------------------------------------------------------------------------
(* npu.run. The model is written where the runs of a directory share it:   *)
(* a file of the right size is taken, another is truncated and written.    *)

StartNpu ==
    /\ turn = "start" /\ half = "npu"
    /\ \/ model = "whole" /\ turn' = "baseline" /\ UNCHANGED model
       \/ model # "whole" /\ turn' = "write" /\ model' = "part"
       \/ model # "whole" /\ turn' = "over" /\ UNCHANGED model      \* cannot be opened
    /\ UNCHANGED <<machine, measured, available, best, matmul, other>>

WriteModel ==
    /\ turn = "write"
    /\ \/ model' = "whole" /\ turn' = "baseline"
       \/ UNCHANGED model /\ turn' = "over"         \* an OSError
    /\ UNCHANGED <<machine, measured, available, best, matmul, other>>

OtherLooks == other = "away" /\ half = "npu" /\ other' = (IF model = "whole" THEN "gone" ELSE "opens") /\ UNCHANGED model
OtherOpens == other = "opens" /\ other' = "writes" /\ model' = "part"
OtherWrites == other = "writes" /\ other' = "gone" /\ model' \in {"whole", model}       \* or is killed
OtherRun == (OtherLooks \/ OtherOpens \/ OtherWrites) /\ UNCHANGED <<machine, turn, measured, available, best, matmul>>

\* Without a session of the CPU there is nothing to compare with.
Baseline ==
    /\ turn = "baseline"
    /\ \/ model = "whole" /\ available' = TRUE /\ turn' = "providers"
       \/ UNCHANGED available /\ turn' = "over"
    /\ UNCHANGED <<machine, measured, best, matmul, file>>

\* A provider that could not be loaded is not among those of the session.
Timed(p) ==
    CASE model # "whole" \/ p \in {"raises", "falls back"} -> {0}
      [] p = "runs on the CPU" -> Noise
      [] p = "accelerates" -> Speeds

BenchProvider ==
    /\ turn = "providers" /\ Len(measured) < Len(providers)
    /\ \E s \in Timed(providers[Len(measured) + 1]) : measured' = Append(measured, s)
    /\ UNCHANGED <<machine, turn, available, best, matmul, file>>

AnySpeed == Usable
Engaged == {i \in Usable : measured[i] >= ENGAGE}

ProvidersOver ==
    /\ turn = "providers" /\ Len(measured) = Len(providers)
    /\ best' = First({i \in Engaged : \A j \in Engaged : measured[j] <= measured[i]})
    /\ turn' = "over"
    /\ UNCHANGED <<machine, measured, available, matmul, file>>

Over == turn = "over" /\ UNCHANGED vars

Next ==
    \/ StartGpu \/ MeasureDevice \/ EnumerationFails \/ DevicesOver \/ Matmul
    \/ StartNpu \/ WriteModel \/ OtherRun \/ Baseline \/ BenchProvider \/ ProvidersOver
Spec == Init /\ [][Next \/ Over]_vars

-----------------------------------------------------------------------------
\* A name that does not mislead, or none with a driver that reports.
Plain(d) ==
    CASE d.name = "discrete" -> ~d.shares
      [] d.name = "integrated" -> d.shares
      [] d.name = "plain" -> d.reported
      [] OTHER -> TRUE
IsGpu(d) == d.name # "cpu"

(* "On a machine with both, the discrete GPU is scored - even if the       *)
(* integrated one measured faster" (README.md 1669), the fastest if there  *)
(* are several: as far as names do not mislead.                            *)
DiscreteIsScored ==
    half = "gpu" /\ best # 0 /\ (\A i \in DOMAIN gpus : Plain(gpus[i])) =>
        LET discrete == {i \in Usable : IsGpu(gpus[i]) /\ ~gpus[i].shares}
        IN  discrete # {} => best \in discrete /\ \A i \in discrete : measured[i] <= measured[best]

(* A provider is scored because an accelerator ran and not the CPU in its  *)
(* place, and the fastest that did is (npu.py 185-188, 239-246).           *)
EngagedRan ==
    half = "npu" /\ turn = "over" =>
        LET ran == {i \in Usable : providers[i] = "accelerates" /\ measured[i] >= ENGAGE}
        IN  IF ran = {} THEN best = 0 ELSE best \in ran /\ \A i \in ran : measured[i] <= measured[best]

(* A device that fails costs what it would have measured; OpenCL that      *)
(* fails costs nothing of PyTorch's (gpucompute.py 360-372, 395-405).      *)
OneFailureCostsOne ==
    half = "gpu" /\ turn = "over" =>
        /\ available => Len(measured) = Len(gpus) /\ (best = 0 <=> Usable = {})
        /\ opencl # "absent" => (matmul # {} <=> torch = "works")

-----------------------------------------------------------------------------
(* gpucompute.py 363-370: "Every one of these paths still measures the     *)
(* matmul", since PyTorch "reaches a CUDA, ROCm or XPU device without      *)
(* OpenCL's help"; main does not get there without pyopencl (cli.py 1117). *)
MatmulNeedsNoOpenCL == half = "gpu" /\ turn = "over" /\ torch = "works" => matmul # {}

(* gpucompute.py 99-100: "a device sharing host memory is integrated by    *)
(* definition", Apple's apart; names come first all the same.              *)
MemoryDecides ==
    half = "gpu" => \A i \in DOMAIN gpus :
        gpus[i].reported /\ gpus[i].name \notin {"apple", "cpu"} => (Class(gpus[i]) = "integrated" <=> gpus[i].shares)

(* What is scored as a GPU is one: an OpenCL device of the CPU is of no    *)
(* known class, which ranks before integrated ones (gpucompute.py 133).    *)
GpuFigureIsOfAGpu == half = "gpu" /\ best # 0 => IsGpu(gpus[best]) \/ \A i \in Usable : ~IsGpu(gpus[i])

(* A platform that fails does not take with it what another measured.      *)
MeasuredIsReported == [][half = "gpu" => IsPrefix(measured, measured')]_vars

(* A model that is reused is the model (onnx_model.py 150), as long as a   *)
(* session may read it: another run may have looked before it was whole.   *)
ModelStaysWhole == turn \in {"baseline", "providers"} => model = "whole"
=============================================================================
