------------------------------ MODULE Readers ------------------------------
(***************************************************************************)
(* Where the checkup's evidence comes from: for each reader, the ways it   *)
(* has on each platform to an answer, each way a set of files and tools    *)
(* that must work.  A tool that is absent, fails, times out or prints      *)
(* nonsense is the same to every reader: the next way is tried, and after  *)
(* the last the value is unknown.  A platform without a way is one where   *)
(* the reader returns nothing, or a value that never says the worst.       *)
(***************************************************************************)
EXTENDS Naturals

Platforms == {"Darwin", "Linux", "Windows"}

Only(tool) == {{tool}}
On(darwin, linux, windows) == [Darwin |-> darwin, Linux |-> linux, Windows |-> windows]
Everywhere(ways) == On(ways, ways, ways)
Nowhere == Everywhere({})
Always == Everywhere({{}})

\* machine_state.  Only pmset ever says "throttled"; no platform's reader
\* says one of the words of _THERMAL_STRAIN.
thermal_pressure == On(Only("pmset"), {}, {})
thermal_read == On(Only("sensors_engine"), Only("/sys"), Only("powershell"))
on_ac_power == On(Only("pmset"), Only("/sys"), Only("kernel32"))
load_average == On({{}}, {{}}, {})

\* inventory
total_ram_bytes ==
    On({{"psutil"}, {"sysctl"}}, {{"psutil"}, {"/proc"}}, {{"psutil"}, {"kernel32"}})
virtualization == On(Only("sysctl"), {{"/sys"}, {"/proc"}}, Only("powershell"))

top_processes == On(Only("ps"), Only("/proc"), Only("powershell"))
memory_pressure == On(Only("vm_stat"), Only("/proc"), Only("powershell"))
disk_headroom == On(Only("mount"), Only("/proc"), Only("kernel32"))
power_mode == On(Only("pmset"), Only("/sys"), Only("powercfg"))
uptime_seconds == On(Only("sysctl"), Only("/proc"), Only("powershell"))

\* provenance: on macOS an SMT that is supported is always on.
smt_state == On({}, Only("/sys"), {})
mitigations == On({}, Only("/sys"), {})

\* confinement
cpu_quota == On({}, Only("cgroup"), {})
memory_limit_bytes == On({}, Only("cgroup"), {})
cpu_affinity_count == On({}, {{}}, {})

\* drives.  Windows' counters have no error flag: only wear is read. macOS'
\* helper and the nvme tool know nothing of SATA drives, and of those no reader
\* has more than wear.
nvme_failing == On(Only("smart_engine"), {{"/sys", "nvme"}, {"smartctl"}}, {})
nvme_wear == On(Only("smart_engine"), {{"/sys", "nvme"}, {"smartctl"}}, Only("powershell"))
sata_wear == On({}, Only("smartctl"), Only("powershell"))

nvidia_telemetry == Everywhere(Only("pynvml"))
detect_gpus == On(Only("system_profiler"), {{"lspci"}, {"/sys"}}, Only("powershell"))

(* The reader behind each fact a check looks for.                          *)
Reader == [
    throttled |-> thermal_pressure, strained |-> Nowhere, hot |-> thermal_read,
    onBattery |-> on_ac_power, saturated |-> load_average, loaded |-> load_average,
    lowPower |-> power_mode, noBoost |-> power_mode,
    smtOff |-> smt_state, mitigated |-> mitigations, vulnerable |-> mitigations,
    pinned |-> cpu_affinity_count, quota |-> cpu_quota, cappedRam |-> memory_limit_bytes,
    gpuHot |-> nvidia_telemetry, vramFull |-> nvidia_telemetry, untestable |-> detect_gpus,
    hog |-> top_processes, exhausted |-> memory_pressure, tight |-> memory_pressure,
    smallRam |-> total_ram_bytes, virtual |-> virtualization,
    full |-> disk_headroom, nearlyFull |-> disk_headroom,
    failing |-> nvme_failing, spent |-> nvme_wear, worn |-> nvme_wear,
    sataSpent |-> sata_wear, sataWorn |-> sata_wear, hasNvme |-> Nowhere,
    longUp |-> uptime_seconds,
    slowDisk |-> Always, slowMemory |-> Always, collapse |-> Always, droop |-> Always,
    regressed |-> Always ]

Facts == DOMAIN Reader
Tools == UNION {UNION Reader[f][p] : f \in Facts, p \in Platforms}

\* The fact can be known on the platform while these tools do not work.
Answers(fact, platform, broken) == \E way \in Reader[fact][platform] : way \cap broken = {}

\* _linux asks smartctl only when the nvme tool told it of no drive.
OfNvme == {"hasNvme", "failing", "spent", "worn"}
OfSata == {"sataSpent", "sataWorn"}
Overlooked(fact, facts, platform, broken) ==
    /\ platform = "Linux" /\ fact \in OfSata
    /\ facts \cap OfNvme # {} /\ {"/sys", "nvme"} \cap broken = {}
=============================================================================
