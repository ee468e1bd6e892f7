------------------------------- MODULE Limits -------------------------------
(***************************************************************************)
(* The caps of pcbench/limits.py and the sizes the tests derive from them. *)
(* Sizes are in MB, and so are the amounts of memory and of free space,    *)
(* which the code knows in bytes: what it rounds down, is rounded down     *)
(* here.  A size of 0 stands for "not known", as in the code.              *)
(***************************************************************************)
EXTENDS Integers

CONSTANTS
    MEM_MIN_MB,
    MEM_DEFAULT_CAP_MB,         \* used when the memory size is not known
    MEM_PARTS,                  \* a buffer is at most RAM / MEM_PARTS
    DISK_MIN_MB,
    DISK_MAX_TOTAL_WRITE_MB,    \* what all the repeats may write together
    DISK_BLOCK_MB,              \* bench_disk writes blocks of this size
    SCALING_FLOOR_MB            \* least buffer of bench_memory_scaling

ASSUME LimitsAssumption ==
    /\ MEM_MIN_MB \in Nat \ {0} /\ MEM_DEFAULT_CAP_MB \in Nat /\ MEM_PARTS \in Nat \ {0}
    /\ DISK_MIN_MB \in Nat \ {0} /\ DISK_MAX_TOTAL_WRITE_MB \in Nat
    /\ DISK_BLOCK_MB \in Nat \ {0} /\ DISK_BLOCK_MB <= DISK_MIN_MB
    /\ SCALING_FLOOR_MB \in Nat

AtLeast(floor, n) == IF n < floor THEN floor ELSE n
AtMost(cap, n) == IF n > cap THEN cap ELSE n

-----------------------------------------------------------------------------
MemCap(ram) == AtLeast(MEM_MIN_MB, IF ram > 0 THEN ram \div MEM_PARTS ELSE MEM_DEFAULT_CAP_MB)

safe_mem_mb(requested, ram) == AtMost(MemCap(ram), AtLeast(MEM_MIN_MB, requested))

\* bench_memory_scaling: two buffers in each of `cores` processes.
Huge == 1048576
ScalingBuffer(wanted, ram, cores) ==
    LET per_proc == AtLeast(1, safe_mem_mb(Huge, ram) \div (2 * AtLeast(1, cores)))
    IN AtLeast(SCALING_FLOOR_MB, AtMost(per_proc, wanted))

-----------------------------------------------------------------------------
PerRunCap(repeats) == AtLeast(DISK_MIN_MB, DISK_MAX_TOTAL_WRITE_MB \div AtLeast(1, repeats))

\* 1.5 x headroom; free = 0 means that nothing is known.
SpaceCap(free, mb) == IF free > 0 THEN AtMost((2 * free) \div 3, mb) ELSE mb

safe_disk_mb(requested, free, repeats) ==
    LET wanted == AtLeast(DISK_MIN_MB, requested)
        allowed == AtLeast(DISK_MIN_MB, SpaceCap(free, AtMost(PerRunCap(repeats), wanted)))
    IN AtMost(wanted, allowed)

total_write_mb(file_mb, repeats) == AtLeast(1, file_mb) * AtLeast(1, repeats)

\* What bench_disk writes per repeat: whole blocks.
FileTotal(file_mb) == AtLeast(1, file_mb \div DISK_BLOCK_MB) * DISK_BLOCK_MB

FitsSwapped(total, free) == 2 * total <= 3 * free
Fits(total, free) == 3 * total <= 2 * free
=============================================================================
