----------------------------- MODULE Sustained -----------------------------
(***************************************************************************)
(* sustained.run_sustained: a load in windows, in this process or in a     *)
(* pool that is kept for all of them, a look at the thermal state before   *)
(* each, and a summary of the windows there are.                           *)
(*                                                                         *)
(* Heat goes up and down by itself; a machine at its limit runs at half    *)
(* its speed.  Time is counted in windows.                                 *)
(***************************************************************************)
EXTENDS Naturals, Sequences, FiniteSetsExt, SequencesExt

CONSTANTS
    Workers,        \* the processes of the pool
    MaxWindows,     \* the duration asked for, at most
    ABORT           \* the heat from which thermal_should_abort says so

VARIABLES
    parallel,   \* more than one worker was asked for
    readable,   \* the platform has a thermal_pressure that tells
    duration,
    heat,
    spent,      \* time gone
    step,       \* where the caller is
    busy,       \* workers that are at their share of the window
    killed,     \* workers the system killed (out of memory)
    rates,      \* samples: the rate of each window
    measured,   \* windows that were completed
    abort,      \* the reason _check_thermal gave
    summary     \* what run_sustained returned

vars == <<parallel, readable, duration, heat, spent, step, busy, killed, rates, measured, abort, summary>>

Nil == [windows |-> 0, droop |-> 0, aborted |-> FALSE]

TypeOK ==
    /\ parallel \in BOOLEAN /\ readable \in BOOLEAN /\ duration \in 1 .. MaxWindows
    /\ heat \in 0 .. ABORT /\ spent \in 0 .. duration
    /\ step \in {"look", "window", "summarise", "returned", "interrupted"}
    /\ busy \subseteq Workers /\ killed \subseteq Workers /\ (step # "window" => busy \subseteq killed)
    /\ rates \in Seq({1, 2}) /\ Len(rates) <= duration /\ measured \in 0 .. duration
    /\ abort \in BOOLEAN
    /\ summary.windows \in 0 .. duration /\ summary.droop \in 0 .. 100 /\ summary.aborted \in BOOLEAN

Init ==
    /\ parallel \in BOOLEAN /\ readable \in BOOLEAN /\ duration \in 1 .. MaxWindows
    /\ heat \in 0 .. ABORT
    /\ spent = 0 /\ step = "look" /\ busy = {} /\ killed = {}
    /\ rates = <<>> /\ measured = 0 /\ abort = FALSE /\ summary = Nil

Pool == IF parallel THEN Workers ELSE {CHOOSE w \in Workers : TRUE}
ShouldAbort == readable /\ heat >= ABORT

Look ==
    /\ step = "look"
    /\ IF spent >= duration \/ ShouldAbort
       THEN /\ abort' = (spent < duration)
            /\ step' = "summarise"
            /\ UNCHANGED busy
       ELSE /\ step' = "window"
            /\ busy' = Pool
            /\ UNCHANGED abort
    /\ UNCHANGED <<parallel, readable, duration, heat, spent, killed, rates, measured, summary>>

Share(w) ==
    /\ step = "window" /\ w \in busy \ killed
    /\ busy' = busy \ {w}
    /\ UNCHANGED <<parallel, readable, duration, heat, spent, step, killed, rates, measured, abort, summary>>

Rate == IF heat >= ABORT THEN 1 ELSE 2

\* pool.map returns when every worker has; a share that was lost with its
\* worker never comes back.
WindowOver ==
    /\ step = "window" /\ busy = {}
    /\ rates' = Append(rates, Rate)
    /\ measured' = measured + 1
    /\ spent' = spent + 1
    /\ step' = "look"
    /\ UNCHANGED <<parallel, readable, duration, heat, busy, killed, abort, summary>>

\* _TAIL_FRACTION of the windows, from the end, and always one.
TailStart(n) == IF n > 1 THEN Max({1, (3 * n) \div 4}) ELSE 0
Last25(rs) == SubSeq(rs, TailStart(Len(rs)) + 1, Len(rs))
Total(rs) == FoldSeq(LAMBDA a, b : a + b, 0, rs)
Droop(rs) ==
    LET peak == Max(Range(rs))
        tail == Last25(rs)
    IN  100 - (100 * Total(tail)) \div (peak * Len(tail))

DroppedOnAbort == IF abort THEN <<>> ELSE rates
Kept == rates

Summarise ==
    /\ step = "summarise"
    /\ summary' = IF Kept = <<>> THEN Nil
                  ELSE [windows |-> Len(Kept), droop |-> Droop(Kept), aborted |-> abort]
    /\ step' = "returned"
    /\ UNCHANGED <<parallel, readable, duration, heat, spent, busy, killed, rates, measured, abort>>

\* Leaving the with block terminates the pool.
KeyboardInterrupt ==
    /\ step \in {"look", "window"}
    /\ step' = "interrupted" /\ busy' = {}
    /\ UNCHANGED <<parallel, readable, duration, heat, spent, killed, rates, measured, abort, summary>>

Killed(w) ==
    /\ parallel /\ step = "window" /\ w \in busy /\ killed = {}
    /\ killed' = {w}
    /\ UNCHANGED <<parallel, readable, duration, heat, spent, step, busy, rates, measured, abort, summary>>

Heat ==
    /\ step = "window"
    /\ heat' \in {heat - 1, heat + 1} \cap 0 .. ABORT
    /\ UNCHANGED <<parallel, readable, duration, spent, step, busy, killed, rates, measured, abort, summary>>

Load == Look \/ WindowOver \/ Summarise
Next == Load \/ (\E w \in Workers : Share(w)) \/ KeyboardInterrupt \/ (\E w \in Workers : Killed(w)) \/ Heat

-----------------------------------------------------------------------------
(* Every window that was completed is in the result that is returned, and  *)
(* the result says that it was cut short exactly when it was. (A load that *)
(* the user interrupts returns none.)                                      *)
(* (A load that is refused before its first window has nothing to report,  *)
(* and its reason is lost: sustained.py 43.)                               *)
AbortCostsNothing ==
    step = "returned" =>
        /\ summary.windows = measured
        /\ measured > 0 => (summary.aborted <=> spent < duration)

(* A load ends, and so does the look at it, unless a worker of the pool    *)
(* was killed: pool.map waits for its share for ever (sustained.py 174).   *)
LoadEnds == <>(step \in {"returned", "interrupted"} \/ killed # {})
=============================================================================
