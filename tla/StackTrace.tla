------------------------------ MODULE StackTrace ------------------------------
(***************************************************************************)
(* The stack traces of the notification driver (StackTrace.cpp): the       *)
(* constructor captures the calling thread's frames and finds the first    *)
(* run of them inside ntoskrnl; AreNtTracesSame compares two such runs.    *)
(* ProcessMonitor reports a process as hollow by the comparison of its     *)
(* trace with the first one kept, the good one.                            *)
(*                                                                         *)
(* Frames are counted from 0, the innermost, as in the code, and ranges    *)
(* are LONG: they may pass through -1.                                     *)
(***************************************************************************)
EXTENDS Integers, FiniteSets

CONSTANTS
    Addresses,        \* return addresses
    NtBaseAddress,    \* where ntoskrnl lies
    NtModuleSize,
    MaxFrames,        \* the size of the array backtrace
    MaxDepth          \* bound: frames of a thread

ASSUME TraceAssumption ==
    /\ Addresses \subseteq Nat
    /\ NtBaseAddress \in Nat /\ NtModuleSize \in Nat
    /\ MaxFrames \in Nat \ {0} /\ MaxDepth \in Nat

CONSTANTS Good, New   \* the two StackTrace objects compared

VARIABLES
    stack,            \* the frames of the thread that constructed each
    trace             \* the StackTrace object; without frames if not yet

traceVars == <<stack, trace>>

Stacks == UNION {[0..(n - 1) -> Addresses] : n \in 1..MaxDepth}
Depth(s) == Cardinality(DOMAIN s)

Empty == [backtrace |-> << >>, stackframes |-> 0, ntStartIdx |-> 0, ntEndIdx |-> 0]

\* Where a loop over the frames from i on ends, that breaks at one of Stops.
Loop(i, n, Stops) ==
    LET at[k \in 0..n] == IF k = n \/ k \in Stops THEN k ELSE at[k + 1]
    IN  at[i]

\* IsAddressInNtModule: neither the base nor the end is an address in it.
IsAddressInNtModule(a) ==
    NtBaseAddress < a /\ a < NtBaseAddress + NtModuleSize

\* The frames of b that lie in ntoskrnl.
NtFrames(b) == {i \in DOMAIN b : IsAddressInNtModule(b[i])}
-----------------------------------------------------------------------------
(* Slips a rewrite could make. *)

\* Nothing is done about traces without ntoskrnl.
NtRangeRaw(b, n, start) ==
    [first |-> start, last |-> Loop(start, n, DOMAIN b \ NtFrames(b)) - 1]

\* Only the lengths of the runs are compared.
SameLengths(t, o) == t.ntEndIdx - t.ntStartIdx = o.ntEndIdx - o.ntStartIdx
-----------------------------------------------------------------------------
\* The second loop of the constructor and the two corrections behind it.
NtRange(b, n, start) ==
    LET end == Loop(start, n, DOMAIN b \ NtFrames(b)) - 1
    IN  IF end < start THEN [first |-> 0, last |-> 0] ELSE [first |-> start, last |-> end]

\* StackTrace::StackTrace in a thread with frames s.
Construct(s) ==
    LET n == IF Depth(s) < MaxFrames THEN Depth(s) ELSE MaxFrames
        b == [i \in 0..(n - 1) |-> s[i]]
        range == NtRange(b, n, Loop(0, n, NtFrames(b)))
    IN  [backtrace |-> b, stackframes |-> n,
         ntStartIdx |-> range.first, ntEndIdx |-> range.last]

\* AreNtTracesSame.  The loop ends before the last frame of the run.
AreNtTracesSame(t, o) ==
    /\ t.ntEndIdx - t.ntStartIdx = o.ntEndIdx - o.ntStartIdx
    /\ \A k \in 0..(t.ntEndIdx - t.ntStartIdx - 1) :
         t.backtrace[t.ntStartIdx + k] = o.backtrace[o.ntStartIdx + k]
-----------------------------------------------------------------------------
TraceInit ==
    /\ stack = [x \in {Good, New} |-> << >>]
    /\ trace = [x \in {Good, New} |-> Empty]

Capture(x) ==
    /\ trace[x] = Empty
    /\ stack' \in {[stack EXCEPT ![x] = s] : s \in Stacks}
    /\ trace' = [trace EXCEPT ![x] = Construct(stack'[x])]

TraceNext == Capture(Good) \/ Capture(New)

TraceSpec == TraceInit /\ [][TraceNext]_traceVars
-----------------------------------------------------------------------------
(***************************************************************************)
(* Properties.                                                             *)
(***************************************************************************)

\* What the source calls the calls from ntoskrnl: the frames from the first
\* that is in the module up to the first after it that is not.
NtCalls(t) ==
    {i \in DOMAIN t.backtrace :
       /\ IsAddressInNtModule(t.backtrace[i])
       /\ \A j \in 0..i : \A k \in 0..j :
            IsAddressInNtModule(t.backtrace[k]) => IsAddressInNtModule(t.backtrace[j])}

(***************************************************************************)
(* The two loops and their corrections find the first run of ntoskrnl      *)
(* frames, wherever it begins and ends; a trace without one has the range  *)
(* (0,0), and none goes beyond the array.                                  *)
(***************************************************************************)
RangeIsFirstNtRun ==
    \A x \in {Good, New} :
      LET t == trace[x]
          range == t.ntStartIdx .. t.ntEndIdx
      IN  /\ t.stackframes <= MaxFrames
          /\ range = IF NtCalls(t) = {} THEN {0} ELSE NtCalls(t)

\* The k-th address of a trace's run.
NtAddress(t, k) == t.backtrace[t.ntStartIdx + k]

SameRuns(t, o, n) ==
    /\ Cardinality(NtCalls(t)) = Cardinality(NtCalls(o))
    /\ \A k \in 0..(n - 1) : NtAddress(t, k) = NtAddress(o, k)

DisplacementIgnored ==
    LET n == Cardinality(NtCalls(trace[Good]))
    IN  SameRuns(trace[Good], trace[New], n) =>
          AreNtTracesSame(trace[Good], trace[New])

HollowNoticed ==
    LET n == Cardinality(NtCalls(trace[Good]))
    IN  /\ n > 0
        /\ NtCalls(trace[New]) # {}
        /\ AreNtTracesSame(trace[Good], trace[New])
        => SameRuns(trace[Good], trace[New], n - 1)

(***************************************************************************)
(* Traces with the same run of ntoskrnl frames are the same: a filter      *)
(* inserted above the driver displaces the indexes but raises no alarm     *)
(* (StackTrace.cpp:77).  And traces whose runs differ in length, or in a   *)
(* frame that is not the outermost, are not taken for the same.            *)
(***************************************************************************)
SameMeansSameRun == DisplacementIgnored /\ HollowNoticed

(***************************************************************************)
(* "However number of calls from ntoskrnl should be the same"              *)
(* (StackTrace.cpp:78): traces that are the same have as many.             *)
(***************************************************************************)
SameNumberOfNtCalls ==
    (\A x \in {Good, New} : trace[x] # Empty)
      /\ AreNtTracesSame(trace[Good], trace[New]) =>
        Cardinality(NtCalls(trace[Good])) = Cardinality(NtCalls(trace[New]))
=============================================================================
