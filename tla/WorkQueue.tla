------------------------------ MODULE WorkQueue ------------------------------
(***************************************************************************)
(* What a pool of worker threads promises to the threads that submit work, *)
(* with no thread, lock or event in sight.  A submitted call joins a FIFO  *)
(* queue, is begun once, and ends.  Closing is asked for at one moment and *)
(* takes effect at a later one: in between a submission may still be       *)
(* taken, afterwards none is, and the queue closes only when it owes       *)
(* nothing to anybody.                                                     *)
(*                                                                         *)
(* ThreadPool implements this specification (Lab1WPP/ThreadPool.cpp).      *)
(***************************************************************************)
EXTENDS Naturals, Sequences

CONSTANT Calls        \* the submissions: one member per EnqueueItem call

VARIABLES
    phase,            \* "open", "closing" or "closed"
    queue,            \* the calls taken and not begun, oldest first
    running,          \* the calls begun and not ended
    done              \* the calls ended

wqVars == <<phase, queue, running, done>>

\* The calls the queue has taken and still knows about.
Known == {queue[i] : i \in 1..Len(queue)} \cup running \cup done

Drained == queue = << >> /\ running = {}

WQInit ==
    /\ phase = "open"
    /\ queue = << >>
    /\ running = {}
    /\ done = {}

Submit(c) ==
    /\ phase # "closed"
    /\ c \notin Known
    /\ queue' = Append(queue, c)
    /\ UNCHANGED <<phase, running, done>>

Begin ==
    /\ queue # << >>
    /\ queue' = Tail(queue)
    /\ running' = running \cup {Head(queue)}
    /\ UNCHANGED <<phase, done>>

End(c) ==
    /\ c \in running
    /\ running' = running \ {c}
    /\ done' = done \cup {c}
    /\ UNCHANGED <<phase, queue>>

Close ==
    /\ phase = "open"
    /\ phase' = "closing"
    /\ UNCHANGED <<queue, running, done>>

\* A queue that owes nothing may close without a visible "closing" moment.
Finish ==
    /\ phase # "closed"
    /\ Drained
    /\ phase' = "closed"
    /\ UNCHANGED <<queue, running, done>>

WQNext ==
    \/ \E c \in Calls : Submit(c) \/ End(c)
    \/ Begin
    \/ Close
    \/ Finish

WQSpec == WQInit /\ [][WQNext]_wqVars
=============================================================================
