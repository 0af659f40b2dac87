------------------------------ MODULE LinkedList ------------------------------
(***************************************************************************)
(* The notification driver's intrusive list (LinkedList.hpp): entries and  *)
(* the list itself are nodes of one ring of flink and blink.               *)
(*                                                                         *)
(* Callers hold a lock, so operations are steps; only Flush, which runs    *)
(* the list's own RemoveHead and delete in a loop, takes a step for each.  *)
(* Callers owe what the driver's callers keep: an entry is inserted once,  *)
(* removed from the list it is in, deleted when it is in no list, and      *)
(* nothing is removed from an empty list.                                  *)
(***************************************************************************)
EXTENDS Naturals, Sequences, FiniteSets

CONSTANTS
    Entries,      \* the LinkedListEntry objects there may be
    List          \* the LinkedList, itself a LinkedListEntry

ASSUME ListAssumption == List \notin Entries /\ IsFiniteSet(Entries)

Nodes == Entries \cup {List}

VARIABLES
    flink,
    blink,
    noElements,
    use,          \* what the callers know of each entry
    flushing,     \* is Flush running?
    head          \* its local variable; the list itself when it has none

links == <<flink, blink, noElements>>
vars == <<flink, blink, noElements, use, flushing, head>>

Uses == {"deleted", "fresh", "linked", "removed"}

\* LinkedListEntry::LinkedListEntry, for the list itself.
Init ==
    /\ flink = [n \in Nodes |-> n]
    /\ blink = [n \in Nodes |-> n]
    /\ noElements = 0
    /\ use = [e \in Entries |-> "deleted"]
    /\ flushing = FALSE
    /\ head = List

IsListEmpty == noElements = 0

\* CheckListEntry: the neighbours of a node know it.
CheckListEntry(n) == blink[flink[n]] = n /\ flink[blink[n]] = n
-----------------------------------------------------------------------------
(* Slips a rewrite could make. *)

\* RemoveEntry only closes the ring backwards.
RemoveEntryShort(e) ==
    /\ blink' = [blink EXCEPT ![flink[e]] = blink[e]]
    /\ noElements' = noElements - 1
    /\ UNCHANGED flink

\* InsertHead puts the entry behind the head.
InsertSecond(e) ==
    /\ ~flushing /\ use[e] = "fresh"
    /\ flink' = [flink EXCEPT ![e] = flink[flink[List]], ![flink[List]] = e]
    /\ blink' = [blink EXCEPT ![e] = flink[List], ![flink[flink[List]]] = e]
    /\ noElements' = noElements + 1
    /\ use' = [use EXCEPT ![e] = "linked"]
    /\ UNCHANGED <<flushing, head>>

\* InsertHead does not count.
InsertUncounted(e) ==
    /\ ~flushing /\ use[e] = "fresh"
    /\ flink' = [flink EXCEPT ![e] = flink[List], ![List] = e]
    /\ blink' = [blink EXCEPT ![e] = List, ![flink[List]] = e]
    /\ use' = [use EXCEPT ![e] = "linked"]
    /\ UNCHANGED <<noElements, flushing, head>>

\* Flush removes and deletes at most one entry.
EndFlushEarly ==
    /\ flushing /\ head = List
    /\ flushing' = FALSE
    /\ UNCHANGED <<links, use, head>>
-----------------------------------------------------------------------------
\* Unlink the entry from its neighbours; its own links stay as they are.
RemoveEntry(e) ==
    /\ blink' = [blink EXCEPT ![flink[e]] = blink[e]]
    /\ flink' = [flink EXCEPT ![blink[e]] = flink[e]]
    /\ noElements' = noElements - 1

Construct(e) ==
    /\ ~flushing /\ use[e] = "deleted"
    /\ flink' = [flink EXCEPT ![e] = e]
    /\ blink' = [blink EXCEPT ![e] = e]
    /\ use' = [use EXCEPT ![e] = "fresh"]
    /\ UNCHANGED <<noElements, flushing, head>>

Delete(e) ==
    /\ ~flushing /\ use[e] \in {"fresh", "removed"}
    /\ use' = [use EXCEPT ![e] = "deleted"]
    /\ UNCHANGED <<links, flushing, head>>

InsertTail(e) ==
    /\ ~flushing /\ use[e] = "fresh"
    /\ blink' = [blink EXCEPT ![e] = blink[List], ![List] = e]
    /\ flink' = [flink EXCEPT ![e] = List, ![blink[List]] = e]
    /\ noElements' = noElements + 1
    /\ use' = [use EXCEPT ![e] = "linked"]
    /\ UNCHANGED <<flushing, head>>

InsertHead(e) ==
    /\ ~flushing /\ use[e] = "fresh"
    /\ flink' = [flink EXCEPT ![e] = flink[List], ![List] = e]
    /\ blink' = [blink EXCEPT ![e] = List, ![flink[List]] = e]
    /\ noElements' = noElements + 1
    /\ use' = [use EXCEPT ![e] = "linked"]
    /\ UNCHANGED <<flushing, head>>

\* RemoveEntry on an entry the caller found, RemoveTail and RemoveHead.
Take(e) ==
    /\ ~flushing /\ use[e] = "linked"
    /\ RemoveEntry(e)
    /\ use' = [use EXCEPT ![e] = "removed"]
    /\ UNCHANGED <<flushing, head>>
RemoveTail == blink[List] \in Entries /\ Take(blink[List])
RemoveHead == flink[List] \in Entries /\ Take(flink[List])
-----------------------------------------------------------------------------
\* Flush, which the destructor calls too: while not empty, the head is
BeginFlush ==
    /\ ~flushing
    /\ flushing' = TRUE
    /\ UNCHANGED <<links, use, head>>

\* removed
FlushRemove ==
    /\ flushing /\ head = List /\ ~IsListEmpty
    /\ head' = flink[List]
    /\ RemoveEntry(flink[List])
    /\ use' = [e \in Entries |-> IF e = flink[List] THEN "removed" ELSE use[e]]
    /\ UNCHANGED flushing

\* and deleted.
FlushDelete ==
    /\ flushing /\ head # List
    /\ use' = [use EXCEPT ![head] = "deleted"]
    /\ head' = List
    /\ UNCHANGED <<links, flushing>>

EndFlush ==
    /\ flushing /\ head = List /\ IsListEmpty
    /\ flushing' = FALSE
    /\ UNCHANGED <<links, use, head>>

Flush == FlushRemove \/ FlushDelete \/ EndFlush
-----------------------------------------------------------------------------
Next ==
    \/ \E e \in Entries :
         Construct(e) \/ Delete(e) \/ InsertTail(e) \/ InsertHead(e) \/ Take(e)
    \/ RemoveTail \/ RemoveHead
    \/ BeginFlush \/ Flush

Spec == Init /\ [][Next]_vars

\* The loop of Flush goes on: no caller must do anything for it.
FairSpec == Spec /\ WF_vars(Flush)
-----------------------------------------------------------------------------
(***************************************************************************)
(* Properties.                                                             *)
(***************************************************************************)

\* The variables keep their types; the size_t noElements never wraps.
TypeOK ==
    /\ flink \in [Nodes -> Nodes]
    /\ blink \in [Nodes -> Nodes]
    /\ noElements \in 0..Cardinality(Entries)
    /\ use \in [Entries -> Uses]
    /\ flushing \in BOOLEAN
    /\ head \in Nodes

Linked == {e \in Entries : use[e] = "linked"}

\* The entries an Iterator passes from begin() to end(), which is the list
\* itself, when next are the links it follows.
Walk(next) ==
    LET at[k \in 1..Cardinality(Nodes)] ==
          IF k = 1 THEN next[List]
          ELSE IF at[k - 1] = List THEN List ELSE next[at[k - 1]]
    IN  [k \in {j \in DOMAIN at : at[j] # List} |-> at[k]]

Iteration == Walk(flink)

\* The assertions of CheckListEntry hold whenever an operation makes them.
AssertionsHold ==
    \A n \in Linked \cup {List} \cup {e \in Entries : use[e] = "fresh"} :
      CheckListEntry(n)

NothingDangling ==
    \A n \in Linked \cup {List} :
      {flink[n], blink[n]} \subseteq Linked \cup {List}

(***************************************************************************)
(* The links of the list, of the entries in it and of fresh ones satisfy   *)
(* the assertions of the code, and none that an operation or an iteration  *)
(* follows leads to an entry that was deleted or is in no list, although a *)
(* removed entry keeps its links into the list.                            *)
(***************************************************************************)
LinksSound == AssertionsHold /\ NothingDangling

(***************************************************************************)
(* Iterating shows a list of objects in order, which InsertTail,           *)
(* InsertHead, RemoveHead, RemoveTail, RemoveEntry and Flush change as a   *)
(* list of objects promises.                                               *)
(***************************************************************************)
Objects == INSTANCE ObjectList WITH
    Objects <- Entries,
    contents <- Iteration,
    apart <- {e \in Entries : use[e] \in {"fresh", "removed"}}
ImplementsObjectList == Objects!OLSpec

(***************************************************************************)
(* Flush goes by the count, not by the links: it comes to its end, and     *)
(* then the list is empty, which the count and the ring agree on.          *)
(***************************************************************************)
FlushEmpties == flushing ~> (~flushing /\ flink[List] = List /\ Linked = {})
=============================================================================
