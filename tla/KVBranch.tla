------------------------------ MODULE KVBranch ------------------------------
(***************************************************************************)
(* What a branch of a key-value store promises (types.CacheKVStore): reads *)
(* see the branch's own writes over the base, an iterator yields in order  *)
(* the keys as they were when it was opened, Write applies the branch to   *)
(* the base, and a branch that is dropped leaves no trace.                 *)
(***************************************************************************)
EXTENDS Integers

CONSTANTS
    N,        \* the keys are 1 .. N, in the order of their bytes
    Values,   \* the values a key is set to
    Nil       \* no value

VARIABLES
    base,     \* the store that is branched
    view,     \* the branch
    cursor,   \* the pairs the open iterator has still to yield
    order,    \* "closed", or the order of the open iterator
    out       \* what the last operation returned, Nil when it returns nothing

vars == <<base, view, cursor, order, out>>

Keys == 1 .. N
Stored == Values \cup {Nil}
Orders == {"ascending", "descending"}
Domain(start, end) == {k \in Keys : start <= k /\ k < end}
Starts == 1 .. N         \* 1: also from the first key, a nil start
Ends == 1 .. N + 1       \* N + 1: to the last key

\* k is the first of the keys in S.
First(S, k, o) ==
    /\ k \in S
    /\ \A j \in S : IF o = "ascending" THEN k <= j ELSE j <= k

Init ==
    /\ base \in [Keys -> Stored] /\ view = base
    /\ cursor = {} /\ order = "closed" /\ out = Nil

Get(k) ==
    /\ out' = view[k]
    /\ UNCHANGED <<base, view, cursor, order>>

Set(k, v) ==
    /\ view' = [view EXCEPT ![k] = v]
    /\ out' = Nil
    /\ UNCHANGED <<base, cursor, order>>

Write ==
    /\ order = "closed"
    /\ base' = view
    /\ out' = Nil
    /\ UNCHANGED <<view, cursor, order>>

Drop ==
    /\ order = "closed"
    /\ view' = base
    /\ out' = Nil
    /\ UNCHANGED <<base, cursor, order>>

Iterator(start, end, o) ==
    /\ order = "closed"
    /\ order' = o
    /\ cursor' = {<<k, view[k]>> : k \in {j \in Domain(start, end) : view[j] # Nil}}
    /\ out' = Nil
    /\ UNCHANGED <<base, view>>

NextItem(k) ==
    /\ order # "closed"
    /\ First({p[1] : p \in cursor}, k, order)
    /\ \E p \in cursor : p[1] = k /\ out' = p /\ cursor' = cursor \ {p}
    /\ UNCHANGED <<base, view, order>>

Close ==
    /\ order # "closed"
    /\ order' = "closed" /\ cursor' = {}
    /\ out' = Nil
    /\ UNCHANGED <<base, view>>

Next ==
    \/ \E k \in Keys : Get(k) \/ NextItem(k) \/ \E v \in Stored : Set(k, v)
    \/ Write \/ Drop \/ Close
    \/ \E start \in Starts, end \in Ends, o \in Orders : Iterator(start, end, o)

Spec == Init /\ [][Next]_vars
=============================================================================
