---------------------------------- MODULE Ms ----------------------------------
(***************************************************************************)
(* The multiset of ms.c: an array whose holes are filled by the last item, *)
(* and a cursor `last' from which ms_take takes.  An append may fail, when *)
(* the array has to grow and cannot; how full it is is left out, so that   *)
(* any append of module TubeRefs may.  The callbacks oninsert and onremove *)
(* are applied by the callers (the watch lists of TubeRefs).               *)
(***************************************************************************)
EXTENDS Integers, Sequences, SequencesExt

ms_init == [items |-> <<>>, last |-> 0]

ms_append(a, x) == [a EXCEPT !.items = Append(@, x)]

\* Cell i, counted from zero, gets the last item.
ms_delete(a, i) ==
    [a EXCEPT !.items = [k \in 1..(Len(@) - 1) |-> IF k = i + 1 THEN @[Len(@)] ELSE @[k]]]

ms_contains(a, x) == Contains(a.items, x)

\* The first cell that holds x is deleted, if there is one.
ms_remove(a, x) ==
    IF ms_contains(a, x)
    THEN ms_delete(a, (CHOOSE i \in 1..Len(a.items) :
                          /\ a.items[i] = x
                          /\ \A h \in 1..(i - 1) : a.items[h] # x) - 1)
    ELSE a

\* The item ms_take returns, and the array it leaves.
Cursor(a) == a.last % Len(a.items)

ms_taken(a) == a.items[Cursor(a) + 1]

ms_take(a) == [ms_delete(a, Cursor(a)) EXCEPT !.last = Cursor(a) + 1]
=============================================================================
