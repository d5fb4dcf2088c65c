-------------------------------- MODULE Dll --------------------------------
(***************************************************************************)
(* The circular doubly linked list (common/dll.c) that holds the free      *)
(* blocks of the physical memory manager.  The links are two functions on  *)
(* nodes, next and prev; a list is known by its head, which is a node that *)
(* holds no element.  The pointers of a node that is in no list are        *)
(* whatever was left there.                                                *)
(***************************************************************************)
EXTENDS Integers, Sequences

dll_init(l, list) == [next |-> [l.next EXCEPT ![list] = list], prev |-> [l.prev EXCEPT ![list] = list]]

\* _dll_add: its four stores, in the order of the code.
dll_add(l, new, prev, next) ==
    [next |-> [l.next EXCEPT ![prev] = new, ![new] = next],
     prev |-> [l.prev EXCEPT ![new] = prev, ![next] = new]]

dll_add_after(l, head, new) == dll_add(l, new, head, l.next[head])

dll_add_before(l, head, new) == dll_add(l, new, l.prev[head], head)

\* The pointers of the node itself stay.
dll_delete(l, node) ==
    [next |-> [l.next EXCEPT ![l.prev[node]] = l.next[node]],
     prev |-> [l.prev EXCEPT ![l.next[node]] = l.prev[node]]]

dll_empty(l, head) == l.next[head] = head /\ l.prev[head] = head

-----------------------------------------------------------------------------
(* The sequence that a list stands for. *)

\* The node at a position, the head before the first and after the last one.
At(head, s, i) == IF i \in 1..Len(s) THEN s[i] ELSE head

IsList(l, head, s) ==
    \A i \in 0..Len(s) : /\ l.next[At(head, s, i)] = At(head, s, i + 1)
                         /\ l.prev[At(head, s, i + 1)] = At(head, s, i)

\* The elements of a list are distinct nodes other than its head.
Elements(Nodes, head, s) ==
    /\ s \in Seq(Nodes \ {head})
    /\ \A i, j \in 1..Len(s) : s[i] = s[j] => i = j

\* s with e in front of its i-th element, and s without its i-th element.
Inserted(s, i, e) == [j \in 1..(Len(s) + 1) |-> IF j < i THEN s[j] ELSE IF j = i THEN e ELSE s[j - 1]]
Removed(s, i) == [j \in 1..(Len(s) - 1) |-> IF j < i THEN s[j] ELSE s[j + 1]]

\* The links that memory can hold.
Links(Nodes) == [next : [Nodes -> Nodes], prev : [Nodes -> Nodes]]

\* The functions do to a list what they say: on the links l of the list s, with
\* any values in the other nodes, dll_empty tells whether s is empty, dll_delete
\* takes out one element, and dll_add_after and dll_add_before the head add a
\* node at the front and at the back, next and prev pointers alike.
ActsOnSequence(Nodes, head, l, s) ==
    /\ dll_empty(l, head) <=> s = <<>>
    /\ \A i \in 1..Len(s) : IsList(dll_delete(l, s[i]), head, Removed(s, i))
    /\ \A new \in Nodes \ {head} : (\A j \in 1..Len(s) : s[j] # new) =>
          /\ IsList(dll_add_after(l, head, new), head, Inserted(s, 1, new))
          /\ IsList(dll_add_before(l, head, new), head, Inserted(s, Len(s) + 1, new))

=============================================================================
