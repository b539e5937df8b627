----------------------------- MODULE ListService -----------------------------
(***************************************************************************)
(* What lib/list promises its users: a list is a sequence of items, an     *)
(* item is in one list at most, and each call changes one sequence and     *)
(* returns what it says.  Of the tail the comment of list.c says that it   *)
(* is the element after the first; here it is the last one, as its name    *)
(* says and its users take it.                                             *)
(***************************************************************************)
EXTENDS Integers, SequencesExt

CONSTANTS List, Item, NULL

VARIABLES
  order,   \* the items of each list, from first to last
  result   \* the last call: its function, its list, its item, what it returned

Listed(l) == Range(order[l])
Free(x) == \A l \in List : x \notin Listed(l)

\* A copy shares its items with the list it was made of: both are only read
\* until one of them is initialized.
Alone(l) == \A m \in List \ {l} : Listed(m) \cap Listed(l) = {}

FirstOf(s) == IF s = <<>> THEN NULL ELSE Head(s)
LastOf(s) == IF s = <<>> THEN NULL ELSE Last(s)

Returns(f, l, x, r) == result' = [f |-> f, list |-> l, item |-> x, ret |-> r]
Becomes(l, s) == order' = [order EXCEPT ![l] = s]

EmptyLists == order = [l \in List |-> <<>>] /\ result = [f |-> "none", list |-> NULL, item |-> NULL, ret |-> NULL]

Initialized(l) == Returns("init", l, NULL, NULL) /\ Becomes(l, <<>>)
Copied(l, m) == Returns("copy", l, NULL, NULL) /\ Becomes(l, order[m])
Read(l) ==
  /\ \/ Returns("head", l, NULL, FirstOf(order[l]))
     \/ Returns("tail", l, NULL, LastOf(order[l]))
     \/ Returns("length", l, NULL, Len(order[l]))
  /\ UNCHANGED order

Added(l, x) ==
  Returns("add", l, x, NULL) /\ Alone(l) /\ Free(x) /\ Becomes(l, Append(order[l], x))
Pushed(l, x) ==
  Returns("push", l, x, NULL) /\ Alone(l) /\ Free(x) /\ Becomes(l, <<x>> \o order[l])
Popped(l) ==
  /\ Returns("pop", l, NULL, FirstOf(order[l])) /\ Alone(l)
  /\ Becomes(l, IF order[l] = <<>> THEN <<>> ELSE Tail(order[l]))
Chopped(l) ==
  /\ Returns("chop", l, NULL, LastOf(order[l])) /\ Alone(l)
  /\ Becomes(l, IF order[l] = <<>> THEN <<>> ELSE Front(order[l]))
Removed(l, x) ==
  Returns("remove", l, x, NULL) /\ Alone(l) /\ Becomes(l, Remove(order[l], x))

\* In front of all items, or behind the item p.
Inserted(l, p, x) ==
  /\ Returns("insert", l, x, NULL) /\ Alone(l) /\ Free(x)
  /\ \E i \in 0 .. Len(order[l]) :
       /\ p = IF i = 0 THEN NULL ELSE order[l][i]
       /\ Becomes(l, SubSeq(order[l], 1, i) \o <<x>> \o SubSeq(order[l], i + 1, Len(order[l])))

\* The step is the call its result tells of.
ListNext ==
  LET l == result'.list
      x == result'.item
  IN /\ l \in List
     /\ \/ Initialized(l) \/ Read(l) \/ Popped(l) \/ Chopped(l)
        \/ \E m \in List \ {l} : Copied(l, m)
        \/ /\ x \in Item
           /\ \/ Added(l, x) \/ Pushed(l, x) \/ Removed(l, x)
              \/ \E p \in Item \cup {NULL} : Inserted(l, p, x)

ListSpec == EmptyLists /\ [][ListNext]_<<order, result>>
=============================================================================
