----------------------------- MODULE LinkedList -----------------------------
(***************************************************************************)
(* core/lib/list.c: a list is a pointer to its first item, and each item   *)
(* starts with a pointer to the next.  Nothing else says what a list       *)
(* holds: an item that was popped keeps its old pointer, and two lists may *)
(* run into each other.                                                    *)
(***************************************************************************)
EXTENDS Integers, FiniteSets, SequencesExt

CONSTANTS List, Item, NULL

ASSUME NoItemAssumption == NULL \notin Item

VARIABLES
  list,   \* what each list_t points to: its first item
  next,   \* of each item
  result    \* the last call, and what it returned

listVars == <<list, next, result>>

\* The items from x on, until a NULL pointer; in a cycle, one more than the
\* items there are.
Walk(x) ==
  LET way[n \in 1 .. Cardinality(Item) + 1] ==
        IF n = 1 THEN <<x>>
        ELSE LET before == way[n - 1]
             IN IF next[Last(before)] = NULL THEN before
                ELSE Append(before, next[Last(before)])
  IN IF x = NULL THEN <<>> ELSE way[Cardinality(Item) + 1]

On(l) == Range(Walk(list[l]))

\* The callers of this repository give list_add, list_push and list_insert items
\* that are in no list, having removed them, and list_copy's two lists share
\* their items.
Free(x) == \A l \in List : x \notin On(l)
Alone(l) == \A m \in List \ {l} : On(m) \cap On(l) = {}

LinkedListInit ==
  /\ list = [l \in List |-> NULL]
  /\ next = [x \in Item |-> NULL]
  /\ result = [f |-> "none", list |-> NULL, item |-> NULL, ret |-> NULL]

Returns(f, l, x, r) == result' = [f |-> f, list |-> l, item |-> x, ret |-> r]

list_init(l) ==
  list' = [list EXCEPT ![l] = NULL] /\ Returns("init", l, NULL, NULL) /\ UNCHANGED next

list_copy(dest, src) ==
  list' = [list EXCEPT ![dest] = list[src]] /\ Returns("copy", dest, NULL, NULL) /\ UNCHANGED next

list_head(l) == Returns("head", l, NULL, list[l]) /\ UNCHANGED <<list, next>>

\* The item whose next is NULL, as the loop of list.c:117-130 finds it and its callers
\* use it.  The comment above that function promises "the element after the first
\* element on the list" (list.c:106-116) instead: the code is followed, not the comment.
TailOf(l) == IF list[l] = NULL THEN NULL ELSE Last(Walk(list[l]))

list_tail(l) == Returns("tail", l, NULL, TailOf(l)) /\ UNCHANGED <<list, next>>

list_length(l) == Returns("length", l, NULL, Len(Walk(list[l]))) /\ UNCHANGED <<list, next>>

\* Mutant: the item keeps the pointer it had in the list it was popped from.
KeepNext(x) == next

EndsList(x) == [next EXCEPT ![x] = NULL]

list_add(l, x) ==
  /\ Alone(l) /\ Free(x)
  /\ IF TailOf(l) = NULL
     THEN list' = [list EXCEPT ![l] = x] /\ next' = EndsList(x)
     ELSE UNCHANGED list /\ next' = [EndsList(x) EXCEPT ![TailOf(l)] = x]
  /\ Returns("add", l, x, NULL)

Push(l, x) == list' = [list EXCEPT ![l] = x] /\ next' = [next EXCEPT ![x] = list[l]]

list_push(l, x) == Alone(l) /\ Free(x) /\ Push(l, x) /\ Returns("push", l, x, NULL)

\* The last item but one ends the list.
list_chop(l) ==
  /\ Alone(l)
  /\ Returns("chop", l, NULL, TailOf(l))
  /\ IF list[l] = NULL \/ next[list[l]] = NULL
     THEN list' = [list EXCEPT ![l] = NULL] /\ UNCHANGED next
     ELSE LET before == CHOOSE y \in On(l) : next[y] = TailOf(l)
          IN next' = [next EXCEPT ![before] = NULL] /\ UNCHANGED list

list_pop(l) ==
  /\ Alone(l)
  /\ Returns("pop", l, NULL, list[l])
  /\ list' = IF list[l] = NULL THEN list ELSE [list EXCEPT ![l] = next[list[l]]]
  /\ UNCHANGED next

\* An item that is not in the list is left as it is, its pointer included.
list_remove(l, x) ==
  /\ Alone(l)
  /\ Returns("remove", l, x, NULL)
  /\ IF x \notin On(l) THEN UNCHANGED <<list, next>>
     ELSE IF list[l] = x
     THEN list' = [list EXCEPT ![l] = next[x]] /\ next' = [next EXCEPT ![x] = NULL]
     ELSE LET before == CHOOSE y \in On(l) : next[y] = x
          IN next' = [next EXCEPT ![before] = next[x], ![x] = NULL] /\ UNCHANGED list

list_insert(l, previtem, x) ==
  /\ Alone(l) /\ Free(x) /\ previtem \in On(l) \cup {NULL}
  /\ IF previtem = NULL THEN Push(l, x)
     ELSE next' = [next EXCEPT ![x] = next[previtem], ![previtem] = x] /\ UNCHANGED list
  /\ Returns("insert", l, x, NULL)

LinkedListNext ==
  \E l \in List :
    \/ list_init(l) \/ list_head(l) \/ list_tail(l) \/ list_length(l)
    \/ list_chop(l) \/ list_pop(l)
    \/ \E m \in List \ {l} : list_copy(l, m)
    \/ \E x \in Item : \/ list_add(l, x) \/ list_push(l, x) \/ list_remove(l, x)
                       \/ \E p \in Item \cup {NULL} : list_insert(l, p, x)

-----------------------------------------------------------------------------
(***************************************************************************)
(* Properties.                                                             *)
(***************************************************************************)

Lists == INSTANCE ListService WITH order <- [l \in List |-> Walk(list[l])]

\* Whatever was done to the items before, and whatever pointers those outside
\* the lists have kept, the pointers of list.c spell out the sequences its users
\* count on, and every call returns what it says of them.
ImplementsLists == Lists!ListSpec
=============================================================================
