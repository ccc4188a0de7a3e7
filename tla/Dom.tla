--------------------------------- MODULE Dom ---------------------------------
(***************************************************************************)
(* The document tree (crates/px-dom/src/arena.rs): a generational arena of *)
(* nodes joined by parent, child and sibling links, with the live ranges   *)
(* every mutation has to keep correct (range.rs, lib.rs, iter.rs).         *)
(*                                                                         *)
(* The arena is one record; an operation of the code is an operator from   *)
(* an arena to an arena, and the actions apply them to every handle that   *)
(* was ever given out, stale ones included.  Character data is only its    *)
(* length.  Text stands for every kind of node that holds no children.     *)
(***************************************************************************)
EXTENDS Integers, Sequences, FiniteSets, Option

LOCAL INSTANCE SequencesExt
LOCAL INSTANCE FiniteSetsExt

CONSTANTS
    MAX_DEPTH,
    MAX_GENERATION,  \* u32::MAX, the last generation of a slot
    MaxNodes,        \* bound: nodes ever created (the arena holds 2^32 - 1 slots)
    MaxText,         \* bound: bytes of character data in all nodes
    MaxHandles,      \* bound: nodes and ranges ever created
    Kind,            \* the kinds of node created
    SelfInsert,      \* whether a caller asks for a node before itself
    MoveContents     \* whether a caller gives a template's contents a parent

ASSUME DomAssumption ==
    /\ MAX_DEPTH \in Nat /\ MAX_GENERATION \in Nat \ {0}
    /\ MaxNodes \in Nat \ {0} /\ MaxText \in Nat /\ MaxHandles \in Nat
    /\ Kind \subseteq {"Fragment", "Element", "Template", "Text"}
    /\ SelfInsert \in BOOLEAN /\ MoveContents \in BOOLEAN

VARIABLE arena

document == <<1, 1>>

(* Every handle the arena has given out.                                   *)
NodeIds(a) == {<<i, g>> : i \in 1 .. Len(a.slots), g \in 1 .. MAX_GENERATION}

Handles(a) ==
    {h \in NodeIds(a) :
        \/ h[2] < a.slots[h[1]].generation
        \/ h[2] = a.slots[h[1]].generation /\ ~Contains(a.free, h[1])}

Node(kind, length, contents) ==
    [kind |-> kind, length |-> length, contents |-> contents, parent |-> None,
     first_child |-> None, last_child |-> None, prev_sibling |-> None, next_sibling |-> None]

------------------------------------------------------------------------------
(* Resolution and reading. *)

contains(a, id) ==
    /\ id # None /\ id[1] \in 1 .. Len(a.slots)
    /\ a.slots[id[1]].generation = id[2]
    /\ a.slots[id[1]].node # None

get(a, id) == a.slots[id[1]].node

Upto(n) == [k \in 1 .. n |-> k]

(* The walk of a link from a node, cut after as many nodes as there are    *)
(* slots: Children and Ancestors.                                          *)
Walk(a, start, link) ==
    LET from[id \in (Nat \X Nat) \cup {None}, k \in Nat] ==
            IF id = None \/ k = 0 THEN <<>>
            ELSE <<id>> \o (IF contains(a, id) THEN from[get(a, id)[link], k - 1] ELSE <<>>)
    IN  from[start, Len(a.slots)]

child_ids(a, id) == Walk(a, get(a, id).first_child, "next_sibling")

ancestors(a, id) == Walk(a, get(a, id).parent, "parent")

Live(a) == {h \in NodeIds(a) : contains(a, h)}

is_inclusive_ancestor(a, up, id) ==
    IF up = id THEN contains(a, up)
    ELSE contains(a, id) /\ Contains(ancestors(a, id), up)

Subtree(a, id) == {n \in Live(a) : is_inclusive_ancestor(a, id, n)}

depth(a, id) == Len(ancestors(a, id))

subtree_height(a, id) ==
    IF get(a, id).first_child = None THEN 0
    ELSE Max({depth(a, n) : n \in Subtree(a, id)}) - depth(a, id)

(* The zero-based place of a child among its parent's children.            *)
index_of(a, id) ==
    LET kids == child_ids(a, get(a, id).parent)
    IN  (CHOOSE k \in 1 .. Len(kids) : kids[k] = id) - 1

node_length(a, id) ==
    IF get(a, id).kind = "Text" THEN get(a, id).length ELSE Len(child_ids(a, id))

root_of(a, id) == IF ancestors(a, id) = <<>> THEN id ELSE Last(ancestors(a, id))

(* Where a node hangs: the indices on the way down to it from its root.    *)
Path(a, id) ==
    LET line == Reverse(<<id>> \o ancestors(a, id))
    IN  [k \in 1 .. Len(line) - 1 |-> index_of(a, line[k + 1])]

(* Document order is the order of the walk that takes a node before its    *)
(* children, and children in their order.                                  *)
precedes(a, x, y) ==
    /\ contains(a, x) /\ contains(a, y) /\ x # y
    /\ root_of(a, x) = root_of(a, y)
    /\ LET p == Path(a, x)
           q == Path(a, y)
       IN  \/ IsPrefix(p, q)
           \/ \E k \in 1 .. Len(p) :
                 k <= Len(q) /\ p[k] < q[k] /\ SubSeq(p, 1, k - 1) = SubSeq(q, 1, k - 1)

------------------------------------------------------------------------------
(* Boundary points: a node and an offset. *)

is_valid_boundary(a, point) == contains(a, point[1]) /\ point[2] <= node_length(a, point[1])

Mirrored(position) ==
    CASE position = "Before" -> "After" [] position = "After" -> "Before" [] OTHER -> position

(* Step 3 of the comparison: q hangs from a child of p's node that lies    *)
(* before p.                                                               *)
HangsBefore(a, q, p) ==
    /\ is_inclusive_ancestor(a, p[1], q[1])
    /\ LET line == <<q[1]>> \o ancestors(a, q[1])
           k == CHOOSE i \in 1 .. Len(line) : line[i] = p[1]
       IN  index_of(a, line[k - 1]) < p[2]

compare_boundary_points(a, p, q) ==
    IF ~contains(a, p[1]) \/ ~contains(a, q[1]) THEN "None"
    ELSE IF p[1] = q[1]
    THEN IF p[2] < q[2] THEN "Before" ELSE IF p[2] = q[2] THEN "Equal" ELSE "After"
    ELSE IF precedes(a, q[1], p[1])
    THEN Mirrored(IF HangsBefore(a, p, q) THEN "After" ELSE "Before")
    ELSE IF HangsBefore(a, q, p) THEN "After"
    ELSE IF precedes(a, p[1], q[1]) THEN "Before" ELSE "None"

------------------------------------------------------------------------------
(* Live ranges. *)

(* Apply an operator to both ends of every live range.                     *)
MapRanges(a, Move(_)) ==
    [a EXCEPT !.ranges =
        [k \in DOMAIN @ |->
            IF @[k].range = None THEN @[k]
            ELSE [@[k] EXCEPT !.range = [start |-> Move(@.start), end |-> Move(@.end)]]]]

ranges_after_insert_Late(a, parent, index) ==  \* Mutant: a point just after the place stays.
    MapRanges(a, LAMBDA p : IF p[1] = parent /\ p[2] > index + 1 THEN <<parent, p[2] + 1>> ELSE p)

ranges_after_insert(a, parent, index) ==
    MapRanges(a, LAMBDA p : IF p[1] = parent /\ p[2] > index THEN <<parent, p[2] + 1>> ELSE p)

ranges_before_remove(a, id) ==
    LET parent == get(a, id).parent
        index == index_of(a, id)
    IN  MapRanges(a, LAMBDA p :
            IF is_inclusive_ancestor(a, id, p[1]) THEN <<parent, index>>
            ELSE IF p[1] = parent /\ p[2] > index THEN <<parent, p[2] - 1>>
            ELSE p)

(* drop_range of a slot that holds one; the last generation retires it.    *)
Drop(a, k) ==
    LET last == a.ranges[k].generation = MAX_GENERATION
    IN  [a EXCEPT !.ranges[k] = [generation |-> IF last THEN @.generation ELSE @.generation + 1,
                                 range |-> None],
                  !.free_ranges = IF last THEN @ ELSE Append(@, k)]

------------------------------------------------------------------------------
(* Allocation and structure. *)

(* The bounds.  Only a document of 2^32 - 1 slots meets one in the code.   *)
RangeHandles(a) ==
    {h \in (1 .. Len(a.ranges)) \X (1 .. MAX_GENERATION) :
        \/ h[2] < a.ranges[h[1]].generation
        \/ h[2] = a.ranges[h[1]].generation /\ ~Contains(a.free_ranges, h[1])}

HandleRoom(a, n) == Cardinality(Handles(a)) + Cardinality(RangeHandles(a)) + n <= MaxHandles

HasRoom(a, n) == Cardinality(Handles(a)) + n <= MaxNodes /\ HandleRoom(a, n)

TextRoom(a) == MapThenSumSet(LAMBDA id : get(a, id).length, Live(a)) < MaxText

(* create: the handle it returns, and the arena with the node.             *)
Created(a) ==
    IF a.free # <<>> THEN <<Last(a.free), a.slots[Last(a.free)].generation>>
    ELSE <<Len(a.slots) + 1, 1>>

create(a, node) ==
    IF a.free # <<>>
    THEN [a EXCEPT !.slots[Last(a.free)].node = node, !.free = Front(@), !.live = @ + 1]
    ELSE [a EXCEPT !.slots = Append(@, [generation |-> 1, node |-> node]), !.live = @ + 1]

(* Set one link of a node.                                                 *)
SetNext(a, id, to) == [a EXCEPT !.slots[id[1]].node.next_sibling = to]
SetPrev(a, id, to) == [a EXCEPT !.slots[id[1]].node.prev_sibling = to]
SetFirst(a, id, to) == [a EXCEPT !.slots[id[1]].node.first_child = to]
SetLast(a, id, to) == [a EXCEPT !.slots[id[1]].node.last_child = to]

SetLinks(a, id, parent, prev, next) ==
    [a EXCEPT !.slots[id[1]].node.parent = parent,
              !.slots[id[1]].node.prev_sibling = prev,
              !.slots[id[1]].node.next_sibling = next]

LinkForth_NoFirst(a, parent, prev, to) ==  \* Mutant: the first_child fixup is left out.
    IF prev # None THEN SetNext(a, prev, to) ELSE a

(* The link to a node from what comes before it, and from what comes after *)
(* it: a sibling, or the end of the parent's child list.                   *)
LinkForth(a, parent, prev, to) == IF prev # None THEN SetNext(a, prev, to) ELSE SetFirst(a, parent, to)
LinkBack(a, parent, next, to) == IF next # None THEN SetPrev(a, next, to) ELSE SetLast(a, parent, to)

detach(a, id) ==
    LET node == get(a, id)
    IN  IF node.parent = None THEN a
        ELSE SetLinks(
                 LinkBack(LinkForth(ranges_before_remove(a, id),
                                    node.parent, node.prev_sibling, node.next_sibling),
                          node.parent, node.next_sibling, node.prev_sibling),
                 id, None, None, None)

check_insertable(a, parent, child) ==
    /\ contains(a, parent) /\ contains(a, child)
    /\ child # document
    /\ get(a, parent).kind # "Text"
    /\ ~is_inclusive_ancestor(a, child, parent)
    /\ depth(a, parent) + 1 + subtree_height(a, child) <= MAX_DEPTH

(* What the two insertions do once the node is detached.                   *)
LinkLast(a, parent, child) ==
    LET last == get(a, parent).last_child
    IN  SetLast(LinkForth(SetLinks(a, child, parent, last, None), parent, last, child), parent, child)

append_child(a, parent, child) == LinkLast(detach(a, child), parent, child)

LinkBefore(a, parent, sibling, new) ==
    LET prev == get(a, sibling).prev_sibling
    IN  LinkForth(SetPrev(SetLinks(a, new, parent, prev, sibling), sibling, new), parent, prev, new)

RangesAfterInsert(a, parent, new) == ranges_after_insert(a, parent, index_of(a, new))

insert_before(a, sibling, new) ==
    LET parent == get(a, sibling).parent
    IN  RangesAfterInsert(LinkBefore(detach(a, new), parent, sibling, new), parent, new)

(* Each child of a snapshot in turn, until one is refused.                 *)
reparent_children(a, from, to) ==
    LET move(done, child) ==
            IF done.ok /\ check_insertable(done.arena, to, child)
            THEN [arena |-> append_child(done.arena, to, child), ok |-> TRUE]
            ELSE [done EXCEPT !.ok = FALSE]
    IN  FoldLeft(move, [arena |-> a, ok |-> TRUE], child_ids(a, from)).arena

free_slot_Wraps(a, i) ==  \* Mutant: generations wrap instead of retiring the slot.
    [a EXCEPT !.slots[i] = [generation |-> (@.generation % MAX_GENERATION) + 1, node |-> None],
              !.live = @ - 1, !.free = Append(@, i)]

free_slot(a, i) ==
    IF a.slots[i].generation = MAX_GENERATION
    THEN [a EXCEPT !.slots[i].node = None, !.live = @ - 1, !.retired = @ + 1]
    ELSE [a EXCEPT !.slots[i] = [generation |-> @.generation + 1, node |-> None],
                   !.live = @ - 1, !.free = Append(@, i)]

(* The walk with its explicit stack: children, then a template's contents, *)
(* go on top of it; a handle that no longer resolves is passed over.       *)
FreeTree(a, id) ==
    LET pop(walk, k) ==
            LET b == walk.arena
                top == Last(walk.stack)
                contents == get(b, top).contents
            IN  IF walk.stack = <<>> THEN walk
                ELSE IF ~contains(b, top) THEN [walk EXCEPT !.stack = Front(@)]
                ELSE [arena |-> free_slot(b, top[1]),
                      stack |-> Front(walk.stack) \o child_ids(b, top)
                                  \o (IF contents = None THEN <<>> ELSE <<contents>>)]
    IN  FoldLeft(pop, [arena |-> a, stack |-> <<id>>], Upto(2 * MaxNodes)).arena

(* Ranges left pointing into what was freed.                               *)
Dangling(a, k) ==
    /\ a.ranges[k].range # None
    /\ ~contains(a, a.ranges[k].range.start[1]) \/ ~contains(a, a.ranges[k].range.end[1])

DropDangling(a) ==
    FoldLeft(LAMBDA b, k : IF Dangling(b, k) THEN Drop(b, k) ELSE b,
             a, Upto(Len(a.ranges)))

remove_subtree(a, id) == DropDangling(FreeTree(detach(a, id), id))

(* Node by node in document order.  The data is copied as it stands, the   *)
(* handle of a template's contents included.                               *)
Copy(node) == Node(node.kind, node.length, node.contents)

clone_subtree(a, id) ==
    LET pending(b, source, copy) ==
            LET kids == Reverse(child_ids(b, source))
            IN  [c \in DOMAIN kids |-> <<kids[c], copy>>]
        pop(walk, k) ==
            LET b == walk.arena
                source == Last(walk.stack)[1]
                copy == Created(b)
            IN  [arena |-> append_child(create(b, Copy(get(b, source))), Last(walk.stack)[2], copy),
                 stack |-> Front(walk.stack) \o pending(b, source, copy)]
    IN  FoldLeft(pop,
                 [arena |-> create(a, Copy(get(a, id))), stack |-> pending(a, id, Created(a))],
                 Upto(Cardinality(Subtree(a, id)) - 1)).arena

------------------------------------------------------------------------------
(* The operations of the public API.  A call that is refused, or finds     *)
(* nothing to do, changes nothing and is no step.                          *)

(* The fragments that are some template's contents.                        *)
Contents(a) == {get(a, id).contents : id \in Live(a)} \ {None}

(* What callers ask to have moved.  The code refuses neither a template's  *)
(* contents nor a node that is to go before itself: these two are the      *)
(* callers' to avoid, and the constants say whether they do.               *)
Movable(id) == MoveContents \/ id \notin Contents(arena)

(* create_element makes a template's fragment first.                       *)
CreateNode(kind) ==
    IF kind = "Template"
    THEN /\ HasRoom(arena, 2)
         /\ LET a0 == create(arena, Node("Fragment", 0, None))
            IN  arena' = create(a0, Node("Element", 0, Created(arena)))
    ELSE /\ HasRoom(arena, 1)
         /\ arena' = create(arena, Node(kind, 0, None))

AppendChild(parent, child) ==
    /\ Movable(child)
    /\ check_insertable(arena, parent, child)
    /\ arena' = append_child(arena, parent, child)

InsertBefore(sibling, new) ==
    /\ Movable(new)
    /\ SelfInsert \/ sibling # new
    /\ contains(arena, sibling)
    /\ get(arena, sibling).parent # None
    /\ check_insertable(arena, get(arena, sibling).parent, new)
    /\ arena' = insert_before(arena, sibling, new)

Detach(id) ==
    /\ contains(arena, id) /\ get(arena, id).parent # None
    /\ arena' = detach(arena, id)

ReparentChildren(from, to) ==
    /\ contains(arena, from) /\ get(arena, from).first_child # None
    /\ arena' = reparent_children(arena, from, to)

RemoveSubtree(id) ==
    /\ contains(arena, id) /\ id # document
    /\ arena' = remove_subtree(arena, id)

CloneSubtree(id) ==
    /\ contains(arena, id)
    /\ HasRoom(arena, Cardinality(Subtree(arena, id)))
    /\ arena' = clone_subtree(arena, id)

(* A character of text goes into the text node at that place, or is put    *)
(* there in a node of its own; a node the tree refuses stays detached.     *)
IsText(a, id) == contains(a, id) /\ get(a, id).kind = "Text"

Merge(id) ==
    /\ IsText(arena, id)
    /\ arena' = [arena EXCEPT !.slots[id[1]].node.length = @ + 1]

Character == Node("Text", 1, None)

AppendText(parent) ==
    LET last == IF contains(arena, parent) THEN get(arena, parent).last_child ELSE None
        text == Created(arena)
        a0 == create(arena, Character)
    IN  /\ TextRoom(arena)
        /\ \/ Merge(last)
           \/ /\ ~IsText(arena, last)
              /\ HasRoom(arena, 1)
              /\ arena' = IF check_insertable(a0, parent, text)
                          THEN append_child(a0, parent, text) ELSE a0

(* append_before_sibling with text. *)
InsertText(sibling) ==
    LET at(link) == IF contains(arena, sibling) THEN get(arena, sibling)[link] ELSE None
        text == Created(arena)
        a0 == create(arena, Character)
    IN  /\ TextRoom(arena)
        /\ \/ Merge(at("prev_sibling"))
           \/ /\ ~IsText(arena, at("prev_sibling"))
              /\ HasRoom(arena, 1)
              /\ arena' = IF at("parent") # None /\ check_insertable(a0, at("parent"), text)
                          THEN insert_before(a0, sibling, text) ELSE a0

Boundary == UNION {{<<id, offset>> : offset \in 0 .. node_length(arena, id) + 1} : id \in Live(arena)}

NewRange_AnyOrder(start, end) ==  \* Mutant: only an order known to be wrong is refused.
    /\ HandleRoom(arena, 1) /\ arena.free_ranges = <<>>
    /\ is_valid_boundary(arena, start) /\ is_valid_boundary(arena, end)
    /\ compare_boundary_points(arena, start, end) # "After"
    /\ arena' = [arena EXCEPT !.ranges = Append(@, [generation |-> 1,
                                                    range |-> [start |-> start, end |-> end]])]

NewRange(start, end) ==
    /\ HandleRoom(arena, 1)
    /\ is_valid_boundary(arena, start) /\ is_valid_boundary(arena, end)
    /\ compare_boundary_points(arena, start, end) \in {"Before", "Equal"}
    /\ LET range == [start |-> start, end |-> end]
       IN  \/ /\ arena.free_ranges # <<>>
              /\ arena' = [arena EXCEPT !.ranges[Last(arena.free_ranges)].range = range,
                                        !.free_ranges = Front(@)]
           \/ /\ arena.free_ranges = <<>>
              /\ arena' = [arena EXCEPT !.ranges = Append(@, [generation |-> 1, range |-> range])]

DropRange(k) ==
    /\ arena.ranges[k].range # None
    /\ arena' = Drop(arena, k)

DomInit ==
    arena = [slots |-> <<[generation |-> 1, node |-> Node("Document", 0, None)]>>,
             free |-> <<>>, live |-> 1, retired |-> 0, ranges |-> <<>>, free_ranges |-> <<>>]

DomNext ==
    \/ \E kind \in Kind : CreateNode(kind)
    \/ \E x, y \in Handles(arena) : AppendChild(x, y)
    \/ \E x, y \in Handles(arena) : InsertBefore(x, y)
    \/ \E x \in Handles(arena) : Detach(x)
    \/ \E x, y \in Handles(arena) : ReparentChildren(x, y)
    \/ \E x \in Handles(arena) : RemoveSubtree(x)
    \/ \E x \in Handles(arena) : CloneSubtree(x)
    \/ \E x \in Handles(arena) : AppendText(x)
    \/ \E x \in Handles(arena) : InsertText(x)
    \/ \E start, end \in Boundary : NewRange(start, end)
    \/ \E k \in 1 .. Len(arena.ranges) : DropRange(k)

DomSpec == DomInit /\ [][DomNext]_arena

------------------------------------------------------------------------------
(* What the arena promises. *)

(* Two links that must mirror each other, at both ends of a child list.    *)
WellLinked(a, id) ==
    LET kids == child_ids(a, id)
    IN  /\ get(a, id).last_child = IF kids = <<>> THEN None ELSE Last(kids)
        /\ \A k \in 1 .. Len(kids) :
              /\ contains(a, kids[k])
              /\ get(a, kids[k]).parent = id
              /\ get(a, kids[k]).prev_sibling = IF k = 1 THEN None ELSE kids[k - 1]
              /\ get(a, kids[k]).next_sibling = IF k = Len(kids) THEN None ELSE kids[k + 1]

(* The links form a forest that validate accepts: the document is a root,  *)
(* each child list is linked the same way from both ends, each live node   *)
(* hangs from exactly one root within MAX_DEPTH, and the counts of live,   *)
(* free and retired slots add up.  It holds after any sequence of          *)
(* operations of callers that never put a node before itself and never     *)
(* give a template's contents a parent; arena.rs says "the public API      *)
(* cannot build a corrupt tree", and either of the two calls builds one.   *)
TreeIsATree ==
    /\ contains(arena, document) /\ get(arena, document).parent = None
    /\ \A id \in Live(arena) :
          /\ WellLinked(arena, id)
          /\ depth(arena, id) <= MAX_DEPTH
          /\ get(arena, root_of(arena, id)).parent = None
          /\ LET up == get(arena, id).parent
             IN  up # None => contains(arena, up) /\ Contains(child_ids(arena, up), id)
    /\ arena.live = Cardinality(Live(arena))
    /\ arena.live + Len(arena.free) + arena.retired = Len(arena.slots)

(* A live range always has both ends inside the tree, in one tree and in   *)
(* order: what is inserted, moved, removed or freed around it never leaves *)
(* it pointing past a child list, at a freed slot or backwards.            *)
RangesAreSound ==
    \A k \in 1 .. Len(arena.ranges) :
        arena.ranges[k].range # None =>
            LET range == arena.ranges[k].range
            IN  /\ is_valid_boundary(arena, range.start) /\ is_valid_boundary(arena, range.end)
                /\ compare_boundary_points(arena, range.start, range.end) \in {"Before", "Equal"}

(* The slot has gone past the handle, or is retired: it cannot resolve.    *)
Gone(a, id) ==
    LET slot == a.slots[id[1]]
    IN  slot.generation > id[2] \/ (slot.node = None /\ ~Contains(a.free, id[1]))

(* A handle that stops resolving never resolves again, however often its   *)
(* slot is reused or its generations run out (free_slot).                  *)
StaleHandlesStayStale ==
    [][\A id \in NodeIds(arena) :
          /\ contains(arena, id) => contains(arena', id) \/ Gone(arena', id)
          /\ Gone(arena, id) => Gone(arena', id)]_arena

(* A node lies wholly inside a range. *)
Covers(a, range, id) ==
    LET up == get(a, id).parent
    IN  /\ up # None
        /\ compare_boundary_points(a, range.start, <<up, index_of(a, id)>>) \in {"Before", "Equal"}
        /\ compare_boundary_points(a, <<up, index_of(a, id) + 1>>, range.end) \in {"Before", "Equal"}

(* The nodes a step took with it: those that lie, before it, under one     *)
(* whose parent it changed or freed, or under the one it moved among its   *)
(* siblings.                                                               *)
Carried(moved) ==
    UNION {Subtree(arena, id) :
              id \in {x \in Live(arena) : \/ x = moved
                                          \/ ~contains(arena', x)
                                          \/ get(arena', x).parent # get(arena, x).parent}}

(* The step moved `id`: what it does to a range depends on where it goes,   *)
(* and moving the children of a node to that same node moves them all.     *)
MovesNode(id) == \E to \in Live(arena) : AppendChild(to, id) \/ InsertBefore(to, id)

(* A range goes on covering the content it covers: whatever an operation   *)
(* inserts, moves or frees, every node that stays where it was is inside   *)
(* the surviving range afterwards exactly when it was inside before.       *)
RangesKeepTheirContent ==
    [][\A k \in 1 .. Len(arena.ranges) :
          LET before == arena.ranges[k]
              after == arena'.ranges[k]
              lost == {id \in Live(arena) :
                          ~contains(arena', id) \/ Covers(arena, before.range, id) # Covers(arena', after.range, id)}
          IN  before.range # None /\ after.range # None =>
                \/ lost = {}
                \/ lost \subseteq Carried(None)
                \/ \E moved \in Live(arena) : lost \subseteq Carried(moved) /\ MovesNode(moved)
                \/ \E id \in Live(arena) : ReparentChildren(id, id)]_arena
=============================================================================
