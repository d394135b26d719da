-------------------------------- MODULE InitPlan --------------------------------
(***************************************************************************)
(* Which cell of an aggregate each value of a braced initialiser goes to.    *)
(* _plan walks the type and the list together and calls itself for every     *)
(* sub-object, whether the sub-object has braces of its own or its values    *)
(* stand directly in the list of the enclosing braces (brace elision).  The  *)
(* machine keeps the calls of _plan on a stack and takes one step per        *)
(* iteration of its loop.                                                   *)
(***************************************************************************)
EXTENDS Integers, Sequences, FiniteSets

CONSTANTS
    Types,     \* the types of objects and of their parts
    Objects,   \* the aggregate types of the objects initialised
    Lists      \* their initialisers, lists in braces

\* (Definitions marked "defect" are variants the properties are checked
\* against.)

\* Types as _plan sees them: the parts of an array are named by their index,
\* those of a struct or union by a field name.
Scalar == [kind |-> "scalar", cells |-> 1, parts |-> <<>>]

ArrayOf(ct, n) ==
    [kind |-> "array", cells |-> n * ct.cells,
     parts |-> [i \in 1 .. n |->
                  [name |-> <<"index", i - 1>>, off |-> (i - 1) * ct.cells, type |-> ct]]]

StructOf(names, types) ==
    LET n == Len(names)
        end[i \in 0 .. n] == IF i = 0 THEN 0 ELSE end[i - 1] + types[i].cells
    IN [kind |-> "struct", cells |-> end[n],
        parts |-> [i \in 1 .. n |->
                     [name |-> <<"field", names[i]>>, off |-> end[i - 1], type |-> types[i]]]]

UnionOf(names, types) ==
    LET n == Len(names)
        cells == {types[i].cells : i \in 1 .. n}
    IN [kind |-> "union", cells |-> CHOOSE m \in cells : \A c \in cells : c <= m,
        parts |-> [i \in 1 .. n |->
                     [name |-> <<"field", names[i]>>, off |-> 0, type |-> types[i]]]]

IsAggregate(ct) == ct.kind # "scalar"

\* What the type model guarantees (LayoutsSound of CTypes): parts lie inside,
\* and those of arrays and structs follow each other.
WellFormed(ct) ==
    /\ ct.kind \in {"scalar", "array", "struct", "union"}
    /\ ct.kind = "scalar" => ct.cells = 1
    /\ ct.cells \in Nat /\ Len(ct.parts) \in Nat
    /\ \A i \in 1 .. Len(ct.parts) :
         LET part == ct.parts[i] IN
         /\ part.type \in Types /\ part.off \in Nat
         /\ part.off + part.type.cells <= ct.cells
         /\ \A j \in 1 .. Len(ct.parts) :
              ct.kind # "union" /\ i < j => part.off + part.type.cells <= ct.parts[j].off

ASSUME TypesAssumption ==
    /\ \A ct \in Types : WellFormed(ct)
    /\ Objects \subseteq {ct \in Types : IsAggregate(ct)}

\* A list as the tree of its items: a function from places to items.  The
\* outer braces are at <<>> and item i of the braces at p is at Append(p, i).  An
\* item has a designator or NoDesig, and is an expression or a list of len items
\* in braces; lists nest to any depth.
NoDesig == <<"none">>

ListsAssumption ==
    \A tree \in Lists :
        /\ IsFiniteSet(DOMAIN tree)
        /\ <<>> \in DOMAIN tree /\ tree[<<>>].braces /\ tree[<<>>].desig = NoDesig
        /\ \A p \in DOMAIN tree :
             /\ p \in Seq(Nat \ {0})
             /\ tree[p].braces \in BOOLEAN /\ tree[p].len \in Nat
             /\ ~tree[p].braces => tree[p].len = 0
             /\ \A i \in 1 .. tree[p].len : Append(p, i) \in DOMAIN tree
             /\ \A i \in 1 .. Len(p) :
                  LET q == SubSeq(p, 1, i - 1)
                  IN  q \in DOMAIN tree /\ p[i] \in 1 .. tree[q].len
ASSUME ListsAssumption

VARIABLES
    type,     \* the type of the object
    init,     \* its initialiser
    calls,    \* the activations of _plan, innermost last: the object ct at cell
              \* base, the list at place at, position k in it, part idx, whether
              \* the braces of the list are ct's own, and whether the loop is over
    out,      \* planned stores: [cell, place, home, elided], place that of the
              \* expression in init, home the cells C allows it, and whether its
              \* designator was looked up in an object without braces of its own
    status    \* "plan", "done" or "error"

vars == <<type, init, calls, out, status>>

Frame(ct, base, at, k, braced) ==
    [ct |-> ct, base |-> base, at |-> at, k |-> k, idx |-> 1,
     braced |-> braced, over |-> FALSE]

Depth == Len(calls)
F == calls[Depth]
More == F.k <= init[F.at].len
Place == Append(F.at, F.k)
Item == init[Place]
Designated == Item.desig # NoDesig

\* _sub_find: the part of ct a designator names, 0 if it names none.
Find(ct, desig) ==
    IF \E i \in 1 .. Len(ct.parts) : ct.parts[i].name = desig
    THEN CHOOSE i \in 1 .. Len(ct.parts) : ct.parts[i].name = desig
    ELSE 0

\* The part the item goes to, and its first cell.
Pos == IF Designated THEN Find(F.ct, Item.desig) ELSE F.idx
Part == F.ct.parts[Pos]
AtBase == F.base   \* defect: the offset of the part is missing
At == F.base + Part.off

Span(first, ct) == first .. first + ct.cells - 1

\* Where C puts the item: the braces around it belong to one object, and a
\* designator names a part of that object.
Owner == calls[CHOOSE i \in 1 .. Depth :
                  calls[i].braced /\ \A j \in i + 1 .. Depth : ~calls[j].braced]
Home ==
    IF ~Designated THEN Span(Owner.base, Owner.ct)
    ELSE LET i == Find(Owner.ct, Item.desig) IN
         IF i = 0 THEN {}
         ELSE Span(Owner.base + Owner.ct.parts[i].off, Owner.ct.parts[i].type)

Error == status' = "error" /\ UNCHANGED <<type, init, calls, out>>

\* The loop goes on at position k with the part after Pos.
Advance(f, pos, k) ==
    [f EXCEPT !.k = k, !.idx = pos + 1, !.over = f.ct.kind = "union"]

\* A caller goes on after the braces, or where the call without braces stopped.
ResumeAtBraces(caller, callee) ==   \* defect: k += 1 is missing
    Advance(caller, caller.idx, IF callee.braced THEN caller.k ELSE callee.k)
Resume(caller, callee) ==
    Advance(caller, caller.idx, IF callee.braced THEN caller.k + 1 ELSE callee.k)

IgnoreExcess(f) == FALSE   \* defect: the rest of a list is dropped
Excess(f) == f.braced /\ f.k <= init[f.at].len

\* The loop ends: the list is used up, the parts are, a union has its member,
\* or a designator is for an object further out.
LoopOver ==
    \/ F.over
    \/ ~More
    \/ More /\ ~Designated /\ F.idx > Len(F.ct.parts)
    \/ More /\ Designated /\ ~F.braced /\ Pos = 0

Return ==
    /\ status = "plan"
    /\ LoopOver
    /\ IF Excess(F)
       THEN Error
       ELSE /\ calls' = IF Depth = 1 THEN <<>>
                        ELSE Append(SubSeq(calls, 1, Depth - 2), Resume(calls[Depth - 1], F))
            /\ status' = IF Depth = 1 THEN "done" ELSE status
            /\ UNCHANGED <<type, init, out>>

Looping == status = "plan" /\ ~LoopOver

\* designator does not name a member of this object
BadDesignator == Looping /\ Pos = 0 /\ Error

Descend(at, k, braced) ==
    /\ calls' = Append([calls EXCEPT ![Depth].idx = Pos],
                       Frame(Part.type, At, at, k, braced))
    /\ UNCHANGED <<type, init, out, status>>

\* A sub-object with braces of its own.
Braced ==
    /\ Looping /\ Pos # 0
    /\ IsAggregate(Part.type) /\ Item.braces
    /\ Descend(Place, 1, TRUE)

\* A sub-object whose values stand in this list; a designated one needs braces.
Elided ==
    /\ Looping /\ Pos # 0
    /\ IsAggregate(Part.type) /\ ~Item.braces
    /\ IF Designated THEN Error ELSE Descend(F.at, F.k, FALSE)

Put(place) ==
    /\ out' = Append(out, [cell |-> At, place |-> place, home |-> Home,
                           elided |-> Designated /\ ~F.braced])
    /\ calls' = [calls EXCEPT ![Depth] = Advance(F, Pos, F.k + 1)]
    /\ UNCHANGED <<type, init, status>>

\* A scalar takes an expression, alone in braces or not.
Only == Append(Place, 1)
Single == Item.len = 1 /\ init[Only].desig = NoDesig /\ ~init[Only].braces

Leaf ==
    /\ Looping /\ Pos # 0
    /\ ~IsAggregate(Part.type)
    /\ IF ~Item.braces THEN Put(Place)
       ELSE IF Single THEN Put(Only)
       ELSE Error

Init ==
    /\ type \in Objects
    /\ init \in Lists
    /\ calls = <<Frame(type, 0, <<>>, 1, TRUE)>>
    /\ out = <<>>
    /\ status = "plan"

Next == Return \/ BadDesignator \/ Braced \/ Elided \/ Leaf

Spec == Init /\ [][Next]_vars /\ WF_vars(Next)

--------------------------------------------------------------------------------

\* The places of the expressions of the initialiser.
Places == {p \in DOMAIN init : ~init[p].braces}

Undesignated == \A p \in DOMAIN init : init[p].desig = NoDesig

\* An initialiser that is accepted is used up: every expression is stored once
\* and no other is, however braces are elided or left out (the position each
\* call of _plan returns).
EveryValuePlaced ==
    status = "done" =>
        /\ {out[i].place : i \in DOMAIN out} = Places
        /\ Len(out) = Cardinality(Places)

\* Every value stays in the object.  One whose designator, if it has one, names
\* a part of the object the braces belong to goes into that part, one without
\* designator into the object its braces belong to; and without designators no
\* cell is written twice or out of order.
PlanStaysInside ==
    /\ \A i \in DOMAIN out :
          /\ out[i].cell \in Span(0, type)
          /\ ~out[i].elided => out[i].cell \in out[i].home
    /\ Undesignated => \A i, j \in DOMAIN out : i < j => out[i].cell < out[j].cell

\* "Assign each initialiser value to a cell offset, following C's brace elision"
\* (_plan): a designator always names a part of the object whose braces the
\* item stands in, also behind items that were taken for a part without braces.
DesignatorsFollowC == \A i \in DOMAIN out : out[i].cell \in out[i].home

\* Planning ends for every list, although a designator moves the part index
\* backwards.
PlanEnds == <>(status # "plan")
================================================================================
