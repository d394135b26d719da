----------------------------- MODULE InitPlanProofs -----------------------------
(***************************************************************************)
(* Values of an initialiser stay inside the object, and inside the part their *)
(* braces and designators give them, a designator behind elided braces         *)
(* excepted; without designators they go to the cells in order; an accepted    *)
(* list is used up; every step leaves less to do.  For                        *)
(* all well-formed types and all lists, of any length and nesting.           *)
(***************************************************************************)
EXTENDS InitPlan, FiniteSetTheorems, SequenceTheorems, WellFoundedInduction, TLAPS

\* The lists in braces, and the types of the variables.
Spots == {p \in DOMAIN init : init[p].braces}
Call == [ct : Types, base : Nat, at : Spots, k : Nat \ {0},
         idx : Nat \ {0}, braced : BOOLEAN, over : BOOLEAN]
Stored == [cell : Nat, place : DOMAIN init, home : SUBSET Int, elided : BOOLEAN]

Shape ==
    /\ type \in Objects /\ init \in Lists
    /\ status \in {"plan", "done", "error"}
    /\ calls \in Seq(Call) /\ (status = "plan" => calls # <<>>)
    /\ out \in Seq(Stored)

End(f) == f.base + f.ct.cells
PartOf(f) == f.ct.parts[f.idx]

\* Calls are for objects inside those of their callers, the first is for the
\* whole object, and one of them has the braces.
Inside ==
    /\ calls # <<>> => calls[1].base = 0 /\ calls[1].ct = type
    /\ \A c, d \in 1 .. Depth :
         c <= d => calls[c].base <= calls[d].base /\ End(calls[d]) <= End(calls[c])
    /\ \A i \in 1 .. Len(out) :
         out[i].cell < type.cells /\ (~out[i].elided => out[i].cell \in out[i].home)
Owned ==
    \A d \in 1 .. Depth : \E i \in 1 .. d :
        calls[i].braced /\ \A j \in i + 1 .. d : ~calls[j].braced

\* A caller waits at the part its callee is for.
Waiting ==
    \A d \in 1 .. Depth - 1 :
        /\ calls[d].idx <= Len(calls[d].ct.parts)
        /\ calls[d].base + PartOf(calls[d]).off <= calls[d + 1].base
        /\ End(calls[d + 1]) <= calls[d].base + PartOf(calls[d]).off + PartOf(calls[d]).type.cells

\* The parts a call has still to fill lie above all cells that have a value.
Ahead(d) ==
    {p \in 1 .. Len(calls[d].ct.parts) :
        IF d = Depth THEN ~calls[d].over /\ calls[d].idx <= p
        ELSE calls[d].ct.kind # "union" /\ calls[d].idx < p}
Filling ==
    \A d \in 1 .. Depth : \A p \in Ahead(d), i \in 1 .. Len(out) :
        out[i].cell < calls[d].base + calls[d].ct.parts[p].off
InOrder == \A i, j \in 1 .. Len(out) : i < j => out[i].cell < out[j].cell

IInv == Shape /\ Inside /\ Owned /\ Waiting /\ (Undesignated => Filling /\ InOrder)

--------------------------------------------------------------------------------

\* Arithmetic, for terms the solvers do not see as numbers.
LEMMA Sums == \A a, b \in Nat : a + b \in Nat
OBVIOUS

LEMMA Nested ==
    ASSUME NEW a \in Nat, NEW b \in Nat, NEW c \in Nat, NEW d \in Nat, NEW e \in Nat, NEW n \in Nat,
           a <= b, b <= c, c + n <= d, d <= e
    PROVE  a <= c /\ c + n <= e
OBVIOUS

LEMMA Below ==
    ASSUME NEW a \in Nat, NEW b \in Nat, NEW c \in Nat, NEW base \in Nat, NEW off \in Nat,
           NEW cells \in Nat, NEW next \in Nat,
           a + 1 <= b, b <= c, c <= base + off + cells, off + cells <= next
    PROVE  a < base + next
OBVIOUS

LEMMA CallFacts ==
    ASSUME IInv, NEW d \in 1 .. Depth
    PROVE  /\ calls[d] \in Call
           /\ WellFormed(calls[d].ct) /\ calls[d].ct \in Types /\ calls[d].ct.cells \in Nat
           /\ calls[d].base \in Nat /\ calls[d].k \in Nat \ {0} /\ calls[d].idx \in Nat \ {0}
           /\ calls[d].at \in Spots /\ calls[d].braced \in BOOLEAN /\ calls[d].over \in BOOLEAN
           /\ type.cells \in Nat /\ End(calls[d]) <= type.cells /\ Depth \in Nat
<1>1. calls[d] \in Call /\ Depth \in Nat
  BY DEF IInv, Shape, Depth
<1>2. calls[d].ct \in Types
  BY <1>1 DEF Call
<1>3. WellFormed(calls[d].ct) /\ calls[d].ct.cells \in Nat
  BY <1>2, TypesAssumption DEF WellFormed
<1>4. type.cells \in Nat
  BY TypesAssumption DEF IInv, Shape, WellFormed
<1>5. End(calls[d]) <= End(calls[1]) /\ End(calls[1]) = type.cells
  <2>1. 1 \in 1 .. Depth /\ 1 <= d /\ calls # <<>>
    BY <1>1 DEF Depth
  <2>2. calls[1].base = 0 /\ calls[1].ct = type
    BY <2>1 DEF IInv, Inside
  <2> QED BY <1>4, <2>1, <2>2 DEF IInv, Inside, End
<1> QED BY <1>1, <1>2, <1>3, <1>4, <1>5 DEF Call

LEMMA TopFacts ==
    ASSUME IInv, status = "plan"
    PROVE  Depth \in Nat /\ Depth > 0 /\ Depth \in 1 .. Depth /\ F = calls[Depth]
BY DEF IInv, Shape, Depth, F

LEMMA TreeFacts ==
    ASSUME init \in Lists
    PROVE  /\ IsFiniteSet(DOMAIN init) /\ DOMAIN init \subseteq Seq(Nat \ {0})
           /\ <<>> \in Spots /\ init[<<>>].desig = NoDesig
           /\ \A p \in DOMAIN init :
                /\ init[p].len \in Nat /\ init[p].braces \in BOOLEAN
                /\ ~init[p].braces => init[p].len = 0
                /\ \A i \in 1 .. init[p].len : Append(p, i) \in DOMAIN init
                /\ \A i \in 1 .. Len(p) : p[i] \in 1 .. init[SubSeq(p, 1, i - 1)].len
BY ListsAssumption DEF ListsAssumption, Spots

\* The part of the top call that is filled next.
LEMMA PartFacts ==
    ASSUME IInv, Looping, Pos # 0
    PROVE  /\ Pos \in 1 .. Len(F.ct.parts)
           /\ Part.type \in Types /\ Part.type.cells \in Nat /\ Part.off \in Nat
           /\ WellFormed(Part.type)
           /\ At \in Nat /\ F.base <= At /\ At + Part.type.cells <= End(F)
           /\ ~F.over /\ F.at \in Spots /\ F.k \in 1 .. init[F.at].len
           /\ Place \in DOMAIN init /\ Item.len \in Nat /\ Item.braces \in BOOLEAN
           /\ Undesignated => ~Designated /\ Pos = F.idx
<1>1. status = "plan" /\ ~F.over /\ More
  BY DEF Looping, LoopOver
<1>2. Depth \in 1 .. Depth /\ F = calls[Depth]
  BY <1>1, TopFacts
<1>3. /\ F \in Call /\ WellFormed(F.ct) /\ F.ct.cells \in Nat /\ F.base \in Nat
      /\ F.k \in Nat \ {0} /\ F.idx \in Nat \ {0} /\ F.at \in Spots
  BY <1>2, CallFacts
<1>t. init \in Lists
  BY DEF IInv, Shape
<1>4. F.k \in 1 .. init[F.at].len
  BY <1>1, <1>3, <1>t, TreeFacts DEF More, Spots
<1>10. Place \in DOMAIN init /\ Item.len \in Nat /\ Item.braces \in BOOLEAN
  BY <1>3, <1>4, <1>t, TreeFacts DEF Place, Item, Spots
<1>5. Undesignated => ~Designated
  BY <1>10 DEF Designated, Item, Undesignated
<1>6. Pos \in 1 .. Len(F.ct.parts)
  <2>1. CASE Designated
    BY <2>1 DEF Pos, Find
  <2>2. CASE ~Designated
    <3>1. ~(F.idx > Len(F.ct.parts)) /\ Pos = F.idx /\ Len(F.ct.parts) \in Nat
      BY <1>1, <1>3, <2>2 DEF Looping, LoopOver, Pos, WellFormed
    <3> QED BY <1>3, <3>1
  <2> QED BY <2>1, <2>2
<1>7. /\ Part.type \in Types /\ Part.off \in Nat
      /\ Part.off + Part.type.cells <= F.ct.cells
  BY <1>3, <1>6 DEF WellFormed, Part
<1>8. WellFormed(Part.type) /\ Part.type.cells \in Nat
  BY <1>7, TypesAssumption DEF WellFormed
<1>9. At \in Nat /\ F.base <= At /\ At + Part.type.cells <= End(F)
  BY <1>3, <1>7, <1>8 DEF At, End
<1> QED BY <1>1, <1>3, <1>4, <1>5, <1>6, <1>7, <1>8, <1>9, <1>10 DEF Pos

LEMMA HomeFacts ==
    ASSUME IInv, Looping, Pos # 0, Part.type.cells = 1
    PROVE  /\ Home \in SUBSET Int
           /\ ~(Designated /\ ~F.braced) => At \in Home
<1>0. Depth \in 1 .. Depth /\ F = calls[Depth] /\ Depth \in Nat
  BY TopFacts DEF Looping
<1>1. PICK o : o = CHOOSE i \in 1 .. Depth :
                  calls[i].braced /\ \A j \in i + 1 .. Depth : ~calls[j].braced
  OBVIOUS
<1>2. o \in 1 .. Depth
  BY <1>0, <1>1 DEF IInv, Owned
<1>3. Owner = calls[o]
  BY <1>1 DEF Owner
<1>4. Owner.base \in Nat /\ Owner.ct.cells \in Nat /\ WellFormed(Owner.ct)
  BY <1>2, <1>3, CallFacts
<1>5. Owner.base <= F.base /\ End(F) <= End(Owner)
  BY <1>0, <1>2, <1>3 DEF IInv, Inside
<1>6. CASE ~Designated
  <2>1. Home = Span(Owner.base, Owner.ct)
    BY <1>6 DEF Home
  <2>2. /\ At \in Nat /\ F.base <= At /\ At + 1 <= End(F) /\ F.base \in Nat
        /\ End(F) \in Int /\ End(Owner) = Owner.base + Owner.ct.cells
    BY <1>0, <1>4, PartFacts, CallFacts, SMTT(30) DEF End
  <2> QED BY <1>4, <1>5, <2>1, <2>2 DEF Span
<1>7. CASE Designated
  <2>1. PICK i : i = Find(Owner.ct, Item.desig)
    OBVIOUS
  <2>2. ASSUME i = 0 PROVE Home \in SUBSET Int
    BY <1>7, <2>1, <2>2 DEF Home
  <2>3. ASSUME i # 0 PROVE Home \in SUBSET Int
    <3>1. i \in 1 .. Len(Owner.ct.parts)
      BY <2>1, <2>3 DEF Find
    <3>2. Owner.ct.parts[i].off \in Nat /\ Owner.ct.parts[i].type.cells \in Nat
      BY <1>4, <3>1, TypesAssumption DEF WellFormed
    <3>3. Home = Span(Owner.base + Owner.ct.parts[i].off, Owner.ct.parts[i].type)
      BY <1>7, <2>1, <2>3 DEF Home
    <3> QED BY <1>4, <1>7, <3>2, <3>3 DEF Span
  <2>4. Home \in SUBSET Int
    BY <2>2, <2>3
  <2>5. ASSUME F.braced PROVE At \in Home
    <3>1. o = Depth
      <4>1. calls[o].braced /\ \A j \in o + 1 .. Depth : ~calls[j].braced
        BY <1>0, <1>1 DEF IInv, Owned
      <4>2. ~(Depth \in o + 1 .. Depth)
        BY <1>0, <2>5, <4>1
      <4> QED BY <1>0, <1>2, <4>2
    <3>2. Owner = F /\ i = Pos
      BY <1>0, <1>3, <1>7, <2>1, <3>1 DEF Pos
    <3>3. Home = Span(At, Part.type)
      BY <1>7, <2>1, <3>2 DEF Home, At, Part
    <3>4. At \in Nat
      BY PartFacts
    <3> QED BY <3>3, <3>4 DEF Span
  <2> QED BY <1>7, <2>4, <2>5
<1> QED BY <1>6, <1>7

LEMMA AdvanceFacts ==
    ASSUME NEW f \in Call, NEW pos \in Nat, NEW k \in Nat \ {0}
    PROVE  /\ Advance(f, pos, k) \in Call
           /\ Advance(f, pos, k).idx = pos + 1 /\ Advance(f, pos, k).k = k
           /\ Advance(f, pos, k).ct = f.ct /\ Advance(f, pos, k).base = f.base
           /\ Advance(f, pos, k).braced = f.braced
           /\ Advance(f, pos, k).at = f.at
           /\ Advance(f, pos, k).over <=> f.ct.kind = "union"
<1> DEFINE u == f.ct.kind = "union"
<1>1. u \in BOOLEAN
  OBVIOUS
<1>2. Advance(f, pos, k) = [f EXCEPT !.k = k, !.idx = pos + 1, !.over = u]
  BY DEF Advance
<1>3. pos + 1 \in Nat \ {0}
  OBVIOUS
<1>4. u <=> f.ct.kind = "union"
  OBVIOUS
<1> HIDE DEF u
<1>5. /\ Advance(f, pos, k) \in Call
      /\ Advance(f, pos, k).idx = pos + 1 /\ Advance(f, pos, k).k = k
      /\ Advance(f, pos, k).ct = f.ct /\ Advance(f, pos, k).base = f.base
      /\ Advance(f, pos, k).braced = f.braced
      /\ Advance(f, pos, k).at = f.at
  BY <1>1, <1>2, <1>3 DEF Call
<1>6. Advance(f, pos, k).over = u
  BY <1>2 DEF Call
<1> QED BY <1>4, <1>5, <1>6

--------------------------------------------------------------------------------
(* Steps.                                                                   *)

LEMMA ErrorStep ==
    ASSUME IInv, Error
    PROVE  IInv'
<1>1. UNCHANGED <<type, init, calls, out>> /\ status' = "error"
  BY DEF Error
<1>2. Shape'
  BY <1>1 DEF IInv, Shape, Call, Stored, Spots
<1>3. Inside' /\ Owned' /\ Waiting'
  BY <1>1 DEF IInv, Inside, Owned, Waiting, Depth, End, PartOf
<1>4. Undesignated' = Undesignated /\ Filling' = Filling /\ InOrder' = InOrder
  BY <1>1 DEF Undesignated, Filling, InOrder, Ahead, Depth
<1> QED BY <1>2, <1>3, <1>4 DEF IInv

\* A call of _plan for the next part.
LEMMA DescendStep ==
    ASSUME IInv, Looping, Pos # 0, NEW at \in Spots,
           NEW k \in Nat \ {0}, NEW braced \in BOOLEAN,
           Descend(at, k, braced)
    PROVE  IInv'
<1> DEFINE n == Depth
           f == [calls[n] EXCEPT !.idx = Pos]
           g == Frame(Part.type, At, at, k, braced)
<1>0. n \in Nat /\ n > 0 /\ n \in 1 .. n /\ F = calls[n] /\ n = Len(calls) /\ calls \in Seq(Call)
  BY TopFacts DEF Looping, Depth, IInv, Shape
<1>a. calls[n] \in Call /\ WellFormed(F.ct) /\ F.base \in Nat /\ F.ct.cells \in Nat
  BY <1>0, CallFacts
<1>b. /\ Pos \in 1 .. Len(F.ct.parts) /\ Pos \in Nat \ {0}
      /\ Part.type \in Types /\ Part.type.cells \in Nat /\ Part.off \in Nat /\ WellFormed(Part.type)
      /\ At \in Nat /\ F.base <= At /\ At + Part.type.cells <= End(F)
      /\ ~F.over /\ (Undesignated => Pos = F.idx)
  BY <1>a, PartFacts DEF WellFormed
<1>1. /\ f \in Call /\ f.idx = Pos /\ f.ct = F.ct /\ f.base = F.base /\ f.braced = F.braced
      /\ f.over = F.over
  BY <1>0, <1>a, <1>b DEF Call
<1>2. /\ g \in Call /\ g.ct = Part.type /\ g.base = At /\ g.idx = 1 /\ g.braced = braced
      /\ ~g.over
  BY <1>b DEF Frame, Call
<1>3. /\ calls' = Append([calls EXCEPT ![n] = f], g)
      /\ UNCHANGED <<type, init, out, status>>
  BY <1>0, <1>a DEF Descend, Call
<1>z. /\ F.base \in Nat /\ At \in Nat /\ Part.type.cells \in Nat
      /\ F.base <= At /\ At + Part.type.cells <= End(F)
  BY <1>a, <1>b
<1> HIDE DEF n, f, g
<1>4. /\ calls' \in Seq(Call) /\ Len(calls') = n + 1
      /\ \A d \in 1 .. n - 1 : calls'[d] = calls[d]
      /\ calls'[n] = f /\ calls'[n + 1] = g
  BY <1>0, <1>1, <1>2, <1>3
<1>5. Depth = n /\ Depth' = n + 1
  BY <1>0, <1>4 DEF Depth
<1>n. n \in Nat /\ n > 0
  BY <1>0
<1>e. \A d \in 1 .. n : d # n => calls'[d] = calls[d]
  <2>1. \A d \in 1 .. n : d # n => d \in 1 .. n - 1
    BY <1>n
  <2> QED BY <1>4, <2>1
<1>g. calls'[n + 1].ct = Part.type /\ calls'[n + 1].base = At /\ calls'[n + 1].braced = braced
  BY <1>2, <1>4
<1>6. \A d \in 1 .. n : /\ calls'[d].ct = calls[d].ct /\ calls'[d].base = calls[d].base
                        /\ calls'[d].braced = calls[d].braced
  BY <1>0, <1>1, <1>4
<1>7. Shape'
  <2>1. Call' = Call /\ Stored' = Stored
    BY <1>3 DEF Call, Stored, Spots
  <2>2. calls' # <<>>
    BY <1>0, <1>4
  <2> QED BY <1>3, <1>4, <2>1, <2>2 DEF IInv, Shape
<1>8. Inside'
  <2>1. calls'[1].base = 0 /\ calls'[1].ct = type
    BY <1>0, <1>6 DEF IInv, Inside
  <2>2. ASSUME NEW c \in 1 .. n + 1, NEW d \in 1 .. n + 1, c <= d
        PROVE  calls'[c].base <= calls'[d].base /\ End(calls[d])' <= End(calls[c])'
    <3>1. CASE d \in 1 .. n
      <4>1. c \in 1 .. n
        BY <1>0, <2>2, <3>1
      <4>2. calls[c].base <= calls[d].base /\ End(calls[d]) <= End(calls[c])
        BY <1>5, <2>2, <3>1, <4>1 DEF IInv, Inside
      <4> QED BY <1>6, <3>1, <4>1, <4>2 DEF End
    <3>2. CASE d = n + 1 /\ c \in 1 .. n
      <4>1. calls[c].base <= F.base /\ End(F) <= End(calls[c])
        BY <1>0, <1>5, <3>2 DEF IInv, Inside
      <4>2. calls[c].base \in Nat /\ calls[c].ct.cells \in Nat
        BY <1>5, <3>2, CallFacts
      <4>3. /\ calls'[c].base = calls[c].base /\ calls'[c].ct = calls[c].ct
            /\ calls'[d].base = At /\ calls'[d].ct = Part.type
        BY <1>6, <1>g, <3>2
      <4>4. End(F) = F.base + F.ct.cells /\ End(calls[c]) = calls[c].base + calls[c].ct.cells
        BY DEF End
      <4>5. End(calls[d])' = At + Part.type.cells /\ End(calls[c])' = End(calls[c])
        BY <4>3 DEF End
      <4>6. End(F) \in Nat
        BY <1>a DEF End
      <4>7. End(calls[c]) \in Nat
        BY <4>2, Sums DEF End
      <4>8. calls[c].base <= At /\ At + Part.type.cells <= End(calls[c])
        BY <1>z, <4>1, <4>2, <4>6, <4>7, Nested, SMTT(30)
      <4> QED BY <4>3, <4>5, <4>8
    <3>3. CASE d = n + 1 /\ c = n + 1
      BY <1>g, <1>b, <3>3 DEF End
    <3> QED BY <1>n, <2>2, <3>1, <3>2, <3>3
  <2> QED BY <1>3, <1>5, <2>1, <2>2 DEF IInv, Inside
<1>9. Owned'
  <2> SUFFICES ASSUME NEW d \in 1 .. n + 1
               PROVE  \E i \in 1 .. d : calls'[i].braced /\ \A j \in i + 1 .. d : ~calls'[j].braced
    BY <1>5 DEF Owned
  <2>1. CASE d \in 1 .. n
    <3>1. PICK i \in 1 .. d : calls[i].braced /\ \A j \in i + 1 .. d : ~calls[j].braced
      BY <1>5, <2>1 DEF IInv, Owned
    <3>2. \A j \in 1 .. d : j \in 1 .. n
      BY <1>n, <2>1
    <3>3. i \in 1 .. n /\ \A j \in i + 1 .. d : j \in 1 .. n
      BY <1>n, <2>1, <3>1
    <3> QED BY <1>6, <3>1, <3>3
  <2>2. CASE d = n + 1
    <3>1. CASE braced
      <4>1. n + 1 \in 1 .. d /\ \A j \in n + 1 + 1 .. d : FALSE
        BY <1>n, <2>2
      <4> QED BY <1>g, <3>1, <4>1
    <3>2. CASE ~braced
      <4>1. PICK i \in 1 .. n : calls[i].braced /\ \A j \in i + 1 .. n : ~calls[j].braced
        BY <1>0, <1>5 DEF IInv, Owned
      <4>2. \A j \in i + 1 .. d : (j \in i + 1 .. n /\ j \in 1 .. n) \/ j = n + 1
        BY <1>n, <2>2
      <4>3. i \in 1 .. d
        BY <1>n, <2>2
      <4> QED BY <1>g, <1>6, <3>2, <4>1, <4>2, <4>3
    <3> QED BY <3>1, <3>2
  <2> QED BY <1>n, <2>1, <2>2
<1>10. Waiting'
  <2> SUFFICES ASSUME NEW d \in 1 .. n
               PROVE  /\ calls'[d].idx <= Len(calls'[d].ct.parts)
                      /\ calls'[d].base + calls'[d].ct.parts[calls'[d].idx].off <= calls'[d + 1].base
                      /\ calls'[d + 1].base + calls'[d + 1].ct.cells
                           <= calls'[d].base + calls'[d].ct.parts[calls'[d].idx].off
                                + calls'[d].ct.parts[calls'[d].idx].type.cells
    BY <1>0, <1>5 DEF Waiting, PartOf, End
  <2>1. CASE d = n
    <3>1. calls'[d].ct.parts[calls'[d].idx] = Part
      BY <1>1, <1>4, <2>1 DEF Part
    <3>2. /\ calls'[d].idx = Pos /\ calls'[d].ct = F.ct /\ calls'[d].base = F.base
          /\ calls'[d + 1].base = At /\ calls'[d + 1].ct = Part.type
      BY <1>1, <1>4, <1>g, <2>1
    <3>3. Pos <= Len(F.ct.parts) /\ F.base + Part.off = At /\ At \in Nat /\ Part.type.cells \in Nat
      BY <1>a, <1>b DEF At, WellFormed
    <3> QED BY <3>1, <3>2, <3>3
  <2>2. CASE d # n
    <3>1. d \in 1 .. n - 1 /\ d + 1 \in 1 .. n
      BY <1>0, <2>2
    <3>2. /\ calls[d].idx <= Len(calls[d].ct.parts)
          /\ calls[d].base + PartOf(calls[d]).off <= calls[d + 1].base
          /\ End(calls[d + 1]) <= calls[d].base + PartOf(calls[d]).off + PartOf(calls[d]).type.cells
      BY <1>5, <3>1 DEF IInv, Waiting
    <3>3. calls'[d] = calls[d]
      BY <1>4, <3>1
    <3>4. calls'[d + 1].base = calls[d + 1].base /\ calls'[d + 1].ct = calls[d + 1].ct
      BY <1>6, <3>1
    <3> QED BY <3>2, <3>3, <3>4 DEF PartOf, End
  <2> QED BY <2>1, <2>2
<1>11. ASSUME Undesignated' PROVE Filling' /\ InOrder'
  <2>1. Undesignated
    BY <1>11, <1>3 DEF Undesignated
  <2>2. InOrder'
    BY <1>3, <2>1 DEF IInv, InOrder
  <2>3. ASSUME NEW d \in 1 .. n + 1, NEW p \in Ahead(d)', NEW i \in 1 .. Len(out)
        PROVE  out[i].cell < calls'[d].base + calls'[d].ct.parts[p].off
    <3>0. out[i].cell \in Nat
      <4>1. out \in Seq(Stored)
        BY DEF IInv, Shape
      <4>2. out[i] \in Stored
        BY <4>1
      <4> QED BY <4>2 DEF Stored
    <3>1. CASE d = n + 1
      <4>1. out[i].cell < F.base + F.ct.parts[Pos].off
        <5>1. Pos \in Ahead(n)
          BY <1>0, <1>5, <1>b, <2>1 DEF Ahead, WellFormed
        <5> QED BY <1>0, <1>5, <2>1, <5>1 DEF IInv, Filling
      <4>2. out[i].cell < At
        BY <4>1 DEF At, Part
      <4>3. p \in 1 .. Len(Part.type.parts)
        BY <1>g, <3>1 DEF Ahead
      <4>4. Part.type.parts[p].off \in Nat
        BY <1>b, <4>3 DEF WellFormed
      <4>5. calls'[d].base = At /\ calls'[d].ct.parts[p].off = Part.type.parts[p].off
        BY <1>g, <3>1
      <4>6. At \in Nat
        BY <1>b
      <4> QED BY <3>0, <4>2, <4>4, <4>5, <4>6
    <3>2. CASE d \in 1 .. n
      <4>1. /\ p \in 1 .. Len(calls[d].ct.parts) /\ calls[d].ct.kind # "union"
            /\ calls'[d].idx < p
        BY <1>0, <1>5, <1>6, <3>2 DEF Ahead
      <4>2. p \in Ahead(d)
        <5>1. CASE d = n
          BY <1>0, <1>1, <1>4, <1>5, <1>b, <2>1, <4>1, <5>1, <1>a, SMTT(30) DEF Ahead, WellFormed
        <5>2. CASE d # n
          <6>1. calls'[d] = calls[d]
            BY <1>e, <3>2, <5>2
          <6> QED BY <1>5, <4>1, <5>2, <6>1 DEF Ahead
        <5> QED BY <5>1, <5>2
      <4>3. out[i].cell < calls[d].base + calls[d].ct.parts[p].off
        BY <1>5, <2>1, <3>2, <4>2 DEF IInv, Filling
      <4> QED BY <1>6, <3>2, <4>3
    <3> QED BY <1>n, <3>1, <3>2
  <2> QED BY <1>3, <1>5, <2>2, <2>3 DEF Filling
<1> QED BY <1>7, <1>8, <1>9, <1>10, <1>11 DEF IInv

\* A value goes to the next part, a scalar.
LEMMA PutStep ==
    ASSUME IInv, Looping, Pos # 0, ~IsAggregate(Part.type), NEW place \in DOMAIN init, Put(place)
    PROVE  IInv'
<1> DEFINE n == Depth
           m == Len(out)
           f == Advance(F, Pos, F.k + 1)
           s == [cell |-> At, place |-> place, home |-> Home, elided |-> Designated /\ ~F.braced]
<1>0. n \in Nat /\ n > 0 /\ n \in 1 .. n /\ F = calls[n] /\ n = Len(calls) /\ calls \in Seq(Call)
  BY TopFacts DEF Looping, Depth, IInv, Shape
<1>a. /\ calls[n] \in Call /\ WellFormed(F.ct) /\ F.base \in Nat /\ F.ct.cells \in Nat
      /\ F.k \in Nat \ {0} /\ type.cells \in Nat /\ End(F) <= type.cells
      /\ Len(F.ct.parts) \in Nat
  BY <1>0, CallFacts DEF WellFormed
<1>b. /\ Pos \in 1 .. Len(F.ct.parts) /\ Pos \in Nat \ {0}
      /\ Part.off \in Nat /\ Part.type.cells = 1
      /\ At \in Nat /\ F.base <= At /\ At + 1 <= End(F)
      /\ (Undesignated => Pos = F.idx) /\ ~F.over
  BY <1>a, PartFacts DEF WellFormed, IsAggregate
<1>h. Home \in SUBSET Int /\ (~(Designated /\ ~F.braced) => At \in Home)
  BY <1>b, HomeFacts
<1>1. /\ f \in Call /\ f.idx = Pos + 1 /\ f.ct = F.ct /\ f.base = F.base
      /\ f.braced = F.braced /\ (f.over <=> F.ct.kind = "union")
  <2>1. F \in Call /\ Pos \in Nat /\ F.k + 1 \in Nat \ {0}
    BY <1>0, <1>a, <1>b, SMTT(30)
  <2> DEFINE q == F.k + 1
  <2>3. q \in Nat \ {0} /\ f = Advance(F, Pos, q)
    BY <2>1
  <2> HIDE DEF f, q
  <2>4. /\ Advance(F, Pos, q) \in Call
        /\ Advance(F, Pos, q).idx = Pos + 1 /\ Advance(F, Pos, q).k = q
        /\ Advance(F, Pos, q).ct = F.ct /\ Advance(F, Pos, q).base = F.base
        /\ Advance(F, Pos, q).braced = F.braced
        /\ Advance(F, Pos, q).at = F.at
        /\ Advance(F, Pos, q).over <=> F.ct.kind = "union"
    BY <2>1, <2>3, AdvanceFacts, Zenon
  <2> QED BY <2>3, <2>4, Zenon
<1>2. /\ s \in Stored /\ s.cell = At /\ s.home = Home
      /\ ~s.elided => At \in Home
  BY <1>b, <1>h DEF Stored
<1>3. /\ calls' = [calls EXCEPT ![n] = f] /\ out' = Append(out, s)
      /\ UNCHANGED <<type, init, status>>
  BY DEF Put
<1>m. m \in Nat /\ out \in Seq(Stored) /\ m = Len(out)
  BY DEF IInv, Shape
<1>z. /\ F.base \in Nat /\ Part.off \in Nat /\ Pos \in Nat /\ At \in Nat /\ At + 1 <= End(F)
  BY <1>a, <1>b
<1> HIDE DEF n, f, m, s
<1>4. /\ calls' \in Seq(Call) /\ Len(calls') = n
      /\ \A d \in 1 .. n : d # n => calls'[d] = calls[d]
      /\ calls'[n] = f
  BY <1>0, <1>1, <1>3
<1>5. Depth = n /\ Depth' = n
  BY <1>0, <1>4 DEF Depth
<1>n. n \in Nat /\ n > 0
  BY <1>0
<1>6. \A d \in 1 .. n : /\ calls'[d].ct = calls[d].ct /\ calls'[d].base = calls[d].base
                        /\ calls'[d].braced = calls[d].braced
  BY <1>0, <1>1, <1>4
<1>7. /\ out' \in Seq(Stored) /\ Len(out') = m + 1
      /\ \A i \in 1 .. m : out'[i] = out[i]
      /\ out'[m + 1] = s
  BY <1>2, <1>3, <1>m
<1>8. /\ out'[m + 1].cell = At /\ out'[m + 1].home = Home
      /\ ~out'[m + 1].elided => At \in Home
  BY <1>2, <1>7
<1>9. \A i \in 1 .. m : out[i].cell \in Nat
  <2>1. \A i \in 1 .. m : out[i] \in Stored
    BY <1>m
  <2> QED BY <2>1 DEF Stored
<1>10. Shape'
  <2>1. Call' = Call /\ Stored' = Stored
    BY <1>3 DEF Call, Stored, Spots
  <2>2. calls' # <<>>
    BY <1>n, <1>4
  <2> QED BY <1>3, <1>4, <1>7, <2>1, <2>2 DEF IInv, Shape
<1>11. Inside'
  <2>1. calls'[1].base = 0 /\ calls'[1].ct = type
    <3>1. 1 \in 1 .. n /\ calls # <<>>
      BY <1>0
    <3> QED BY <1>6, <3>1 DEF IInv, Inside
  <2>2. ASSUME NEW c \in 1 .. n, NEW d \in 1 .. n, c <= d
        PROVE  calls'[c].base <= calls'[d].base /\ End(calls[d])' <= End(calls[c])'
    <3>1. calls[c].base <= calls[d].base /\ End(calls[d]) <= End(calls[c])
      BY <1>5, <2>2 DEF IInv, Inside
    <3> QED BY <1>6, <3>1 DEF End
  <2>3. ASSUME NEW i \in 1 .. m + 1
        PROVE  out'[i].cell < type.cells /\ (~out'[i].elided => out'[i].cell \in out'[i].home)
    <3>1. CASE i = m + 1
      <4>1. End(F) \in Nat
        BY <1>a DEF End
      <4> QED BY <1>a, <1>b, <1>8, <3>1, <4>1
    <3>2. CASE i # m + 1
      <4>1. i \in 1 .. m /\ i \in 1 .. Len(out)
        BY <1>m, <3>2
      <4> QED BY <1>7, <4>1 DEF IInv, Inside
    <3> QED BY <3>1, <3>2
  <2> QED BY <1>3, <1>5, <1>7, <2>1, <2>2, <2>3 DEF Inside
<1>12. Owned'
  <2> SUFFICES ASSUME NEW d \in 1 .. n
               PROVE  \E i \in 1 .. d : calls'[i].braced /\ \A j \in i + 1 .. d : ~calls'[j].braced
    BY <1>5 DEF Owned
  <2>1. PICK i \in 1 .. d : calls[i].braced /\ \A j \in i + 1 .. d : ~calls[j].braced
    BY <1>5 DEF IInv, Owned
  <2>2. i \in 1 .. n /\ \A j \in i + 1 .. d : j \in 1 .. n
    BY <1>n, <2>1
  <2> QED BY <1>6, <2>1, <2>2
<1>13. Waiting'
  <2> SUFFICES ASSUME NEW d \in 1 .. n - 1
               PROVE  /\ calls'[d].idx <= Len(calls'[d].ct.parts)
                      /\ calls'[d].base + PartOf(calls'[d]).off <= calls'[d + 1].base
                      /\ End(calls'[d + 1]) <= calls'[d].base + PartOf(calls'[d]).off
                                                 + PartOf(calls'[d]).type.cells
    BY <1>5 DEF Waiting, PartOf, End
  <2>1. d \in 1 .. n /\ d + 1 \in 1 .. n /\ d # n
    BY <1>n
  <2>2. calls'[d] = calls[d]
    BY <1>4, <2>1
  <2>3. calls'[d + 1].base = calls[d + 1].base /\ End(calls'[d + 1]) = End(calls[d + 1])
    BY <1>6, <2>1 DEF End
  <2> QED BY <1>5, <2>2, <2>3 DEF IInv, Waiting
<1>14. ASSUME Undesignated' PROVE Filling' /\ InOrder'
  <2>1. Undesignated
    BY <1>14, <1>3 DEF Undesignated
  <2>2. Pos \in Ahead(n)
    BY <1>0, <1>5, <1>a, <1>b, <2>1 DEF Ahead
  <2>3. \A i \in 1 .. m : out[i].cell < At
    BY <1>0, <1>5, <1>m, <2>1, <2>2 DEF IInv, Filling, At, Part
  <2>4. InOrder'
    <3> SUFFICES ASSUME NEW i \in 1 .. m + 1, NEW j \in 1 .. m + 1,
                        i < j
                 PROVE  out'[i].cell < out'[j].cell
      BY <1>7 DEF InOrder
    <3>1. \A e \in 1 .. m + 1 : e = m + 1 \/ e \in 1 .. m
      BY <1>m
    <3>2. i \in 1 .. m
      BY <1>m
    <3>3. CASE j = m + 1
      BY <1>7, <1>8, <2>3, <3>2, <3>3
    <3>4. CASE j \in 1 .. m
      BY <1>7, <1>m, <2>1, <3>2, <3>4 DEF IInv, InOrder
    <3> QED BY <3>1, <3>3, <3>4
  <2>5. ASSUME NEW d \in 1 .. n, NEW p \in Ahead(d)', NEW i \in 1 .. m + 1
        PROVE  out'[i].cell < calls'[d].base + calls'[d].ct.parts[p].off
    <3>1. p \in 1 .. Len(calls[d].ct.parts) /\ p \in Ahead(d)
      <4>1. p \in 1 .. Len(calls[d].ct.parts)
        BY <1>6 DEF Ahead
      <4>2. CASE d = n
        BY <1>0, <1>1, <1>4, <1>5, <1>a, <1>b, <2>1, <4>1, <4>2, SMTT(30) DEF Ahead
      <4>3. CASE d # n
        BY <1>4, <1>5, <4>1, <4>3 DEF Ahead
      <4> QED BY <4>1, <4>2, <4>3
    <3>2. CASE i \in 1 .. m
      <4>1. out[i].cell < calls[d].base + calls[d].ct.parts[p].off
        BY <1>5, <1>m, <2>1, <3>1, <3>2 DEF IInv, Filling
      <4> QED BY <1>6, <1>7, <3>2, <4>1
    <3>3. CASE i = m + 1
      <4>1. At < calls[d].base + calls[d].ct.parts[p].off
        <5>1. CASE d = n
          <6>1. F.ct.kind # "union" /\ Pos < p
            <7>1. ~calls'[n].over /\ calls'[n].idx <= p
              BY <1>5, <5>1 DEF Ahead
            <7>2. ~f.over /\ Pos + 1 <= p
              BY <1>1, <1>4, <7>1
            <7>3. p \in 1 .. Len(F.ct.parts)
              BY <1>0, <3>1, <5>1
            <7>4. Pos < p
              BY <1>z, <7>2, <7>3
            <7> QED BY <1>1, <7>2, <7>4
          <6>2. p \in 1 .. Len(F.ct.parts) /\ F.ct.parts[Pos] = Part
            BY <1>0, <3>1, <5>1 DEF Part
          <6>3. Part.off + 1 <= F.ct.parts[p].off /\ F.ct.parts[p].off \in Nat
            BY <1>a, <1>b, <6>1, <6>2 DEF WellFormed
          <6>4. At = F.base + Part.off /\ calls[d].base = F.base
                /\ calls[d].ct.parts[p].off = F.ct.parts[p].off
            BY <1>0, <5>1 DEF At
          <6>5. At + 1 <= F.base + F.ct.parts[p].off
            BY <1>z, <6>3, <6>4, SMTT(30)
          <6> QED BY <1>z, <6>3, <6>4, <6>5, SMTT(30)
        <5>2. CASE d # n
          <6>1. calls[d].ct.kind # "union" /\ calls[d].idx < p
            BY <1>5, <3>1, <5>2 DEF Ahead
          <6>2. /\ d \in 1 .. n - 1 /\ d \in 1 .. Depth /\ d + 1 \in 1 .. Depth
                /\ d + 1 <= n /\ n \in 1 .. Depth
            BY <1>n, <1>5, <5>2
          <6>3. /\ calls[d].idx \in Nat \ {0} /\ calls[d].base \in Nat
                /\ WellFormed(calls[d].ct)
                /\ calls[d + 1].base \in Nat /\ calls[d + 1].ct.cells \in Nat
            BY <6>2, CallFacts
          <6>4. /\ calls[d].idx <= Len(calls[d].ct.parts)
                /\ End(calls[d + 1]) <= calls[d].base + PartOf(calls[d]).off
                                            + PartOf(calls[d]).type.cells
            BY <1>5, <6>2 DEF IInv, Waiting
          <6>5. Len(calls[d].ct.parts) \in Nat
            BY <6>3 DEF WellFormed
          <6>6. calls[d].idx \in 1 .. Len(calls[d].ct.parts)
            BY <6>3, <6>4, <6>5
          <6>7. /\ PartOf(calls[d]).off + PartOf(calls[d]).type.cells <= calls[d].ct.parts[p].off
                /\ PartOf(calls[d]).off \in Nat /\ PartOf(calls[d]).type \in Types
                /\ calls[d].ct.parts[p].off \in Nat
            BY <3>1, <6>1, <6>3, <6>6 DEF WellFormed, PartOf
          <6>8. PartOf(calls[d]).type.cells \in Nat
            BY <6>7, TypesAssumption DEF WellFormed
          <6>9. End(calls[n]) <= End(calls[d + 1])
            BY <6>2 DEF IInv, Inside
          <6>10. End(F) \in Nat /\ End(calls[n]) = End(F)
            BY <1>0, <1>a, SMTT(30) DEF End
          <6>11. End(calls[d + 1]) \in Nat
            BY <6>3, Sums DEF End
          <6> QED BY <1>z, <6>3, <6>4, <6>7, <6>8, <6>9, <6>10, <6>11, Below
        <5> QED BY <5>1, <5>2
      <4> QED BY <1>6, <1>8, <3>3, <4>1
    <3> QED BY <1>m, <3>2, <3>3
  <2> QED BY <1>5, <1>7, <2>4, <2>5 DEF Filling
<1> QED BY <1>10, <1>11, <1>12, <1>13, <1>14 DEF IInv

\* The loop of the innermost call is over.
LEMMA ReturnStep ==
    ASSUME IInv, Return
    PROVE  IInv'
<1> DEFINE n == Depth
           c == calls[n - 1]
           q == IF F.braced THEN c.k + 1 ELSE F.k
           f == Advance(c, c.idx, q)
<1>0. n \in Nat /\ n > 0 /\ n \in 1 .. n /\ F = calls[n] /\ n = Len(calls) /\ calls \in Seq(Call)
  BY TopFacts DEF Return, Depth, IInv, Shape
<1>1. CASE Excess(F)
  BY <1>1, ErrorStep DEF Return
<1>2. CASE ~Excess(F) /\ n = 1
  <2>1. calls' = <<>> /\ status' = "done" /\ UNCHANGED <<type, init, out>>
    BY <1>2 DEF Return
  <2>2. Depth' = 0
    BY <2>1 DEF Depth
  <2>3. Shape'
    <3>1. Call' = Call /\ Stored' = Stored
      BY <2>1 DEF Call, Stored, Spots
    <3> QED BY <2>1, <3>1 DEF IInv, Shape
  <2>4. Inside'
    BY <2>1, <2>2 DEF IInv, Inside
  <2>5. Owned' /\ Waiting' /\ Filling'
    BY <2>2 DEF Owned, Waiting, Filling
  <2>6. Undesignated' => InOrder'
    BY <2>1 DEF IInv, InOrder, Undesignated
  <2> QED BY <2>3, <2>4, <2>5, <2>6 DEF IInv
<1>3. CASE ~Excess(F) /\ n # 1
  <2>1. calls' = Append(SubSeq(calls, 1, n - 2), f) /\ UNCHANGED <<type, init, out, status>>
    BY <1>3 DEF Return, Resume
  <2>2. n - 1 \in 1 .. n /\ n - 1 \in 1 .. Depth /\ n - 2 \in Nat
    BY <1>0, <1>3
  <2>3. /\ c \in Call /\ c.k \in Nat \ {0} /\ c.idx \in Nat \ {0}
    BY <2>2, CallFacts
  <2>4. F.k \in Nat \ {0}
    BY <1>0, CallFacts
  <2>5. q \in Nat \ {0}
    BY <2>3, <2>4
  <2> HIDE DEF n, c, q
  <2>6. /\ f \in Call /\ f.idx = c.idx + 1 /\ f.ct = c.ct /\ f.base = c.base
        /\ f.braced = c.braced /\ (f.over <=> c.ct.kind = "union")
    <3>1. f = Advance(c, c.idx, q) /\ c.idx \in Nat
      BY <2>3
    <3> HIDE DEF f
    <3>2. /\ Advance(c, c.idx, q) \in Call
          /\ Advance(c, c.idx, q).idx = c.idx + 1 /\ Advance(c, c.idx, q).k = q
          /\ Advance(c, c.idx, q).ct = c.ct /\ Advance(c, c.idx, q).base = c.base
          /\ Advance(c, c.idx, q).braced = c.braced
          /\ Advance(c, c.idx, q).at = c.at
          /\ Advance(c, c.idx, q).over <=> c.ct.kind = "union"
      BY <2>3, <2>5, <3>1, AdvanceFacts, Zenon
    <3> QED BY <3>1, <3>2, Zenon
  <2> HIDE DEF f
  <2>n. n \in Nat /\ n > 1
    BY <1>0, <1>3
  <2>7. /\ calls' \in Seq(Call) /\ Len(calls') = n - 1
        /\ \A d \in 1 .. n - 2 : calls'[d] = calls[d]
        /\ calls'[n - 1] = f
    <3> DEFINE r == SubSeq(calls, 1, n - 2)
    <3>1. r \in Seq(Call) /\ Len(r) = n - 2 /\ \A d \in 1 .. n - 2 : r[d] = calls[d]
      BY <1>0, <2>n, <2>2
    <3>2. calls' = Append(r, f)
      BY <2>1
    <3> HIDE DEF r
    <3> QED BY <2>n, <2>6, <3>1, <3>2
  <2>8. Depth = n /\ Depth' = n - 1 /\ calls[n - 1] = c
    BY <1>0, <2>7 DEF Depth, n, c
  <2>9. \A d \in 1 .. n - 1 : d # n - 1 => d \in 1 .. n - 2
    BY <2>n
  <2>10. \A d \in 1 .. n - 1 : /\ calls'[d].ct = calls[d].ct /\ calls'[d].base = calls[d].base
                               /\ calls'[d].braced = calls[d].braced
    <3> SUFFICES ASSUME NEW d \in 1 .. n - 1
                 PROVE  /\ calls'[d].ct = calls[d].ct /\ calls'[d].base = calls[d].base
                        /\ calls'[d].braced = calls[d].braced
      OBVIOUS
    <3>1. CASE d = n - 1
      BY <2>6, <2>7, <2>8, <3>1
    <3>2. CASE d # n - 1
      BY <2>7, <2>9, <3>2
    <3> QED BY <3>1, <3>2
  <2>11. \A d \in 1 .. n - 1 : d \in 1 .. Depth
    BY <2>n, <2>8
  <2>12. Shape'
    <3>1. Call' = Call /\ Stored' = Stored
      BY <2>1 DEF Call, Stored, Spots
    <3>2. calls' # <<>>
      BY <2>n, <2>7
    <3> QED BY <2>1, <2>7, <3>1, <3>2 DEF IInv, Shape
  <2>13. Inside'
    <3>1. calls'[1].base = 0 /\ calls'[1].ct = type
      <4>1. 1 \in 1 .. n - 1
        BY <2>n
      <4>2. calls # <<>>
        BY <1>0, <2>n
      <4> QED BY <2>10, <4>1, <4>2 DEF IInv, Inside
    <3>2. ASSUME NEW b \in 1 .. n - 1, NEW d \in 1 .. n - 1, b <= d
          PROVE  calls'[b].base <= calls'[d].base /\ End(calls[d])' <= End(calls[b])'
      <4>1. calls[b].base <= calls[d].base /\ End(calls[d]) <= End(calls[b])
        BY <2>11, <3>2 DEF IInv, Inside
      <4> QED BY <2>10, <4>1 DEF End
    <3> QED BY <2>1, <2>8, <3>1, <3>2 DEF IInv, Inside
  <2>14. Owned'
    <3> SUFFICES ASSUME NEW d \in 1 .. n - 1
                 PROVE  \E i \in 1 .. d : calls'[i].braced /\ \A j \in i + 1 .. d : ~calls'[j].braced
      BY <2>8 DEF Owned
    <3>1. PICK i \in 1 .. d : calls[i].braced /\ \A j \in i + 1 .. d : ~calls[j].braced
      BY <2>11 DEF IInv, Owned
    <3>2. i \in 1 .. n - 1 /\ \A j \in i + 1 .. d : j \in 1 .. n - 1
      BY <2>n, <3>1
    <3> QED BY <2>10, <3>1, <3>2
  <2>15. Waiting'
    <3> SUFFICES ASSUME NEW d \in 1 .. (n - 1) - 1
                 PROVE  /\ calls'[d].idx <= Len(calls'[d].ct.parts)
                        /\ calls'[d].base + PartOf(calls'[d]).off <= calls'[d + 1].base
                        /\ End(calls'[d + 1]) <= calls'[d].base + PartOf(calls'[d]).off
                                                   + PartOf(calls'[d]).type.cells
      BY <2>8 DEF Waiting, PartOf, End
    <3>1. d \in 1 .. n - 2 /\ d + 1 \in 1 .. n - 1 /\ d \in 1 .. n - 1
      BY <2>n
    <3>2. calls'[d] = calls[d]
      BY <2>7, <3>1
    <3>3. calls'[d + 1].base = calls[d + 1].base /\ End(calls'[d + 1]) = End(calls[d + 1])
      BY <2>10, <3>1 DEF End
    <3> QED BY <2>8, <3>1, <3>2, <3>3 DEF IInv, Waiting
  <2>16. ASSUME Undesignated' PROVE Filling' /\ InOrder'
    <3>1. Undesignated
      BY <2>16, <2>1 DEF Undesignated
    <3>2. InOrder'
      BY <2>1, <3>1 DEF IInv, InOrder
    <3>3. ASSUME NEW d \in 1 .. n - 1, NEW p \in Ahead(d)', NEW i \in 1 .. Len(out)
          PROVE  out[i].cell < calls'[d].base + calls'[d].ct.parts[p].off
      <4>1. p \in 1 .. Len(calls[d].ct.parts) /\ d # n
        BY <2>n, <2>10 DEF Ahead
      <4>2. p \in Ahead(d)
        <5>1. CASE d = n - 1
          <6>1. ~f.over /\ c.idx + 1 <= p
            BY <2>6, <2>7, <2>8, <5>1 DEF Ahead
          <6>2. p \in Nat /\ c.idx < p
            BY <2>3, <4>1, <6>1
          <6> QED BY <2>6, <2>8, <4>1, <5>1, <6>1, <6>2 DEF Ahead
        <5>2. CASE d # n - 1
          BY <2>7, <2>8, <2>9, <4>1, <5>2 DEF Ahead
        <5> QED BY <5>1, <5>2
      <4>3. out[i].cell < calls[d].base + calls[d].ct.parts[p].off
        BY <2>11, <3>1, <4>2 DEF IInv, Filling
      <4> QED BY <2>10, <4>3
    <3> QED BY <2>1, <2>8, <3>2, <3>3 DEF Filling
  <2> QED BY <2>12, <2>13, <2>14, <2>15, <2>16 DEF IInv
<1> QED BY <1>1, <1>2, <1>3

--------------------------------------------------------------------------------

LEMMA InitInv == Init => IInv
<1> SUFFICES ASSUME Init PROVE IInv
  OBVIOUS
<1> DEFINE f == Frame(type, 0, <<>>, 1, TRUE)
<1>1. /\ calls = <<f>> /\ out = <<>> /\ status = "plan"
      /\ type \in Objects /\ init \in Lists /\ type \in Types
  BY TypesAssumption DEF Init
<1>2. /\ f \in Call /\ f.base = 0 /\ f.ct = type /\ f.braced
  BY <1>1, TreeFacts DEF Frame, Call
<1> HIDE DEF f
<1>3. Len(calls) = 1 /\ calls[1] = f /\ calls \in Seq(Call) /\ calls # <<>>
  BY <1>1, <1>2
<1>4. Len(out) = 0 /\ out \in Seq(Stored)
  BY <1>1
<1>5. Depth = 1
  BY <1>3 DEF Depth
<1>6. Shape
  BY <1>1, <1>3, <1>4 DEF Shape
<1>7. Inside
  <2>1. type.cells \in Nat
    BY <1>1, TypesAssumption DEF WellFormed
  <2>2. \A b, d \in 1 .. Depth : b = d /\ b = 1
    BY <1>5
  <2>3. End(calls[1]) = type.cells
    BY <1>2, <1>3, <2>1 DEF End
  <2>4. \A b, d \in 1 .. Depth :
            b <= d => calls[b].base <= calls[d].base /\ End(calls[d]) <= End(calls[b])
    BY <1>2, <1>3, <2>1, <2>2, <2>3
  <2> QED BY <1>2, <1>3, <1>4, <2>4 DEF Inside
<1>8. Owned
  BY <1>2, <1>3, <1>5 DEF Owned
<1>9. Waiting
  BY <1>5 DEF Waiting
<1>10. Filling /\ InOrder
  BY <1>4 DEF Filling, InOrder
<1> QED BY <1>6, <1>7, <1>8, <1>9, <1>10 DEF IInv

LEMMA NextInv == IInv /\ [Next]_vars => IInv'
<1> SUFFICES ASSUME IInv, [Next]_vars PROVE IInv'
  OBVIOUS
<1>1. CASE Return
  BY <1>1, ReturnStep
<1>2. CASE BadDesignator
  BY <1>2, ErrorStep DEF BadDesignator
<1>3. CASE Braced
  <2>1. Looping /\ Pos # 0 /\ Item.braces /\ Descend(Place, 1, TRUE)
    BY <1>3 DEF Braced
  <2>2. Place \in Spots
    BY <2>1, PartFacts DEF Spots, Item
  <2>3. 1 \in Nat \ {0} /\ TRUE \in BOOLEAN
    OBVIOUS
  <2> QED BY <2>1, <2>2, <2>3, DescendStep
<1>4. CASE Elided
  <2>1. CASE Designated
    BY <1>4, <2>1, ErrorStep DEF Elided
  <2>2. CASE ~Designated
    <3>1. Looping /\ Pos # 0 /\ Descend(F.at, F.k, FALSE)
      BY <1>4, <2>2 DEF Elided
    <3>2. F.at \in Spots /\ F.k \in Nat \ {0} /\ FALSE \in BOOLEAN
      BY <3>1, TopFacts, CallFacts DEF Looping
    <3> QED BY <3>1, <3>2, DescendStep
  <2> QED BY <2>1, <2>2
<1>5. CASE Leaf
  <2>1. Looping /\ Pos # 0 /\ ~IsAggregate(Part.type)
    BY <1>5 DEF Leaf
  <2>2. Place \in DOMAIN init /\ Item.len \in Nat /\ init \in Lists
    BY <2>1, PartFacts DEF IInv, Shape
  <2>3. Put(Place) \/ (Single /\ Put(Only)) \/ Error
    BY <1>5 DEF Leaf
  <2>4. CASE Error
    BY <2>4, ErrorStep
  <2>5. CASE Put(Place)
    BY <2>1, <2>2, <2>5, PutStep
  <2>6. CASE Single /\ Put(Only)
    <3>1. Only \in DOMAIN init
      BY <2>2, <2>6, TreeFacts DEF Single, Only, Item
    <3> QED BY <2>1, <2>6, <3>1, PutStep
  <2> QED BY <2>3, <2>4, <2>5, <2>6
<1>6. CASE UNCHANGED vars
  <2>1. UNCHANGED <<type, init, calls, out, status>>
    BY <1>6 DEF vars
  <2>2. Shape'
    BY <2>1 DEF IInv, Shape, Call, Stored, Spots
  <2>3. Inside' /\ Owned' /\ Waiting'
    BY <2>1 DEF IInv, Inside, Owned, Waiting, Depth, End, PartOf
  <2>4. Undesignated' = Undesignated /\ Filling' = Filling /\ InOrder' = InOrder
    BY <2>1 DEF Undesignated, Filling, InOrder, Ahead, Depth
  <2> QED BY <2>2, <2>3, <2>4 DEF IInv
<1> QED BY <1>1, <1>2, <1>3, <1>4, <1>5, <1>6 DEF Next

\* Every value stays in the object; one whose designator names a part of the
\* object its braces belong to stays in that part, one without designator in
\* that object; and without designators no cell is written twice or out of
\* order (PlanStaysInside), for all well-formed types and all lists: a caller
\* waits at a part that holds the object its callee fills, and what is still to
\* fill lies above every cell that has a value.
THEOREM PlanInside == Spec => []PlanStaysInside
<1>1. IInv => PlanStaysInside
  <2> SUFFICES ASSUME IInv PROVE PlanStaysInside
    OBVIOUS
  <2>1. out \in Seq(Stored) /\ type.cells \in Nat
    BY TypesAssumption DEF IInv, Shape, WellFormed
  <2>2. DOMAIN out = 1 .. Len(out)
    BY <2>1
  <2>3. ASSUME NEW i \in 1 .. Len(out)
        PROVE  out[i].cell \in Span(0, type) /\ (~out[i].elided => out[i].cell \in out[i].home)
    <3>1. out[i] \in Stored
      BY <2>1
    <3>2. out[i].cell \in Nat
      BY <3>1 DEF Stored
    <3>3. out[i].cell < type.cells /\ (~out[i].elided => out[i].cell \in out[i].home)
      BY DEF IInv, Inside
    <3> QED BY <2>1, <3>2, <3>3 DEF Span
  <2>4. Undesignated => InOrder
    BY DEF IInv
  <2> QED BY <2>2, <2>3, <2>4 DEF PlanStaysInside, InOrder
<1> QED BY <1>1, InitInv, NextInv, PTL DEF Spec

--------------------------------------------------------------------------------
(* Every expression is stored once.                                         *)

\* The items in front of the place q, in the order in which they are read:
\* a list in braces is in front of its items.
InFront(p, q) ==
    \E i \in 1 .. Len(q) :
        /\ i <= Len(p) + 1 /\ \A j \in 1 .. i - 1 : p[j] = q[j]
        /\ i <= Len(p) => p[i] < q[i]
Passed(q) == {p \in DOMAIN init : InFront(p, q)}

\* p is the item at q or one in its braces.
Under(p, q) == Len(q) <= Len(p) /\ \A j \in 1 .. Len(q) : p[j] = q[j]

\* A call has its own braces at the item its caller is at, or goes on in the
\* list of its caller.
Chained ==
    \A d \in 1 .. Depth - 1 :
        calls[d + 1].at = IF calls[d + 1].braced
                          THEN Append(calls[d].at, calls[d].k) ELSE calls[d].at
Located == calls # <<>> => calls[1].braced /\ calls[1].at = <<>>

Done == {out[x].place : x \in 1 .. Len(out)}
Placed ==
    /\ status = "plan" => Done = Passed(Place) \cap Places
    /\ status = "done" => Done = Places
Distinct == \A x, y \in 1 .. Len(out) : out[x].place = out[y].place => x = y

PInv == Chained /\ Located /\ Placed /\ Distinct

Path == Seq(Nat \ {0})

LEMMA Appended ==
    ASSUME NEW a \in Path, NEW k \in Nat \ {0}
    PROVE  /\ Append(a, k) \in Path /\ Len(a) \in Nat /\ Len(Append(a, k)) = Len(a) + 1
           /\ Append(a, k)[Len(a) + 1] = k
           /\ \A j \in 1 .. Len(a) : Append(a, k)[j] = a[j]
BY DEF Path

\* The items in front of item k of a list are those in front of the list, the
\* list, and what is in its items below k.
LEMMA FrontOf ==
    ASSUME NEW a \in Path, NEW k \in Nat \ {0}, NEW p \in Path
    PROVE  InFront(p, Append(a, k)) <=>
             \/ InFront(p, a)
             \/ Under(p, a) /\ (Len(p) = Len(a) \/ (Len(p) > Len(a) /\ p[Len(a) + 1] < k))
<1> DEFINE L == Len(a)
           b == Append(a, k)
<1>1. /\ L \in Nat /\ L = Len(a) /\ Len(b) = L + 1 /\ b[L + 1] = k /\ Len(p) \in Nat
      /\ \A j \in 1 .. L : b[j] = a[j]
  BY Appended DEF Path
<1>2. \A i \in 1 .. L + 1 : i \in 1 .. L \/ i = L + 1
  BY <1>1
<1>b. b = Append(a, k)
  OBVIOUS
<1> HIDE DEF L, b
<1>3. ASSUME NEW i \in 1 .. L + 1, i <= Len(p) + 1, \A j \in 1 .. i - 1 : p[j] = b[j],
             i <= Len(p) => p[i] < b[i]
      PROVE  \/ InFront(p, a)
             \/ Under(p, a) /\ (Len(p) = L \/ (Len(p) > L /\ p[L + 1] < k))
  <2>1. CASE i \in 1 .. L
    <3>1. \A j \in 1 .. i - 1 : j \in 1 .. L
      BY <1>1, <2>1
    <3> QED BY <1>1, <1>3, <2>1, <3>1 DEF InFront
  <2>2. CASE i = L + 1
    <3>1. L <= Len(p) /\ \A j \in 1 .. L : p[j] = b[j]
      BY <1>1, <1>3, <2>2
    <3> QED BY <1>1, <1>3, <2>2, <3>1 DEF Under
  <2> QED BY <1>2, <2>1, <2>2
<1>4. ASSUME InFront(p, a) PROVE InFront(p, b)
  <2>1. PICK i \in 1 .. L : /\ i <= Len(p) + 1 /\ \A j \in 1 .. i - 1 : p[j] = a[j]
                            /\ i <= Len(p) => p[i] < a[i]
    BY <1>1, <1>4 DEF InFront
  <2>2. i \in 1 .. L + 1 /\ \A j \in 1 .. i - 1 : j \in 1 .. L
    BY <1>1
  <2> QED BY <1>1, <2>1, <2>2 DEF InFront
<1>5. ASSUME Under(p, a), Len(p) = L \/ (Len(p) > L /\ p[L + 1] < k) PROVE InFront(p, b)
  <2>1. L + 1 \in 1 .. Len(b) /\ L + 1 <= Len(p) + 1
    BY <1>1, <1>5
  <2>2. \A j \in 1 .. (L + 1) - 1 : p[j] = b[j]
    BY <1>1, <1>5 DEF Under
  <2>3. L + 1 <= Len(p) => p[L + 1] < b[L + 1]
    BY <1>1, <1>5
  <2> QED BY <2>1, <2>2, <2>3 DEF InFront
<1>6. InFront(p, b) => \/ InFront(p, a)
                       \/ Under(p, a) /\ (Len(p) = L \/ (Len(p) > L /\ p[L + 1] < k))
  BY <1>1, <1>3 DEF InFront
<1> QED BY <1>1, <1>4, <1>5, <1>6, <1>b

LEMMA UnderItem ==
    ASSUME NEW a \in Path, NEW k \in Nat \ {0}, NEW p \in Path
    PROVE  Under(p, Append(a, k)) <=> Under(p, a) /\ Len(p) > Len(a) /\ p[Len(a) + 1] = k
<1> DEFINE L == Len(a)
           b == Append(a, k)
<1>1. /\ L \in Nat /\ L = Len(a) /\ Len(b) = L + 1 /\ b[L + 1] = k /\ Len(p) \in Nat
      /\ \A j \in 1 .. L : b[j] = a[j]
  BY Appended DEF Path
<1>2. \A j \in 1 .. L + 1 : j \in 1 .. L \/ j = L + 1
  BY <1>1
<1>3. L + 1 \in 1 .. L + 1 /\ \A j \in 1 .. L : j \in 1 .. L + 1
  BY <1>1
<1>b. b = Append(a, k)
  OBVIOUS
<1> HIDE DEF L, b
<1> QED BY <1>1, <1>2, <1>3, <1>b DEF Under

LEMMA UnderNotFront ==
    ASSUME NEW a \in Path, NEW p \in Path, Under(p, a)
    PROVE  ~InFront(p, a)
<1> SUFFICES ASSUME NEW i \in 1 .. Len(a), i <= Len(p) => p[i] < a[i]
             PROVE  FALSE
  BY DEF InFront
<1>1. Len(a) \in Nat /\ Len(p) \in Nat /\ i <= Len(p) /\ a[i] \in Nat
  BY DEF Path, Under
<1>2. p[i] = a[i]
  BY DEF Under
<1> QED BY <1>1, <1>2

\* The next item of a list, what is in an item, and the end of a list.
LEMMA ItemPassed ==
    ASSUME NEW a \in Path, NEW k \in Nat \ {0}, NEW p \in Path
    PROVE  InFront(p, Append(a, k + 1)) <=> InFront(p, Append(a, k)) \/ Under(p, Append(a, k))
<1>1. k + 1 \in Nat \ {0} /\ Len(a) \in Nat /\ Len(p) \in Nat
  BY DEF Path
<1>2. Len(p) > Len(a) => p[Len(a) + 1] \in Nat /\ (p[Len(a) + 1] < k + 1 <=> p[Len(a) + 1] < k \/ p[Len(a) + 1] = k)
  <2> SUFFICES ASSUME Len(p) > Len(a)
               PROVE  p[Len(a) + 1] \in Nat
                      /\ (p[Len(a) + 1] < k + 1 <=> p[Len(a) + 1] < k \/ p[Len(a) + 1] = k)
    OBVIOUS
  <2>1. Len(a) + 1 \in 1 .. Len(p)
    BY <1>1
  <2>2. p[Len(a) + 1] \in Nat
    BY <2>1 DEF Path
  <2> QED BY <2>2
<1>3. InFront(p, Append(a, k + 1)) <=>
             \/ InFront(p, a)
             \/ Under(p, a) /\ (Len(p) = Len(a) \/ (Len(p) > Len(a) /\ p[Len(a) + 1] < k + 1))
  BY <1>1, FrontOf
<1> QED BY <1>2, <1>3, FrontOf, UnderItem

LEMMA ListPassed ==
    ASSUME NEW a \in Path, NEW p \in Path
    PROVE  InFront(p, Append(a, 1)) <=> InFront(p, a) \/ p = a
<1>1. 1 \in Nat \ {0} /\ Len(a) \in Nat /\ Len(p) \in Nat
  BY DEF Path
<1>2. ~(Len(p) > Len(a) /\ p[Len(a) + 1] < 1)
  <2> SUFFICES ASSUME Len(p) > Len(a) PROVE p[Len(a) + 1] \in Nat \ {0}
    OBVIOUS
  <2>1. Len(a) + 1 \in 1 .. Len(p)
    BY <1>1
  <2> QED BY <2>1 DEF Path
<1>3. Under(p, a) /\ Len(p) = Len(a) <=> p = a
  <2>1. ASSUME Under(p, a), Len(p) = Len(a) PROVE p = a
    BY <2>1, SeqEqual DEF Under, Path
  <2>2. Under(a, a)
    BY <1>1 DEF Under
  <2> QED BY <2>1, <2>2
<1> QED BY <1>1, <1>2, <1>3, FrontOf

LEMMA UnderSame ==
    ASSUME NEW a \in Path, NEW p \in Path, Under(p, a)
    PROVE  /\ SubSeq(p, 1, Len(a)) = a
           /\ Len(p) = Len(a) => p = a
<1>1. Len(a) \in Nat /\ Len(p) \in Nat /\ Len(a) <= Len(p)
  BY DEF Path, Under
<1>2. /\ SubSeq(p, 1, Len(a)) \in Path /\ Len(SubSeq(p, 1, Len(a))) = Len(a)
      /\ \A j \in 1 .. Len(a) : SubSeq(p, 1, Len(a))[j] = p[j]
  BY <1>1 DEF Path
<1>3. SubSeq(p, 1, Len(a)) = a
  BY <1>2, SeqEqual DEF Under, Path
<1>4. Len(p) = Len(a) => p = a
  BY SeqEqual DEF Under, Path
<1> QED BY <1>3, <1>4

\* A place in the braces of an item is in one of its items.
LEMMA ItemOf ==
    ASSUME init \in Lists, NEW a \in DOMAIN init, NEW p \in DOMAIN init, Under(p, a), p # a
    PROVE  /\ Len(p) > Len(a) /\ p[Len(a) + 1] \in 1 .. init[a].len
           /\ init[a].braces
<1>1. a \in Path /\ p \in Path
  BY TreeFacts DEF Path
<1>2. Len(a) \in Nat /\ Len(p) \in Nat /\ Len(p) > Len(a)
  <2>1. Len(a) \in Nat /\ Len(p) \in Nat /\ Len(a) <= Len(p)
    BY <1>1 DEF Path, Under
  <2>2. Len(p) # Len(a)
    BY <1>1, UnderSame
  <2> QED BY <2>1, <2>2
<1>3. Len(a) + 1 \in 1 .. Len(p) /\ (Len(a) + 1) - 1 = Len(a)
  BY <1>2
<1>4. p[Len(a) + 1] \in 1 .. init[SubSeq(p, 1, Len(a))].len
  BY <1>3, TreeFacts
<1>5. p[Len(a) + 1] \in 1 .. init[a].len
  BY <1>1, <1>4, UnderSame
<1>6. init[a].len # 0
  BY <1>5
<1> QED BY <1>2, <1>5, <1>6, TreeFacts

\* What is in front of the end of a list.
LEMMA EndPassed ==
    ASSUME init \in Lists, NEW a \in DOMAIN init, NEW k \in Nat \ {0}, k > init[a].len,
           NEW p \in DOMAIN init
    PROVE  InFront(p, Append(a, k)) <=> InFront(p, a) \/ Under(p, a)
<1>1. a \in Path /\ p \in Path /\ init[a].len \in Nat
  BY TreeFacts DEF Path
<1>2. Under(p, a) => Len(p) = Len(a) \/ (Len(p) > Len(a) /\ p[Len(a) + 1] < k)
  <2> SUFFICES ASSUME Under(p, a), p # a PROVE Len(p) > Len(a) /\ p[Len(a) + 1] < k
    OBVIOUS
  <2> QED BY <1>1, ItemOf
<1> QED BY <1>1, <1>2, FrontOf

--------------------------------------------------------------------------------

\* The items passed when the planning moves on.
LEMMA BracesPassed ==
    ASSUME init \in Lists, NEW a \in DOMAIN init
    PROVE  Passed(Append(a, 1)) = Passed(a) \cup {a} /\ a \notin Passed(a)
<1>1. DOMAIN init \subseteq Path
  BY TreeFacts DEF Path
<1>2. \A p \in DOMAIN init : InFront(p, Append(a, 1)) <=> InFront(p, a) \/ p = a
  BY <1>1, ListPassed
<1>3. Under(a, a)
  BY DEF Under
<1>4. ~InFront(a, a)
  BY <1>1, <1>3, UnderNotFront
<1> QED BY <1>2, <1>4 DEF Passed

LEMMA NextPassed ==
    ASSUME init \in Lists, NEW a \in Spots, NEW k \in Nat \ {0}
    PROVE  Passed(Append(a, k + 1)) = Passed(Append(a, k)) \cup {p \in DOMAIN init : Under(p, Append(a, k))}
<1>1. DOMAIN init \subseteq Path /\ a \in Path
  BY TreeFacts DEF Path, Spots
<1>2. \A p \in DOMAIN init :
        InFront(p, Append(a, k + 1)) <=> InFront(p, Append(a, k)) \/ Under(p, Append(a, k))
  BY <1>1, ItemPassed
<1> QED BY <1>2 DEF Passed

LEMMA ListEndPassed ==
    ASSUME init \in Lists, NEW a \in Spots, NEW k \in Nat \ {0}, Append(a, k) \in Spots,
           NEW l \in Nat \ {0}, l > init[Append(a, k)].len
    PROVE  Passed(Append(Append(a, k), l)) = Passed(Append(a, k + 1))
<1>1. Append(a, k) \in DOMAIN init
  BY DEF Spots
<1>2. \A p \in DOMAIN init :
        InFront(p, Append(Append(a, k), l)) <=> InFront(p, Append(a, k)) \/ Under(p, Append(a, k))
  BY <1>1, EndPassed
<1> QED BY <1>2, NextPassed DEF Passed

LEMMA OuterPassed ==
    ASSUME init \in Lists, NEW k \in Nat \ {0}, k > init[<<>>].len
    PROVE  Passed(Append(<<>>, k)) = DOMAIN init
<1>1. <<>> \in DOMAIN init /\ Len(<<>>) = 0 /\ DOMAIN init \subseteq Path
  BY TreeFacts DEF Spots, Path
<1>2. \A p \in DOMAIN init : Under(p, <<>>)
  BY <1>1 DEF Under, Path
<1>3. \A p \in DOMAIN init : InFront(p, Append(<<>>, k))
  BY <1>1, <1>2, EndPassed
<1> QED BY <1>3 DEF Passed

\* The expressions in an item: itself, or the only one in its braces.
LEMMA AloneUnder ==
    ASSUME init \in Lists, NEW a \in DOMAIN init, ~init[a].braces, NEW p \in DOMAIN init, Under(p, a)
    PROVE  p = a
BY ItemOf

LEMMA OnlyUnder ==
    ASSUME init \in Lists, NEW a \in DOMAIN init, init[a].len = 1, Append(a, 1) \in DOMAIN init,
           ~init[Append(a, 1)].braces, NEW p \in DOMAIN init, Under(p, a), ~init[p].braces
    PROVE  p = Append(a, 1)
<1>1. init[a].braces
  BY TreeFacts
<1>2. a \in Path /\ p \in Path
  BY TreeFacts DEF Path
<1>3. Len(p) > Len(a) /\ p[Len(a) + 1] = 1
  BY <1>1, ItemOf
<1>4. Under(p, Append(a, 1))
  BY <1>2, <1>3, UnderItem
<1> QED BY <1>4, AloneUnder

--------------------------------------------------------------------------------
(* Steps.                                                                   *)

\* What the next item is, and what is passed when it is done with.
LEMMA ItemFacts ==
    ASSUME IInv, PInv, Looping, Pos # 0
    PROVE  /\ F = calls[Depth] /\ Depth \in 1 .. Depth /\ init \in Lists /\ status = "plan"
           /\ F \in Call /\ F.at \in Spots /\ F.k \in Nat \ {0} /\ Place \in DOMAIN init
           /\ F.at \in Path /\ Place \in Path /\ Place \notin Passed(Place)
           /\ Passed(Append(F.at, F.k + 1)) = Passed(Place) \cup {p \in DOMAIN init : Under(p, Place)}
           /\ Done = Passed(Place) \cap Places
           /\ Item.len \in Nat /\ Item.braces \in BOOLEAN
<1>1. F = calls[Depth] /\ Depth \in 1 .. Depth /\ init \in Lists /\ status = "plan"
  BY TopFacts DEF Looping, IInv, Shape
<1>2. F \in Call /\ F.at \in Spots /\ F.k \in Nat \ {0}
  BY <1>1, CallFacts
<1>3. Place \in DOMAIN init /\ Item.len \in Nat /\ Item.braces \in BOOLEAN
  BY PartFacts
<1>4. F.at \in Path /\ Place \in Path
  BY <1>1, <1>2, <1>3, TreeFacts DEF Spots, Path
<1>5. Place \notin Passed(Place)
  BY <1>1, <1>3, BracesPassed
<1>6. Passed(Append(F.at, F.k + 1)) = Passed(Place) \cup {p \in DOMAIN init : Under(p, Place)}
  BY <1>1, <1>2, NextPassed DEF Place
<1>7. Done = Passed(Place) \cap Places
  BY <1>1 DEF PInv, Placed
<1> QED BY <1>1, <1>2, <1>3, <1>4, <1>5, <1>6, <1>7

\* An error leaves the plan as it is.
LEMMA ErrorPlaced ==
    ASSUME PInv, Error
    PROVE  PInv'
<1>1. UNCHANGED <<type, init, calls, out>> /\ status' = "error"
  BY DEF Error
<1>2. Chained' /\ Located'
  BY <1>1 DEF PInv, Chained, Located, Depth
<1>3. Placed' /\ Distinct'
  BY <1>1 DEF PInv, Placed, Distinct
<1> QED BY <1>2, <1>3 DEF PInv

\* A call of _plan, with nothing more to store in front of its list.
LEMMA DescendPlaced ==
    ASSUME IInv, PInv, Looping, Pos # 0, NEW at \in Spots,
           NEW k \in Nat \ {0}, NEW braced \in BOOLEAN,
           Descend(at, k, braced),
           at = IF braced THEN Place ELSE F.at,
           Passed(Append(at, k)) \cap Places = Passed(Place) \cap Places
    PROVE  PInv'
<1> DEFINE n == Depth
           f == [calls[n] EXCEPT !.idx = Pos]
           g == Frame(Part.type, At, at, k, braced)
<1>0. n \in Nat /\ n > 0 /\ n \in 1 .. n /\ F = calls[n] /\ n = Len(calls) /\ calls \in Seq(Call)
  BY TopFacts DEF Looping, Depth, IInv, Shape
<1>a. calls[n] \in Call /\ WellFormed(F.ct)
  BY <1>0, CallFacts
<1>b. Pos \in Nat \ {0} /\ Part.type \in Types /\ At \in Nat
  BY <1>a, PartFacts DEF WellFormed
<1>1. f \in Call /\ f.at = F.at /\ f.k = F.k /\ f.braced = F.braced
  BY <1>0, <1>a, <1>b DEF Call
<1>2. g \in Call /\ g.at = at /\ g.k = k /\ g.braced = braced
  BY <1>b DEF Frame, Call
<1>3. /\ calls' = Append([calls EXCEPT ![n] = f], g)
      /\ UNCHANGED <<type, init, out, status>>
  BY <1>0, <1>a DEF Descend, Call
<1> HIDE DEF n, f, g
<1>4. /\ calls' \in Seq(Call) /\ Len(calls') = n + 1
      /\ \A d \in 1 .. n - 1 : calls'[d] = calls[d]
      /\ calls'[n] = f /\ calls'[n + 1] = g
  BY <1>0, <1>1, <1>2, <1>3
<1>5. Depth = n /\ Depth' = n + 1 /\ F' = g
  BY <1>0, <1>4 DEF Depth, F
<1>n. n \in Nat /\ n > 0 /\ F = calls[n]
  BY <1>0
<1>6. \A d \in 1 .. n : /\ calls'[d].at = calls[d].at /\ calls'[d].k = calls[d].k
                        /\ calls'[d].braced = calls[d].braced
  <2>1. \A d \in 1 .. n : d = n \/ d \in 1 .. n - 1
    BY <1>n
  <2> QED BY <1>n, <1>1, <1>4, <2>1
<1>7. Chained'
  <2> SUFFICES ASSUME NEW d \in 1 .. n
               PROVE  calls'[d + 1].at = IF calls'[d + 1].braced
                                         THEN Append(calls'[d].at, calls'[d].k) ELSE calls'[d].at
    <3>1. Depth' - 1 = n
      BY <1>n, <1>5
    <3> QED BY <3>1, Zenon DEF Chained
  <2>1. CASE d = n
    BY <1>n, <1>2, <1>4, <1>6, <2>1 DEF Place
  <2>2. CASE d # n
    <3>1. d \in 1 .. n - 1 /\ d + 1 \in 1 .. n
      BY <1>n, <2>2
    <3>2. calls[d + 1].at = IF calls[d + 1].braced
                            THEN Append(calls[d].at, calls[d].k) ELSE calls[d].at
      BY <1>5, <3>1 DEF PInv, Chained
    <3> QED BY <1>6, <3>1, <3>2
  <2> QED BY <2>1, <2>2
<1>8. Located'
  <2>1. 1 \in 1 .. n /\ calls # <<>>
    BY <1>0
  <2>2. calls'[1].braced /\ calls'[1].at = <<>>
    BY <1>6, <2>1 DEF PInv, Located
  <2> QED BY <2>2 DEF Located
<1>9. Placed'
  <2>1. status = "plan" /\ Done = Passed(Place) \cap Places
    BY ItemFacts
  <2>2. Done' = Done /\ init' = init /\ status' = status
    BY <1>3 DEF Done
  <2>3. Place' = Append(at, k)
    BY <1>2, <1>5 DEF Place
  <2>4. Passed(Place)' = Passed(Append(at, k)) /\ Places' = Places
    BY <2>2, <2>3 DEF Passed, Places
  <2> QED BY <2>1, <2>2, <2>4 DEF Placed
<1>10. Distinct'
  BY <1>3 DEF PInv, Distinct
<1> QED BY <1>7, <1>8, <1>9, <1>10 DEF PInv

\* A value is stored, and nothing else is in the item.
LEMMA PutPlaced ==
    ASSUME IInv, PInv, Looping, Pos # 0, NEW place \in Places, Put(place),
           Under(place, Place),
           \A p \in Places : Under(p, Place) => p = place
    PROVE  PInv'
<1> DEFINE n == Depth
           m == Len(out)
           f == Advance(F, Pos, F.k + 1)
           s == [cell |-> At, place |-> place, home |-> Home, elided |-> Designated /\ ~F.braced]
           q == F.k + 1
<1>0. n \in Nat /\ n > 0 /\ n \in 1 .. n /\ F = calls[n] /\ n = Len(calls) /\ calls \in Seq(Call)
  BY TopFacts DEF Looping, Depth, IInv, Shape
<1>a. F \in Call /\ WellFormed(F.ct) /\ F.k \in Nat \ {0}
  BY <1>0, CallFacts
<1>b. Pos \in Nat /\ q \in Nat \ {0} /\ m \in Nat /\ m = Len(out) /\ out \in Seq(Stored)
  <2>1. out \in Seq(Stored)
    BY Zenon DEF IInv, Shape
  <2>2. Pos \in Nat
    BY <1>a, PartFacts DEF WellFormed
  <2> QED BY <1>a, <2>1, <2>2
<1>3. /\ calls' = [calls EXCEPT ![n] = f] /\ out' = Append(out, s)
      /\ UNCHANGED <<type, init, status>>
  BY DEF Put
<1>2. s.place = place
  OBVIOUS
<1>f. f = Advance(F, Pos, q)
  OBVIOUS
<1>q. q = F.k + 1
  OBVIOUS
<1> HIDE DEF n, m, f, s, q
<1>1. f \in Call /\ f.at = F.at /\ f.braced = F.braced /\ f.k = q
  <2>1. /\ Advance(F, Pos, q) \in Call
        /\ Advance(F, Pos, q).idx = Pos + 1 /\ Advance(F, Pos, q).k = q
        /\ Advance(F, Pos, q).ct = F.ct /\ Advance(F, Pos, q).base = F.base
        /\ Advance(F, Pos, q).braced = F.braced
        /\ Advance(F, Pos, q).at = F.at
        /\ Advance(F, Pos, q).over <=> F.ct.kind = "union"
    BY <1>a, <1>b, AdvanceFacts, Zenon
  <2> QED BY <1>f, <2>1, Zenon
<1>4. /\ Len(calls') = n /\ calls'[n] = f
      /\ \A d \in 1 .. n : d # n => calls'[d] = calls[d]
  BY <1>0, <1>1, <1>3
<1>5. Depth = n /\ Depth' = n /\ F' = f
  BY <1>0, <1>4 DEF Depth, F
<1>n. n \in Nat /\ n > 0 /\ F = calls[n]
  BY <1>0
<1>6. \A d \in 1 .. n : calls'[d].at = calls[d].at /\ calls'[d].braced = calls[d].braced
  BY <1>n, <1>1, <1>4
<1>7. Chained'
  <2> SUFFICES ASSUME NEW d \in 1 .. n - 1
               PROVE  calls'[d + 1].at = IF calls'[d + 1].braced
                                         THEN Append(calls'[d].at, calls'[d].k) ELSE calls'[d].at
    BY <1>5, Zenon DEF Chained
  <2>1. d \in 1 .. n /\ d + 1 \in 1 .. n /\ d # n
    BY <1>n
  <2>2. calls[d + 1].at = IF calls[d + 1].braced
                          THEN Append(calls[d].at, calls[d].k) ELSE calls[d].at
    BY <1>5 DEF PInv, Chained
  <2> QED BY <1>4, <1>6, <2>1, <2>2
<1>8. Located'
  <2>1. 1 \in 1 .. n /\ calls # <<>>
    BY <1>0
  <2>2. calls'[1].braced /\ calls'[1].at = <<>>
    BY <1>6, <2>1 DEF PInv, Located
  <2> QED BY <2>2 DEF Located
<1>10. /\ Len(out') = m + 1 /\ \A x \in 1 .. m : out'[x] = out[x]
       /\ out'[m + 1].place = place
  <2>1. Len(out') = m + 1 /\ (\A x \in 1 .. m : out'[x] = out[x]) /\ out'[m + 1] = s
    BY <1>3, <1>b
  <2> QED BY <1>2, <2>1
<1>i. /\ status = "plan" /\ Done = Passed(Place) \cap Places
      /\ Passed(Append(F.at, q)) = Passed(Place) \cup {p \in DOMAIN init : Under(p, Place)}
      /\ Place \in Path /\ init \in Lists
  BY <1>q, ItemFacts
<1>9. place \in DOMAIN init /\ place \notin Done
  <2>1. place \in DOMAIN init /\ Places \subseteq DOMAIN init
    BY DEF Places
  <2>2. place \in Path
    BY <1>i, <2>1, TreeFacts DEF Path
  <2>3. ~InFront(place, Place)
    BY <1>i, <2>2, UnderNotFront
  <2> QED BY <1>i, <2>1, <2>3 DEF Passed
<1>11. Done' = Done \cup {place}
  <2>1. \A x \in 1 .. m + 1 : x \in 1 .. m \/ x = m + 1
    BY <1>b
  <2>2. m + 1 \in 1 .. m + 1 /\ \A x \in 1 .. m : x \in 1 .. m + 1
    BY <1>b
  <2>3. Done' = {out'[x].place : x \in 1 .. m + 1}
    BY <1>10 DEF Done
  <2>4. Done = {out[x].place : x \in 1 .. m}
    BY <1>b DEF Done
  <2> QED BY <1>10, <2>1, <2>2, <2>3, <2>4
<1>12. Distinct'
  <2> SUFFICES ASSUME NEW x \in 1 .. m + 1, NEW y \in 1 .. m + 1, out'[x].place = out'[y].place
               PROVE  x = y
    BY <1>10 DEF Distinct
  <2>1. x \in 1 .. m \/ x = m + 1
    BY <1>b
  <2>2. y \in 1 .. m \/ y = m + 1
    BY <1>b
  <2>3. \A z \in 1 .. m : out[z].place # place
    BY <1>b, <1>9 DEF Done
  <2> QED BY <1>b, <1>10, <2>1, <2>2, <2>3 DEF PInv, Distinct
<1>13. Placed'
  <2>1. init' = init /\ status' = "plan"
    BY <1>3, <1>i
  <2>2. Place' = Append(F.at, q)
    BY <1>1, <1>5 DEF Place
  <2>3. Passed(Place)' = Passed(Append(F.at, q)) /\ Places' = Places
    BY <2>1, <2>2 DEF Passed, Places
  <2>4. Passed(Append(F.at, q)) \cap Places = (Passed(Place) \cap Places) \cup {place}
    <3>1. Places \subseteq DOMAIN init
      BY DEF Places
    <3> QED BY <1>i, <3>1
  <2> QED BY <1>i, <1>11, <2>1, <2>3, <2>4 DEF Placed
<1> QED BY <1>7, <1>8, <1>12, <1>13 DEF PInv

\* Where the caller goes on, the same is passed as at the end of its callee.
LEMMA Resumed ==
    ASSUME IInv, PInv, status = "plan", ~Excess(F), LoopOver, Depth # 1,
           NEW c, c = calls[Depth - 1],
           NEW q, q = IF F.braced THEN c.k + 1 ELSE F.k
    PROVE  Passed(Append(c.at, q)) = Passed(Place)
<1> DEFINE n == Depth
<1>0. n \in Nat /\ n > 0 /\ n \in 1 .. n /\ F = calls[n] /\ n = Depth /\ init \in Lists
  BY TopFacts DEF IInv, Shape
<1> HIDE DEF n
<1>1. n - 1 \in 1 .. n - 1 /\ n - 1 \in 1 .. Depth /\ n - 1 + 1 = n /\ c = calls[n - 1]
  BY <1>0
<1>2. F.at = IF F.braced THEN Append(c.at, c.k) ELSE c.at
  BY <1>0, <1>1 DEF PInv, Chained
<1>3. /\ F.k \in Nat \ {0} /\ c.k \in Nat \ {0} /\ F.at \in Spots /\ c.at \in Spots
      /\ init[F.at].len \in Nat
  <2>1. c.k \in Nat \ {0} /\ c.at \in Spots
    BY <1>1, CallFacts
  <2>2. F.k \in Nat \ {0} /\ F.at \in Spots
    BY <1>0, CallFacts
  <2> QED BY <1>0, <2>1, <2>2, TreeFacts DEF Spots
<1>4. CASE ~F.braced
  BY <1>2, <1>4 DEF Place
<1>5. CASE F.braced
  <2>1. F.k > init[F.at].len /\ q = c.k + 1 /\ F.at = Append(c.at, c.k)
    BY <1>2, <1>3, <1>5 DEF Excess
  <2>2. Append(c.at, c.k) \in Spots /\ F.k > init[Append(c.at, c.k)].len
    BY <1>3, <2>1
  <2>3. Passed(Append(Append(c.at, c.k), F.k)) = Passed(Append(c.at, c.k + 1))
    BY <1>0, <1>3, <2>2, ListEndPassed
  <2> QED BY <2>1, <2>3 DEF Place
<1> QED BY <1>4, <1>5

LEMMA ReturnPlaced ==
    ASSUME IInv, PInv, Return
    PROVE  PInv'
<1> DEFINE n == Depth
           c == calls[n - 1]
           q == IF F.braced THEN c.k + 1 ELSE F.k
           f == Advance(c, c.idx, q)
<1>0. n \in Nat /\ n > 0 /\ n \in 1 .. n /\ F = calls[n] /\ n = Len(calls) /\ calls \in Seq(Call)
  BY TopFacts DEF Return, Depth, IInv, Shape
<1>p. status = "plan" /\ LoopOver /\ init \in Lists
  BY DEF Return, IInv, Shape
<1>1. CASE Excess(F)
  BY <1>1, ErrorPlaced DEF Return
<1>2. CASE ~Excess(F) /\ n = 1
  <2>1. calls' = <<>> /\ status' = "done" /\ UNCHANGED <<type, init, out>>
    BY <1>2 DEF Return
  <2>2. Chained' /\ Located'
    BY <2>1 DEF Chained, Located, Depth
  <2>3. F.braced /\ F.at = <<>> /\ F.k \in Nat \ {0} /\ init[<<>>].len \in Nat
    <3>0. calls # <<>> /\ F = calls[1]
      <4>1. Len(calls) = 1 /\ F = calls[1]
        BY <1>0, <1>2, Zenon
      <4>2. Len(<<>>) = 0
        OBVIOUS
      <4> QED BY <4>1, <4>2
    <3>1. F.braced /\ F.at = <<>>
      BY <3>0 DEF PInv, Located
    <3>2. F.k \in Nat \ {0}
      BY <1>0, CallFacts
    <3> QED BY <1>p, <3>1, <3>2, TreeFacts DEF Spots
  <2>4. F.k > init[<<>>].len
    BY <1>2, <2>3 DEF Excess
  <2>5. Passed(Place) = DOMAIN init
    BY <1>p, <2>3, <2>4, OuterPassed DEF Place
  <2>6. Done = Places
    BY <1>p, <2>5 DEF PInv, Placed, Places
  <2>7. Placed' /\ Distinct'
    BY <2>1, <2>6 DEF PInv, Placed, Distinct, Done, Places
  <2> QED BY <2>2, <2>7 DEF PInv
<1>3. CASE ~Excess(F) /\ n # 1
  <2>1. calls' = Append(SubSeq(calls, 1, n - 2), f) /\ UNCHANGED <<type, init, out, status>>
    BY <1>3 DEF Return, Resume
  <2>2. n - 1 \in 1 .. n /\ n - 1 \in 1 .. Depth /\ n - 2 \in Nat
    BY <1>0, <1>3
  <2>3. c \in Call /\ c.k \in Nat \ {0} /\ c.idx \in Nat \ {0}
    BY <2>2, CallFacts
  <2>4. F.k \in Nat \ {0}
    BY <1>0, CallFacts
  <2>5. q \in Nat \ {0}
    BY <2>3, <2>4
  <2>c. c = calls[Depth - 1] /\ q = (IF F.braced THEN c.k + 1 ELSE F.k) /\ Depth # 1
    BY <1>3
  <2> HIDE DEF n, c, q
  <2>6. f \in Call /\ f.at = c.at /\ f.k = q /\ f.braced = c.braced
    <3>1. f = Advance(c, c.idx, q) /\ c.idx \in Nat
      BY <2>3
    <3> HIDE DEF f
    <3>2. /\ Advance(c, c.idx, q) \in Call
          /\ Advance(c, c.idx, q).idx = c.idx + 1 /\ Advance(c, c.idx, q).k = q
          /\ Advance(c, c.idx, q).ct = c.ct /\ Advance(c, c.idx, q).base = c.base
          /\ Advance(c, c.idx, q).braced = c.braced
          /\ Advance(c, c.idx, q).at = c.at
          /\ Advance(c, c.idx, q).over <=> c.ct.kind = "union"
      BY <2>3, <2>5, <3>1, AdvanceFacts, Zenon
    <3> QED BY <3>1, <3>2, Zenon
  <2> HIDE DEF f
  <2>n. n \in Nat /\ n > 1
    BY <1>0, <1>3
  <2>7. /\ Len(calls') = n - 1 /\ calls'[n - 1] = f
        /\ \A d \in 1 .. n - 2 : calls'[d] = calls[d]
    <3> DEFINE r == SubSeq(calls, 1, n - 2)
    <3>1. r \in Seq(Call) /\ Len(r) = n - 2 /\ \A d \in 1 .. n - 2 : r[d] = calls[d]
      BY <1>0, <2>n, <2>2
    <3>2. calls' = Append(r, f)
      BY <2>1
    <3> HIDE DEF r
    <3> QED BY <2>n, <2>6, <3>1, <3>2
  <2>8. Depth = n /\ Depth' = n - 1 /\ calls[n - 1] = c /\ F' = f
    BY <1>0, <2>7 DEF Depth, F, n, c
  <2>9. \A d \in 1 .. n - 1 : d # n - 1 => d \in 1 .. n - 2
    BY <2>n
  <2>10. \A d \in 1 .. n - 1 : calls'[d].at = calls[d].at /\ calls'[d].braced = calls[d].braced
    <3> SUFFICES ASSUME NEW d \in 1 .. n - 1
                 PROVE  calls'[d].at = calls[d].at /\ calls'[d].braced = calls[d].braced
      OBVIOUS
    <3>1. CASE d = n - 1
      BY <2>6, <2>7, <2>8, <3>1
    <3>2. CASE d # n - 1
      BY <2>7, <2>9, <3>2
    <3> QED BY <3>1, <3>2
  <2>12. Chained'
    <3>1. ASSUME NEW d \in 1 .. n - 2
          PROVE  calls'[d + 1].at = IF calls'[d + 1].braced
                                    THEN Append(calls'[d].at, calls'[d].k) ELSE calls'[d].at
      <4>1. d \in 1 .. n - 1 /\ d + 1 \in 1 .. n - 1
        BY <2>n
      <4>2. calls[d + 1].at = IF calls[d + 1].braced
                              THEN Append(calls[d].at, calls[d].k) ELSE calls[d].at
        BY <2>8, <4>1 DEF PInv, Chained
      <4> QED BY <2>7, <2>10, <4>1, <4>2
    <3>2. Depth' - 1 = n - 2
      BY <2>n, <2>8
    <3> QED BY <3>1, <3>2, Zenon DEF Chained
  <2>13. Located'
    <3>1. 1 \in 1 .. n - 1 /\ calls # <<>>
      BY <1>0, <2>n
    <3> QED BY <2>10, <3>1 DEF PInv, Located
  <2>14. Placed'
    <3>1. init' = init /\ status' = "plan" /\ Done' = Done /\ Done = Passed(Place) \cap Places
      BY <1>p, <2>1 DEF Done, PInv, Placed
    <3>2. Passed(Append(c.at, q)) = Passed(Place)
      BY <1>p, <1>3, <2>c, Resumed
    <3>3. Place' = Append(c.at, q)
      BY <2>6, <2>8 DEF Place
    <3>4. Passed(Place)' = Passed(Append(c.at, q)) /\ Places' = Places
      BY <3>1, <3>3 DEF Passed, Places
    <3> QED BY <3>1, <3>2, <3>4 DEF Placed
  <2>15. Distinct'
    BY <2>1 DEF PInv, Distinct
  <2> QED BY <2>12, <2>13, <2>14, <2>15 DEF PInv
<1> QED BY <1>1, <1>2, <1>3

LEMMA BracedPlaced ==
    ASSUME IInv, PInv, Braced
    PROVE  PInv'
<1>1. Looping /\ Pos # 0 /\ Item.braces /\ Descend(Place, 1, TRUE)
  BY DEF Braced
<1>2. Place \in DOMAIN init /\ init \in Lists
  BY <1>1, ItemFacts
<1>3. Place \in Spots /\ Place \notin Places
  BY <1>1, <1>2 DEF Spots, Places, Item
<1>4. Passed(Append(Place, 1)) = Passed(Place) \cup {Place}
  BY <1>2, BracesPassed
<1>5. Passed(Append(Place, 1)) \cap Places = Passed(Place) \cap Places
  BY <1>3, <1>4
<1>6. 1 \in Nat \ {0} /\ TRUE \in BOOLEAN /\ Place = (IF TRUE THEN Place ELSE F.at)
  OBVIOUS
<1> QED BY <1>1, <1>3, <1>5, <1>6, DescendPlaced

LEMMA ElidedPlaced ==
    ASSUME IInv, PInv, Elided
    PROVE  PInv'
<1>1. CASE Designated
  BY <1>1, ErrorPlaced DEF Elided
<1>2. CASE ~Designated
  <2>1. Looping /\ Pos # 0 /\ Descend(F.at, F.k, FALSE)
    BY <1>2 DEF Elided
  <2>2. F.at \in Spots /\ F.k \in Nat \ {0} /\ FALSE \in BOOLEAN
    BY <2>1, ItemFacts
  <2>3. Passed(Append(F.at, F.k)) \cap Places = Passed(Place) \cap Places
    BY DEF Place
  <2>4. F.at = IF FALSE THEN Place ELSE F.at
    OBVIOUS
  <2> QED BY <2>1, <2>2, <2>3, <2>4, DescendPlaced
<1> QED BY <1>1, <1>2

LEMMA LeafPlaced ==
    ASSUME IInv, PInv, Leaf
    PROVE  PInv'
<1>1. Looping /\ Pos # 0
  BY DEF Leaf
<1>2. /\ Place \in DOMAIN init /\ init \in Lists /\ Place \in Path
      /\ Item.len \in Nat /\ Item.braces \in BOOLEAN
  BY <1>1, ItemFacts
<1>3. Under(Place, Place) /\ \A p \in Places : p \in DOMAIN init /\ ~init[p].braces
  BY DEF Under, Places
<1>4. CASE Error
  BY <1>4, ErrorPlaced
<1>5. CASE ~Item.braces /\ Put(Place)
  <2>1. Place \in Places
    BY <1>2, <1>5 DEF Places, Item
  <2>2. \A p \in Places : Under(p, Place) => p = Place
    BY <1>2, <1>3, <1>5, AloneUnder DEF Item
  <2> QED BY <1>1, <1>3, <1>5, <2>1, <2>2, PutPlaced
<1>6. CASE Single /\ Put(Only)
  <2>1. Item.len = 1 /\ ~init[Only].braces /\ Only = Append(Place, 1)
    BY <1>6 DEF Single, Only
  <2>2. Only \in DOMAIN init
    BY <1>2, <2>1, TreeFacts DEF Item
  <2>3. Only \in Places
    BY <2>1, <2>2 DEF Places
  <2>4. \A p \in Places : Under(p, Place) => p = Only
    BY <1>2, <1>3, <2>1, <2>2, OnlyUnder DEF Item
  <2>5. Under(Only, Place)
    <3>1. Only \in Path
      BY <1>2, <2>2, TreeFacts DEF Path
    <3>2. Under(Only, Append(Place, 1))
      BY <2>1 DEF Under
    <3> QED BY <1>2, <3>1, <3>2, UnderItem
  <2> QED BY <1>1, <1>6, <2>3, <2>4, <2>5, PutPlaced
<1> QED BY <1>4, <1>5, <1>6 DEF Leaf

LEMMA InitPlaced == Init /\ IInv => PInv
<1> SUFFICES ASSUME Init, IInv PROVE PInv
  OBVIOUS
<1> DEFINE f == Frame(type, 0, <<>>, 1, TRUE)
<1>1. calls = <<f>> /\ out = <<>> /\ status = "plan" /\ init \in Lists
  BY DEF Init
<1>2. f.at = <<>> /\ f.k = 1 /\ f.braced
  BY DEF Frame
<1> HIDE DEF f
<1>3. Depth = 1 /\ calls[1] = f /\ F = f /\ Len(out) = 0
  BY <1>1 DEF Depth, F
<1>4. Chained /\ Located
  <2>1. 1 .. Depth - 1 = {}
    BY <1>3
  <2> QED BY <1>2, <1>3, <2>1 DEF Chained, Located
<1>5. Done = {} /\ Distinct
  BY <1>3 DEF Done, Distinct
<1>6. Passed(Place) \cap Places = {}
  <2>1. <<>> \in DOMAIN init /\ init[<<>>].braces /\ Len(<<>>) = 0
    BY <1>1, TreeFacts DEF Spots
  <2>2. Passed(<<>>) = {}
    BY <2>1 DEF Passed, InFront
  <2>3. Passed(Place) = Passed(<<>>) \cup {<<>>}
    BY <1>1, <1>2, <1>3, <2>1, BracesPassed DEF Place
  <2> QED BY <2>1, <2>2, <2>3 DEF Places
<1>7. Placed
  BY <1>1, <1>5, <1>6 DEF Placed
<1> QED BY <1>4, <1>5, <1>7 DEF PInv

LEMMA NextPlaced == IInv /\ PInv /\ [Next]_vars => PInv'
<1> SUFFICES ASSUME IInv, PInv, [Next]_vars PROVE PInv'
  OBVIOUS
<1>1. CASE Return
  BY <1>1, ReturnPlaced
<1>2. CASE BadDesignator
  BY <1>2, ErrorPlaced DEF BadDesignator
<1>3. CASE Braced
  BY <1>3, BracedPlaced
<1>4. CASE Elided
  BY <1>4, ElidedPlaced
<1>5. CASE Leaf
  BY <1>5, LeafPlaced
<1>6. CASE UNCHANGED vars
  <2>1. UNCHANGED <<type, init, calls, out, status>>
    BY <1>6 DEF vars
  <2>2. Chained' /\ Located'
    BY <2>1 DEF PInv, Chained, Located, Depth
  <2>3. Place' = Place /\ Done' = Done
    BY <2>1 DEF Place, F, Depth, Done
  <2>4. Placed'
    BY <2>1, <2>3 DEF PInv, Placed, Passed, Places
  <2>5. Distinct'
    BY <2>1 DEF PInv, Distinct
  <2> QED BY <2>2, <2>4, <2>5 DEF PInv
<1> QED BY <1>1, <1>2, <1>3, <1>4, <1>5, <1>6 DEF Next

\* Distinct values of a list are as many as the list is long.
LEMMA Counted ==
    ASSUME Shape, Distinct
    PROVE  Len(out) = Cardinality(Done)
<1> DEFINE S == 1 .. Len(out)
           g == [x \in S |-> out[x].place]
<1>1. Len(out) \in Nat
  BY DEF Shape
<1>2. IsFiniteSet(S) /\ Cardinality(S) = Len(out)
  <2>1. 1 \in Int /\ Len(out) \in Int
    BY <1>1
  <2>2. IsFiniteSet(S) /\ Cardinality(S) = IF 1 > Len(out) THEN 0 ELSE Len(out) - 1 + 1
    BY <2>1, FS_Interval
  <2> QED BY <1>1, <2>2
<1>3. g \in Bijection(S, Done)
  <2>1. g \in [S -> Done]
    BY DEF Done
  <2>2. \A x, y \in S : g[x] = g[y] => x = y
    BY DEF Distinct
  <2>3. \A p \in Done : \E x \in S : g[x] = p
    BY DEF Done
  <2> HIDE DEF S, g
  <2> QED BY <2>1, <2>2, <2>3 DEF Bijection, Injection, Surjection, IsInjective
<1>4. ExistsBijection(S, Done)
  BY <1>3 DEF ExistsBijection
<1> QED BY <1>2, <1>4, FS_Bijection

\* An initialiser that is accepted is used up (EveryValuePlaced), for all
\* well-formed types and all lists: what is stored is, at every step, what lies
\* in front of the place where the innermost call of _plan is, each place once.
THEOREM AllPlaced == Spec => []EveryValuePlaced
<1>1. IInv /\ PInv => EveryValuePlaced
  <2> SUFFICES ASSUME IInv, PInv, status = "done"
               PROVE  /\ {out[i].place : i \in DOMAIN out} = Places
                      /\ Len(out) = Cardinality(Places)
    BY DEF EveryValuePlaced
  <2>1. DOMAIN out = 1 .. Len(out)
    BY DEF IInv, Shape
  <2>2. Done = Places /\ Len(out) = Cardinality(Done)
    BY Counted DEF IInv, PInv, Placed
  <2> QED BY <2>1, <2>2 DEF Done
<1>2. Init => IInv /\ PInv
  BY InitInv, InitPlaced
<1>3. IInv /\ PInv /\ [Next]_vars => (IInv /\ PInv)'
  BY NextInv, NextPlaced
<1> QED BY <1>1, <1>2, <1>3, PTL DEF Spec

--------------------------------------------------------------------------------
(* Planning does not loop.  A step passes an item of the initialiser, or it    *)
(* passes none and leaves less to do in the object: the parts of the calls,    *)
(* each of which costs at most "each" steps.                                  *)

\* No call has left its object by more than one part.
Bounded == status = "plan" => F.idx <= Len(F.ct.parts) + 1

\* A part is less work than any one part of what it is a part of; such numbers
\* exist if no type contains itself.
Measures(each) ==
    /\ each \in [Types -> Nat]
    /\ \A ct \in Types : \A i \in 1 .. Len(ct.parts) :
         Len(ct.parts[i].type.parts) * each[ct.parts[i].type] + 1 < each[ct]

\* The items of the initialiser, lists in braces included, not yet passed.
Unread == Cardinality(DOMAIN init \ Passed(Place))

\* The parts of a call, and of a caller when its callee has returned.
Room(f) == Len(f.ct.parts) + 1 - f.idx
Parts(each, f) == IF f.over THEN 0 ELSE Room(f) * each[f.ct]
Rest(each, f) == (Room(f) - 1) * each[f.ct] + 1
Total(g, n) ==
    LET sum[i \in 0 .. n] == IF i = 0 THEN 0 ELSE sum[i - 1] + g[i] IN sum[n]
Work(each) ==
    Total([d \in 1 .. Depth - 1 |-> Rest(each, calls[d])], Depth - 1) + Parts(each, F)

ToDo(each) == <<Unread, Work(each)>>
Lower(s, t) == \E i \in 1 .. 2 : s[i] < t[i] /\ \A j \in 1 .. i - 1 : s[j] = t[j]
Numbers(each) == status = "plan" => ToDo(each) \in Nat \X Nat

\* Every step of planning but the last leaves less to do.
Descent(each) ==
    [][/\ status = "plan"
       /\ status' = "plan" => /\ ToDo(each)' \in Nat \X Nat
                              /\ Lower(ToDo(each)', ToDo(each))]_vars

LEMMA LowerIs ==
    ASSUME NEW a \in Int, NEW b \in Int, NEW c \in Int, NEW d \in Int,
           a < c \/ (a = c /\ b < d)
    PROVE  Lower(<<a, b>>, <<c, d>>)
<1> DEFINE s == <<a, b>>
           t == <<c, d>>
<1>1. s[1] = a /\ s[2] = b /\ t[1] = c /\ t[2] = d
  OBVIOUS
<1> HIDE DEF s, t
<1>2. CASE a < c
  <2>1. s[1] < t[1] /\ \A j \in 1 .. 1 - 1 : s[j] = t[j]
    BY <1>1, <1>2
  <2> QED BY <2>1 DEF Lower, s, t
<1>3. CASE a = c /\ b < d
  <2>1. s[2] < t[2] /\ \A j \in 1 .. 2 - 1 : s[j] = t[j]
    BY <1>1, <1>3
  <2> QED BY <2>1 DEF Lower, s, t
<1> QED BY <1>2, <1>3

LEMMA Least ==
    ASSUME NEW S \in SUBSET Nat, S # {}
    PROVE  \E x \in S : \A y \in S : x <= y
<1> DEFINE R == OpToRel(<, Nat)
<1>1. IsWellFoundedOn(R, Nat)
  BY NatLessThanWellFounded
<1>2. \A x, y \in Nat : y < x => <<y, x>> \in R
  BY DEF OpToRel
<1> HIDE DEF R
<1>3. PICK x \in S : \A y \in S : ~ (<<y, x>> \in R)
  BY <1>1, WFMin
<1>4. \A y \in S : ~(y < x)
  BY <1>2, <1>3
<1> QED BY <1>4

\* The recursion of Total.
LEMMA SumExists ==
    ASSUME NEW g, NEW n \in Nat
    PROVE  \E e : e = [i \in 0 .. n |-> IF i = 0 THEN 0 ELSE e[i - 1] + g[i]]
<1> DEFINE Good(k) == \E e : e = [i \in 0 .. k |-> IF i = 0 THEN 0 ELSE e[i - 1] + g[i]]
           Bad == {k \in Nat : ~Good(k)}
<1>1. Good(0)
  <2> DEFINE e == [i \in 0 .. 0 |-> 0]
  <2>1. e = [i \in 0 .. 0 |-> IF i = 0 THEN 0 ELSE e[i - 1] + g[i]]
    OBVIOUS
  <2> QED BY <2>1
<1>2. ASSUME NEW k \in Nat, Good(k) PROVE Good(k + 1)
  <2>1. PICK e : e = [i \in 0 .. k |-> IF i = 0 THEN 0 ELSE e[i - 1] + g[i]]
    BY <1>2
  <2> DEFINE f == [i \in 0 .. k + 1 |-> IF i <= k THEN e[i] ELSE e[k] + g[k + 1]]
  <2>2. \A i \in 0 .. k + 1 : f[i] = IF i = 0 THEN 0 ELSE f[i - 1] + g[i]
    BY <2>1
  <2>3. f = [i \in 0 .. k + 1 |-> f[i]]
    OBVIOUS
  <2> HIDE DEF f
  <2>4. f = [i \in 0 .. k + 1 |-> IF i = 0 THEN 0 ELSE f[i - 1] + g[i]]
    BY <2>2, <2>3
  <2> QED BY <2>4
<1> HIDE DEF Good
<1>3. ASSUME Bad # {} PROVE FALSE
  <2>1. PICK k \in Bad : \A y \in Bad : k <= y
    BY <1>3, Least
  <2>2. k # 0 /\ k - 1 \in Nat
    BY <1>1
  <2>3. Good(k - 1)
    BY <2>1, <2>2
  <2>4. Good(k - 1 + 1)
    BY <1>2, <2>2, <2>3
  <2> QED BY <2>2, <2>4
<1>4. Good(n)
  BY <1>3
<1> QED BY <1>4 DEF Good

LEMMA TotalIs ==
    ASSUME NEW g, NEW n \in Nat
    PROVE  \E e : /\ Total(g, n) = e[n] /\ e[0] = 0
                  /\ \A i \in 1 .. n : e[i] = e[i - 1] + g[i]
<1> DEFINE e == CHOOSE e : e = [i \in 0 .. n |-> IF i = 0 THEN 0 ELSE e[i - 1] + g[i]]
<1>1. \E f : f = [i \in 0 .. n |-> IF i = 0 THEN 0 ELSE f[i - 1] + g[i]]
  BY SumExists
<1>2. e = [i \in 0 .. n |-> IF i = 0 THEN 0 ELSE e[i - 1] + g[i]]
  BY <1>1, Zenon
<1>3. Total(g, n) = e[n]
  BY DEF Total
<1> HIDE DEF e
<1>4. e[0] = 0 /\ \A i \in 1 .. n : e[i] = e[i - 1] + g[i]
  BY <1>2
<1> QED BY <1>3, <1>4

\* One more summand.
LEMMA TotalOn ==
    ASSUME NEW n \in Nat, NEW g, NEW h, \A i \in 1 .. n : g[i] \in Nat /\ h[i] = g[i],
           NEW m, m = n + 1
    PROVE  Total(g, n) \in Nat /\ Total(h, m) = Total(g, n) + h[m]
<1>1. PICK d : /\ Total(g, n) = d[n] /\ d[0] = 0
               /\ \A i \in 1 .. n : d[i] = d[i - 1] + g[i]
  BY TotalIs
<1>2. PICK e : /\ Total(h, m) = e[m] /\ e[0] = 0
               /\ \A i \in 1 .. m : e[i] = e[i - 1] + h[i]
  BY TotalIs
<1> DEFINE Bad == {i \in Nat : i <= n /\ ~(d[i] \in Nat /\ e[i] = d[i])}
<1>3. ASSUME Bad # {} PROVE FALSE
  <2>1. PICK k \in Bad : \A y \in Bad : k <= y
    BY <1>3, Least
  <2>2. k \in 1 .. n /\ k \in 1 .. m /\ k - 1 \in Nat /\ k - 1 <= n
    BY <1>1, <1>2
  <2>3. d[k - 1] \in Nat /\ e[k - 1] = d[k - 1]
    BY <2>1, <2>2
  <2> QED BY <1>1, <1>2, <2>2, <2>3
<1>4. d[n] \in Nat /\ e[n] = d[n]
  BY <1>3
<1>5. e[m] = e[n] + h[m]
  BY <1>2
<1> QED BY <1>1, <1>2, <1>4, <1>5

LEMMA RoomIs ==
    ASSUME NEW f, Len(f.ct.parts) \in Nat, f.idx \in Nat
    PROVE  /\ Room(f) = Len(f.ct.parts) + 1 - f.idx
           /\ Len(f.ct.parts) + 1 - (f.idx + 1) = Room(f) - 1
           /\ f.idx <= Len(f.ct.parts) => Room(f) - 1 \in Nat /\ Room(f) = Room(f) - 1 + 1
<1> DEFINE a == Len(f.ct.parts)
           b == f.idx
<1>1. a \in Nat /\ b \in Nat /\ Room(f) = a + 1 - b
  BY DEF Room
<1> HIDE DEF a, b
<1>2. a + 1 - (b + 1) = Room(f) - 1 /\ (b <= a => Room(f) - 1 \in Nat /\ Room(f) = Room(f) - 1 + 1)
  BY <1>1
<1> QED BY <1>1, <1>2 DEF a, b

LEMMA Products ==
    /\ \A a, b \in Nat : a * b \in Nat
    /\ \A a, b \in Nat : a > 0 => a * b = (a - 1) * b + b
OBVIOUS

LEMMA Costs ==
    ASSUME IInv, NEW each, Measures(each), NEW d \in 1 .. Depth
    PROVE  each[calls[d].ct] \in Nat /\ Len(calls[d].ct.parts) \in Nat
<1>1. calls[d].ct \in Types /\ WellFormed(calls[d].ct)
  BY CallFacts
<1> QED BY <1>1 DEF Measures, WellFormed

LEMMA RestIs ==
    ASSUME IInv, NEW each, Measures(each), NEW d \in 1 .. Depth - 1
    PROVE  Rest(each, calls[d]) \in Nat
<1>0. d \in 1 .. Depth
  BY DEF IInv, Shape, Depth
<1>1. calls[d].idx \in Nat \ {0} /\ calls[d].idx <= Len(calls[d].ct.parts)
  BY <1>0, CallFacts DEF IInv, Waiting
<1>2. each[calls[d].ct] \in Nat /\ Len(calls[d].ct.parts) \in Nat
  BY <1>0, Costs
<1>3. Room(calls[d]) - 1 \in Nat
  BY <1>1, <1>2 DEF Room
<1> QED BY <1>2, <1>3, Products DEF Rest

LEMMA PartsIs ==
    ASSUME IInv, Bounded, status = "plan", NEW each, Measures(each)
    PROVE  Parts(each, F) \in Nat /\ Room(F) \in Nat /\ each[F.ct] \in Nat
<1>1. Depth \in 1 .. Depth /\ F = calls[Depth]
  BY TopFacts
<1>2. each[F.ct] \in Nat /\ Len(F.ct.parts) \in Nat
  BY <1>1, Costs
<1>3. F.idx \in Nat \ {0}
  BY <1>1, CallFacts
<1>4. Room(F) \in Nat
  BY <1>2, <1>3 DEF Bounded, Room
<1>5. Room(F) * each[F.ct] \in Nat
  BY <1>2, <1>4, Products
<1> QED BY <1>2, <1>4, <1>5 DEF Parts

\* The items not yet passed, after a step.
LEMMA UnreadIs ==
    ASSUME init \in Lists, NEW q
    PROVE  /\ Cardinality(DOMAIN init \ Passed(q)) \in Nat
           /\ Unread \in Nat
           /\ init' = init /\ Place' = q => Unread' = Cardinality(DOMAIN init \ Passed(q))
<1>1. IsFiniteSet(DOMAIN init)
  BY TreeFacts
<1>2. \A S : IsFiniteSet(DOMAIN init \ S) /\ Cardinality(DOMAIN init \ S) \in Nat
  BY <1>1, FS_Difference, FS_CardinalityType
<1>3. ASSUME init' = init, Place' = q PROVE Unread' = Cardinality(DOMAIN init \ Passed(q))
  BY <1>3 DEF Unread, Passed
<1> QED BY <1>2, <1>3 DEF Unread

\* One that has passed the item at Place leaves fewer of them.
LEMMA PassedFewer ==
    ASSUME init \in Lists, NEW q, Passed(Place) \subseteq Passed(q), Place \in Passed(q),
           Place \in DOMAIN init, Place \notin Passed(Place), init' = init, Place' = q
    PROVE  Unread' < Unread
<1> DEFINE S == DOMAIN init \ Passed(Place)
           T == DOMAIN init \ Passed(q)
<1>1. IsFiniteSet(S)
  BY TreeFacts, FS_Difference
<1>2. T \subseteq S /\ T # S
  OBVIOUS
<1> HIDE DEF S, T
<1>3. Cardinality(T) < Cardinality(S)
  BY <1>1, <1>2, FS_Subset, FS_CardinalityType
<1> QED BY <1>3, UnreadIs DEF S, T, Unread

LEMMA NumbersHold ==
    ASSUME IInv, Bounded, NEW each, Measures(each)
    PROVE  Numbers(each)
<1> SUFFICES ASSUME status = "plan" PROVE ToDo(each) \in Nat \X Nat
  BY DEF Numbers
<1>1. Unread \in Nat
  BY UnreadIs DEF IInv, Shape
<1>2. Parts(each, F) \in Nat
  BY PartsIs
<1> DEFINE g == [d \in 1 .. Depth - 1 |-> Rest(each, calls[d])]
<1>3. Depth - 1 \in Nat
  BY TopFacts
<1>4. \A d \in 1 .. Depth - 1 : g[d] \in Nat /\ g[d] = g[d]
  BY RestIs
<1> HIDE DEF g
<1>5. Total(g, Depth - 1) \in Nat
  BY <1>3, <1>4, TotalOn
<1>6. Work(each) \in Nat
  BY <1>2, <1>5 DEF Work, g
<1> QED BY <1>1, <1>6 DEF ToDo

\* The calls after a call of _plan and after a return, as far as the work goes.
LEMMA Descended ==
    ASSUME IInv, Looping, Pos # 0, NEW at \in Spots,
           NEW k \in Nat \ {0}, NEW braced \in BOOLEAN,
           Descend(at, k, braced)
    PROVE  /\ F'.at = at /\ F'.k = k /\ F'.ct = Part.type /\ F'.idx = 1
           /\ ~F'.over
           /\ init' = init /\ status' = "plan" /\ Depth' = Depth + 1
           /\ \A d \in 1 .. Depth - 1 : calls'[d] = calls[d]
           /\ calls'[Depth].ct = F.ct /\ calls'[Depth].idx = Pos
<1> DEFINE n == Depth
           f == [calls[n] EXCEPT !.idx = Pos]
           g == Frame(Part.type, At, at, k, braced)
<1>0. n \in Nat /\ n > 0 /\ n \in 1 .. n /\ F = calls[n] /\ n = Len(calls) /\ calls \in Seq(Call)
  BY TopFacts DEF Looping, Depth, IInv, Shape
<1>a. calls[n] \in Call /\ WellFormed(F.ct)
  BY <1>0, CallFacts
<1>b. Pos \in Nat \ {0} /\ Part.type \in Types /\ At \in Nat
  BY <1>a, PartFacts DEF WellFormed
<1>1. f \in Call /\ f.idx = Pos /\ f.ct = F.ct
  BY <1>0, <1>a, <1>b DEF Call
<1>2. /\ g \in Call /\ g.at = at /\ g.k = k /\ g.ct = Part.type /\ g.idx = 1
      /\ ~g.over
  BY <1>b DEF Frame, Call
<1>3. /\ calls' = Append([calls EXCEPT ![n] = f], g)
      /\ UNCHANGED <<type, init, out, status>> /\ status = "plan"
  BY <1>0, <1>a DEF Descend, Call, Looping
<1> HIDE DEF n, f, g
<1>4. /\ calls' \in Seq(Call) /\ Len(calls') = n + 1
      /\ \A d \in 1 .. n - 1 : calls'[d] = calls[d]
      /\ calls'[n] = f /\ calls'[n + 1] = g
  BY <1>0, <1>1, <1>2, <1>3
<1>5. Depth = n /\ Depth' = n + 1 /\ F' = g
  BY <1>0, <1>4 DEF Depth, F
<1> QED BY <1>1, <1>2, <1>3, <1>4, <1>5

Caller == calls[Depth - 1]

LEMMA ReturnedTo ==
    ASSUME IInv, Return, ~Excess(F), Depth # 1
    PROVE  /\ F'.at = Caller.at /\ F'.ct = Caller.ct
           /\ F'.idx = Caller.idx + 1 /\ F'.k = (IF F.braced THEN Caller.k + 1 ELSE F.k)
           /\ init' = init /\ status' = "plan" /\ Depth' = Depth - 1
           /\ \A d \in 1 .. Depth - 2 : calls'[d] = calls[d]
<1> DEFINE n == Depth
           c == calls[n - 1]
           q == IF F.braced THEN c.k + 1 ELSE F.k
           f == Advance(c, c.idx, q)
<1>p. status = "plan"
  BY DEF Return
<1>0. n \in Nat /\ n > 0 /\ n \in 1 .. n /\ F = calls[n] /\ n = Len(calls) /\ calls \in Seq(Call)
  BY <1>p, TopFacts DEF Depth, IInv, Shape
<1>1. calls' = Append(SubSeq(calls, 1, n - 2), f) /\ UNCHANGED <<type, init, out, status>>
  BY DEF Return, Resume
<1>2. n - 1 \in 1 .. n /\ n - 1 \in 1 .. Depth /\ n - 2 \in Nat
  BY <1>0
<1>3. c \in Call /\ c.k \in Nat \ {0} /\ c.idx \in Nat \ {0}
  BY <1>2, CallFacts
<1>4. F.k \in Nat \ {0}
  BY <1>0, CallFacts
<1>5. q \in Nat \ {0}
  BY <1>3, <1>4
<1>n. n \in Nat /\ n > 1
  BY <1>0
<1>m. n = Depth
  OBVIOUS
<1>q. q = (IF F.braced THEN c.k + 1 ELSE F.k) /\ c = Caller
  BY DEF Caller
<1> HIDE DEF n, c, q
<1>6. /\ f \in Call /\ f.at = c.at /\ f.ct = c.ct /\ f.k = q
      /\ f.idx = c.idx + 1
  <2>1. f = Advance(c, c.idx, q) /\ c.idx \in Nat
    BY <1>3
  <2> HIDE DEF f
  <2>2. /\ Advance(c, c.idx, q) \in Call
        /\ Advance(c, c.idx, q).idx = c.idx + 1 /\ Advance(c, c.idx, q).k = q
        /\ Advance(c, c.idx, q).ct = c.ct /\ Advance(c, c.idx, q).base = c.base
        /\ Advance(c, c.idx, q).braced = c.braced
        /\ Advance(c, c.idx, q).at = c.at
        /\ Advance(c, c.idx, q).over <=> c.ct.kind = "union"
    BY <1>3, <1>5, <2>1, AdvanceFacts, Zenon
  <2> QED BY <2>1, <2>2, Zenon
<1> HIDE DEF f
<1>7. /\ Len(calls') = n - 1 /\ calls'[n - 1] = f
      /\ \A d \in 1 .. n - 2 : calls'[d] = calls[d]
  <2> DEFINE r == SubSeq(calls, 1, n - 2)
  <2>1. r \in Seq(Call) /\ Len(r) = n - 2 /\ \A d \in 1 .. n - 2 : r[d] = calls[d]
    BY <1>0, <1>n, <1>2
  <2>2. calls' = Append(r, f)
    BY <1>1
  <2> HIDE DEF r
  <2> QED BY <1>2, <1>n, <1>6, <2>1, <2>2
<1>8. Depth' = n - 1 /\ F' = f
  BY <1>7, <1>n DEF Depth, F
<1> QED BY <1>1, <1>m, <1>p, <1>q, <1>6, <1>7, <1>8
LEMMA Falls ==
    ASSUME NEW each, status = "plan", status' = "plan", Numbers(each), Numbers(each)',
           Unread' < Unread \/ (Unread' = Unread /\ Work(each)' < Work(each))
    PROVE  Lower(ToDo(each)', ToDo(each))
<1>0. \A a, b : <<a, b>> \in Nat \X Nat => a \in Int /\ b \in Int
  OBVIOUS
<1>1. Unread \in Int /\ Work(each) \in Int
  BY <1>0 DEF Numbers, ToDo
<1>2. Unread' \in Int /\ Work(each)' \in Int
  BY <1>0 DEF Numbers, ToDo
<1>3. ToDo(each)' = <<Unread', Work(each)'>>
  BY DEF ToDo
<1> QED BY <1>1, <1>2, <1>3, LowerIs DEF ToDo

\* A list in braces is passed when its braces are entered.
LEMMA BracedFalls ==
    ASSUME IInv, PInv, Bounded, Braced
    PROVE  status' = "plan" /\ Bounded' /\ Unread' < Unread
<1>1. Looping /\ Pos # 0 /\ Item.braces /\ Descend(Place, 1, TRUE)
  BY DEF Braced
<1>2. Place \in DOMAIN init /\ init \in Lists /\ Place \notin Passed(Place)
  BY <1>1, ItemFacts
<1>3. Place \in Spots /\ 1 \in Nat \ {0} /\ TRUE \in BOOLEAN
  BY <1>1, <1>2 DEF Spots, Item
<1>4. /\ F'.at = Place /\ F'.k = 1 /\ F'.ct = Part.type /\ F'.idx = 1
      /\ init' = init /\ status' = "plan"
  BY <1>1, <1>3, Descended
<1>5. Bounded'
  <2>1. Len(Part.type.parts) \in Nat
    BY <1>1, PartFacts DEF WellFormed
  <2>2. F'.idx <= Len(F'.ct.parts) + 1
    BY <1>4, <2>1
  <2> QED BY <2>2 DEF Bounded
<1>6. Passed(Append(Place, 1)) = Passed(Place) \cup {Place}
  BY <1>2, BracesPassed
<1>7. Place' = Append(Place, 1)
  BY <1>4 DEF Place
<1>8. Unread' < Unread
  BY <1>2, <1>4, <1>6, <1>7, PassedFewer
<1> QED BY <1>4, <1>5, <1>8

\* The same place, read by the callee.
LEMMA ElidedFalls ==
    ASSUME IInv, PInv, Bounded, NEW each, Measures(each), Elided, status' = "plan"
    PROVE  /\ Bounded'
           /\ Unread' = Unread /\ Work(each)' < Work(each)
<1> DEFINE n == Depth
<1>1. /\ Looping /\ Pos # 0 /\ ~Designated /\ Descend(F.at, F.k, FALSE)
      /\ status = "plan"
  BY DEF Elided, Looping, Error
<1>2. F = calls[n] /\ n \in 1 .. n /\ n \in Nat /\ n - 1 \in Nat /\ n = Depth
  BY <1>1, TopFacts
<1>3. F \in Call /\ F.k \in Nat \ {0} /\ F.k \in Nat /\ F.idx \in Nat \ {0}
  BY <1>2, CallFacts
<1>4. F.at \in Spots /\ FALSE \in BOOLEAN
  BY <1>3 DEF Call
<1>5. /\ F'.at = F.at /\ F'.k = F.k /\ F'.ct = Part.type /\ F'.idx = 1
      /\ ~F'.over
      /\ init' = init /\ Depth' = n + 1
      /\ \A d \in 1 .. n - 1 : calls'[d] = calls[d]
      /\ calls'[n].ct = F.ct /\ calls'[n].idx = Pos
  BY <1>1, <1>3, <1>4, Descended
<1>6. Unread' = Unread
  BY <1>5 DEF Unread, Place, Passed
<1>7. /\ Pos = F.idx /\ F.idx \in 1 .. Len(F.ct.parts) /\ ~F.over
      /\ Part = F.ct.parts[F.idx]
      /\ Part.type \in Types /\ Len(Part.type.parts) \in Nat /\ Len(F.ct.parts) \in Nat
  <2>1. Pos = F.idx
    BY <1>1 DEF Pos
  <2>2. WellFormed(F.ct)
    BY <1>2, CallFacts
  <2>3. /\ Pos \in 1 .. Len(F.ct.parts) /\ ~F.over
        /\ Part.type \in Types /\ WellFormed(Part.type)
    BY <1>1, PartFacts
  <2>4. Part = F.ct.parts[F.idx]
    BY <2>1 DEF Part
  <2>5. Len(Part.type.parts) \in Nat /\ Len(F.ct.parts) \in Nat
    BY <2>2, <2>3 DEF WellFormed
  <2> QED BY <2>1, <2>3, <2>4, <2>5
<1>8. Bounded'
  <2>0. \A a \in Nat : 1 <= a + 1
    OBVIOUS
  <2>1. F'.idx <= Len(F'.ct.parts) + 1
    BY <1>5, <1>7, <2>0, Zenon
  <2> QED BY <2>1 DEF Bounded
<1> DEFINE g == [d \in 1 .. n - 1 |-> Rest(each, calls[d])]
           h == [d \in 1 .. n |-> Rest(each, calls'[d])]
           r == Room(F) - 1
           e == each[F.ct]
           m == Len(Part.type.parts) * each[Part.type]
<1>9. \A d \in 1 .. n - 1 : g[d] \in Nat /\ h[d] = g[d]
  <2>1. \A d \in 1 .. n - 1 : g[d] = Rest(each, calls[d])
    OBVIOUS
  <2>2. \A d \in 1 .. n - 1 : d \in 1 .. n
    BY <1>2
  <2>3. \A d \in 1 .. n - 1 : h[d] = Rest(each, calls'[d])
    BY <2>2
  <2> HIDE DEF g, h
  <2>4. \A d \in 1 .. n - 1 : Rest(each, calls[d]) \in Nat
    BY <1>2, RestIs
  <2> QED BY <1>5, <2>1, <2>3, <2>4
<1>10. r \in Nat /\ Room(F) = r + 1 /\ e \in Nat /\ m \in Nat /\ m + 1 < e
  <2>1. F.ct \in Types
    BY <1>2, CallFacts
  <2>2. each[F.ct] \in Nat /\ each[Part.type] \in Nat
    BY <1>7, <2>1 DEF Measures
  <2>3. m + 1 < e
    BY <1>7, <2>1 DEF Measures
  <2>4. m \in Nat
    BY <1>7, <2>2, Products
  <2>5. r \in Nat /\ Room(F) = r + 1
    <3>1. F.idx \in Nat /\ F.idx <= Len(F.ct.parts)
      BY <1>7
    <3> QED BY <1>7, <3>1, RoomIs, Zenon
  <2> QED BY <2>2, <2>3, <2>4, <2>5
<1>11. h[n] = r * e + 1
  <2>1. h[n] = Rest(each, calls'[n])
    BY <1>2
  <2>2. Room(calls'[n]) = Room(F)
    BY <1>5, <1>7 DEF Room
  <2> QED BY <1>5, <2>1, <2>2 DEF Rest
<1>12. Work(each) = Total(g, n - 1) + (r + 1) * e
  BY <1>7, <1>10 DEF Work, Parts
<1>13. Work(each)' = Total(h, n) + m
  <2>1. Depth' - 1 = n
    BY <1>2, <1>5
  <2>2. Room(F)' = Len(Part.type.parts)
    BY <1>5, <1>7 DEF Room
  <2>3. Parts(each, F)' = m
    BY <1>5, <2>2 DEF Parts
  <2> QED BY <2>1, <2>3 DEF Work
<1> HIDE DEF n, g, h, r, e, m
<1>14. Total(g, n - 1) \in Nat /\ Total(h, n) = Total(g, n - 1) + h[n]
  <2>1. n = n - 1 + 1
    BY <1>2
  <2> QED BY <1>2, <1>9, <2>1, TotalOn
<1>15. r * e \in Nat /\ (r + 1) * e = r * e + e
  BY <1>10, Products
<1>16. Work(each)' < Work(each)
  BY <1>10, <1>11, <1>12, <1>13, <1>14, <1>15
<1> QED BY <1>6, <1>8, <1>16

\* The item taken, and all in its braces, is passed.
LEMMA LeafFalls ==
    ASSUME IInv, PInv, Bounded, Leaf, status' = "plan"
    PROVE  Bounded' /\ Unread' < Unread
<1> DEFINE n == Depth
           f == Advance(F, Pos, F.k + 1)
<1>1. Looping /\ Pos # 0
  BY DEF Leaf
<1>2. /\ F = calls[n] /\ n \in 1 .. n /\ n \in Nat /\ n = Depth
      /\ calls \in Seq(Call) /\ Len(calls) = n
  BY <1>1, TopFacts DEF IInv, Shape, Depth, Looping
<1>3. F \in Call /\ F.k \in Nat \ {0}
  BY <1>2, CallFacts
<1>4. calls' = [calls EXCEPT ![n] = f] /\ init' = init
  BY <1>1 DEF Leaf, Put, Error, Looping
<1>5. Pos \in 1 .. Len(F.ct.parts) /\ Pos \in Nat
  BY <1>1, PartFacts
<1>6. f \in Call /\ f.at = F.at /\ f.ct = F.ct /\ f.k = F.k + 1 /\ f.idx = Pos + 1
  <2>1. F.k + 1 \in Nat \ {0} /\ f = Advance(F, Pos, F.k + 1)
    BY <1>3
  <2> HIDE DEF f
  <2>2. /\ Advance(F, Pos, F.k + 1) \in Call
        /\ Advance(F, Pos, F.k + 1).idx = Pos + 1 /\ Advance(F, Pos, F.k + 1).k = F.k + 1
        /\ Advance(F, Pos, F.k + 1).ct = F.ct /\ Advance(F, Pos, F.k + 1).base = F.base
        /\ Advance(F, Pos, F.k + 1).braced = F.braced
        /\ Advance(F, Pos, F.k + 1).at = F.at
        /\ Advance(F, Pos, F.k + 1).over <=> F.ct.kind = "union"
    BY <1>3, <1>5, <2>1, AdvanceFacts, Zenon
  <2> QED BY <2>1, <2>2, Zenon
<1> HIDE DEF n, f
<1>7. F' = f
  <2>1. Len(calls') = n /\ calls'[n] = f
    BY <1>2, <1>4, <1>6
  <2> QED BY <2>1 DEF F, Depth
<1>8. Bounded'
  <2>1. F'.idx <= Len(F'.ct.parts) + 1
    BY <1>5, <1>6, <1>7
  <2> QED BY <2>1 DEF Bounded
<1>9. /\ Place \in DOMAIN init /\ init \in Lists /\ Place \notin Passed(Place)
      /\ Passed(Append(F.at, F.k + 1)) = Passed(Place) \cup {p \in DOMAIN init : Under(p, Place)}
  BY <1>1, ItemFacts
<1>10. Under(Place, Place)
  BY <1>1, ItemFacts DEF Under, Path
<1>11. Place' = Append(F.at, F.k + 1)
  BY <1>6, <1>7 DEF Place
<1>12. Unread' < Unread
  BY <1>4, <1>9, <1>10, <1>11, PassedFewer
<1> QED BY <1>8, <1>12

\* Back in the list of the caller at the same place, with less of the object.
LEMMA ReturnFalls ==
    ASSUME IInv, PInv, Bounded, NEW each, Measures(each), Return, status' = "plan"
    PROVE  /\ Bounded'
           /\ Unread' = Unread /\ Work(each)' < Work(each)
<1> DEFINE n == Depth
           c == Caller
<1>1. status = "plan" /\ ~Excess(F) /\ n # 1
  BY DEF Return, Error
<1>2. F = calls[n] /\ n \in 1 .. n /\ n \in Nat /\ n > 1 /\ n - 1 \in Nat /\ n = Depth
  BY <1>1, TopFacts
<1>4. n - 1 \in 1 .. n - 1 /\ n - 1 \in 1 .. n /\ n - 1 + 1 = n /\ c = calls[n - 1]
  BY <1>2 DEF Caller
<1>5. /\ F'.at = c.at /\ F'.ct = c.ct /\ F'.idx = c.idx + 1
      /\ F'.k = (IF F.braced THEN c.k + 1 ELSE F.k)
      /\ init' = init /\ Depth' = n - 1
      /\ \A d \in 1 .. n - 2 : calls'[d] = calls[d]
  BY <1>1, ReturnedTo
<1>6. c.k \in Nat \ {0} /\ c.idx \in Nat \ {0}
  BY <1>4, CallFacts
<1>7. c.idx <= Len(c.ct.parts) /\ Len(c.ct.parts) \in Nat
  <2>1. WellFormed(c.ct)
    BY <1>4, CallFacts
  <2>2. calls[n - 1].idx <= Len(calls[n - 1].ct.parts)
    BY <1>4 DEF IInv, Waiting
  <2> QED BY <1>4, <2>1, <2>2 DEF WellFormed
<1>8. Passed(Append(c.at, F'.k)) = Passed(Place)
  <2>1. c = calls[Depth - 1] /\ status = "plan" /\ LoopOver /\ Depth # 1
    BY <1>1, <1>4 DEF Return
  <2>2. F'.k = IF F.braced THEN c.k + 1 ELSE F.k
    BY <1>5
  <2> QED BY <1>1, <2>1, <2>2, Resumed
<1> HIDE DEF c
<1>10. Bounded'
  <2>1. F'.idx <= Len(F'.ct.parts) + 1
    BY <1>5, <1>6, <1>7
  <2> QED BY <2>1 DEF Bounded
<1>11. Unread' = Unread
  <2>1. Place' = Append(c.at, F'.k)
    BY <1>5 DEF Place
  <2>2. init \in Lists
    BY DEF IInv, Shape
  <2> QED BY <1>5, <1>8, <2>1, <2>2, UnreadIs DEF Unread
<1>12. Work(each)' < Work(each)
  <2> DEFINE m == n - 1
             g == [d \in 1 .. m - 1 |-> Rest(each, calls'[d])]
             h == [d \in 1 .. m |-> Rest(each, calls[d])]
             r == Room(c) - 1
             e == each[c.ct]
  <2>3. m \in Nat /\ m - 1 \in Nat /\ m = m - 1 + 1 /\ m \in 1 .. m /\ m - 1 = n - 2
    BY <1>2
  <2>4. \A d \in 1 .. m - 1 : g[d] \in Nat /\ h[d] = g[d]
    <3>1. \A d \in 1 .. m - 1 : g[d] = Rest(each, calls'[d])
      OBVIOUS
    <3>2. \A d \in 1 .. m - 1 : d \in 1 .. m
      BY <2>3
    <3>3. \A d \in 1 .. m - 1 : h[d] = Rest(each, calls[d])
      BY <3>2
    <3>4. \A d \in 1 .. m : Rest(each, calls[d]) \in Nat
      BY <1>2, RestIs
    <3> HIDE DEF g, h
    <3> QED BY <1>5, <2>3, <3>1, <3>2, <3>3, <3>4
  <2>5. r \in Nat /\ e \in Nat /\ r * e \in Nat
    <3>1. c.ct \in Types
      BY <1>4, CallFacts
    <3>2. e \in Nat
      BY <3>1 DEF Measures
    <3>3. r \in Nat
      <4>1. c.idx \in Nat
        BY <1>6
      <4> QED BY <1>7, <4>1, RoomIs, Zenon
    <3> QED BY <3>2, <3>3, Products
  <2>6. h[m] = r * e + 1
    <3>1. h[m] = Rest(each, c)
      BY <1>4, <2>3
    <3> QED BY <3>1 DEF Rest
  <2>7. Work(each) = Total(h, m) + Parts(each, F)
    BY DEF Work
  <2>8. Work(each)' = Total(g, m - 1) + Parts(each, F)'
    <3>1. Depth' - 1 = m - 1
      BY <1>5
    <3> QED BY <3>1 DEF Work
  <2>9. Parts(each, F)' \in {0, r * e}
    <3>0. Room(F)' = Len(c.ct.parts) + 1 - (c.idx + 1)
      BY <1>5 DEF Room
    <3>2. Len(c.ct.parts) + 1 - (c.idx + 1) = Room(c) - 1
      <4>1. c.idx \in Nat
        BY <1>6
      <4> QED BY <1>7, <4>1, RoomIs, Zenon
    <3>1. Room(F)' = r
      BY <3>0, <3>2
    <3> QED BY <1>5, <3>1 DEF Parts
  <2>10. Parts(each, F) \in Nat
    BY <1>1, PartsIs
  <2> HIDE DEF m, g, h, r, e
  <2>11. Total(g, m - 1) \in Nat /\ Total(h, m) = Total(g, m - 1) + h[m]
    BY <2>3, <2>4, TotalOn
  <2> QED BY <2>5, <2>6, <2>7, <2>8, <2>9, <2>10, <2>11
<1> QED BY <1>10, <1>11, <1>12

\* _plan cannot go on for ever, although a designator moves the part index
\* backwards: items are passed in their order, and a step that passes none
\* leaves fewer parts to fill.  For all lists, of any length and nesting, and for
\* all types none of which contains itself (which is what Measures asks for).
THEOREM PlanDescends ==
    ASSUME NEW each, Measures(each)
    PROVE  Spec => Descent(each)
<1> DEFINE P == IInv /\ PInv /\ Bounded
           Step == /\ status = "plan"
                   /\ status' = "plan" => /\ ToDo(each)' \in Nat \X Nat
                                          /\ Lower(ToDo(each)', ToDo(each))
<1>1. Init => P
  <2> SUFFICES ASSUME Init PROVE P
    OBVIOUS
  <2>1. IInv /\ PInv
    BY InitInv, InitPlaced
  <2>2. F = Frame(type, 0, <<>>, 1, TRUE)
    BY DEF Init, F, Depth
  <2>3. F.idx = 1 /\ F.ct = type
    BY <2>2 DEF Frame
  <2>4. Len(type.parts) \in Nat
    BY <2>1, TypesAssumption DEF IInv, Shape, WellFormed
  <2>5. Bounded
    BY <2>3, <2>4 DEF Bounded
  <2> QED BY <2>1, <2>5
<1>2. ASSUME P, [Next]_vars PROVE P' /\ (Numbers(each) /\ Numbers(each)' => [Step]_vars)
  <2>1. (IInv /\ PInv)'
    BY <1>2, NextInv, NextPlaced
  <2>2. CASE UNCHANGED vars
    <3>1. UNCHANGED <<type, init, calls, out, status>>
      BY <2>2 DEF vars
    <3>2. Bounded'
      BY <1>2, <3>1 DEF Bounded, F, Depth
    <3> QED BY <2>1, <2>2, <3>2
  <2>3. CASE Next /\ status' # "plan"
    <3>1. status = "plan"
      BY <2>3 DEF Next, Return, BadDesignator, Braced, Elided, Leaf, Looping
    <3>2. Bounded'
      BY <2>3 DEF Bounded
    <3> QED BY <2>1, <2>3, <3>1, <3>2
  <2>4. CASE Next /\ status' = "plan"
    <3>1. status = "plan"
      BY <2>4 DEF Next, Return, BadDesignator, Braced, Elided, Leaf, Looping
    <3>2. /\ Bounded'
          /\ Unread' < Unread \/ (Unread' = Unread /\ Work(each)' < Work(each))
      <4>1. CASE Return
        BY <1>2, <2>4, <4>1, ReturnFalls
      <4>2. CASE BadDesignator
        BY <2>4, <4>2 DEF BadDesignator, Error
      <4>3. CASE Braced
        BY <1>2, <4>3, BracedFalls
      <4>4. CASE Elided
        BY <1>2, <2>4, <4>4, ElidedFalls
      <4>5. CASE Leaf
        BY <1>2, <2>4, <4>5, LeafFalls
      <4> QED BY <2>4, <4>1, <4>2, <4>3, <4>4, <4>5 DEF Next
    <3>3. ASSUME Numbers(each), Numbers(each)'
          PROVE  ToDo(each)' \in Nat \X Nat /\ Lower(ToDo(each)', ToDo(each))
      <4>1. Lower(ToDo(each)', ToDo(each))
        BY <2>4, <3>1, <3>2, <3>3, Falls
      <4> QED BY <2>4, <3>3, <4>1 DEF Numbers
    <3> QED BY <2>1, <3>1, <3>2, <3>3
  <2> QED BY <1>2, <2>2, <2>3, <2>4
<1>3. P => Numbers(each)
  BY NumbersHold
<1> HIDE DEF P, Step
<1>4. Spec => [][Step]_vars
  BY <1>1, <1>2, <1>3, PTL DEF Spec
<1> QED BY <1>4 DEF Descent, Step
================================================================================
