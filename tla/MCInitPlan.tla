------------------------------- MODULE MCInitPlan -------------------------------
EXTENDS InitPlan, TLC

CONSTANTS MaxItems,    \* bound: items of the outer list
          Designators  \* designators that occur

Pair == StructOf(<<"x", "y">>, <<Scalar, Scalar>>)
MCObjects == {
    Pair,
    StructOf(<<"i", "x">>, <<Pair, Scalar>>),
    ArrayOf(ArrayOf(ArrayOf(Scalar, 2), 1), 2),
    StructOf(<<"z", "i">>, <<Scalar, ArrayOf(Pair, 1)>>),
    StructOf(<<"i", "x">>, <<UnionOf(<<"x", "p">>, <<Scalar, Pair>>), Scalar>>),
    StructOf(<<"e", "x">>, <<ArrayOf(Scalar, 0), Scalar>>) }

\* Types nest at most three deep.
PartTypes(S) == UNION {{ct.parts[i].type : i \in DOMAIN ct.parts} : ct \in S}
MCTypes ==
    LET parts == PartTypes(MCObjects)
        inner == PartTypes(parts)
    IN  MCObjects \cup parts \cup inner \cup PartTypes(inner)

MCDesignators == {NoDesig, <<"field", "x">>, <<"field", "i">>, <<"index", 1>>}

\* Lists, built from their items: each is the tree of that item alone.
Expr == <<>> :> [desig |-> NoDesig, braces |-> FALSE, len |-> 0]
Braces(items) ==
    (<<>> :> [desig |-> NoDesig, braces |-> TRUE, len |-> Len(items)])
    @@ [p \in UNION {{<<i>> \o q : q \in DOMAIN items[i]} : i \in DOMAIN items} |->
          items[Head(p)][Tail(p)]]
Named(d, item) == [item EXCEPT ![<<>>].desig = d]

X == <<"field", "x">>
Y == <<"field", "y">>
Inner == {
    Braces(<<>>), Braces(<<Expr>>), Braces(<<Expr, Expr>>),
    Braces(<<Braces(<<>>), Expr>>),
    Braces(<<Named(Y, Expr), Named(X, Expr)>>),
    Braces(<<Braces(<<Expr, Braces(<<Expr>>)>>)>>),
    Braces(<<Braces(<<Braces(<<Braces(<<>>)>>)>>), Expr>>) }
MCItems == {Named(d, v) : d \in Designators, v \in Inner \cup {Expr}}
MCLists == {Braces(items) : items \in UNION {[1 .. n -> MCItems] : n \in 0 .. MaxItems}}
================================================================================
