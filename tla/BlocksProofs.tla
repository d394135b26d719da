------------------------------ MODULE BlocksProofs ------------------------------
(***************************************************************************)
(* The analysis of a program is exact, and its C text says what the program   *)
(* says, for every text.  Both are walks over the op lists of a body: an       *)
(* activation has passed the ops in front of a position (Past), so what is     *)
(* known of the ops passed is known of all at the end (VisitAll).  For the     *)
(* text, the braces open are those of the activations (Stacked), and the       *)
(* statements and case labels so far are those of the ops and case groups      *)
(* passed, each where the text of the program has it (Faithful).               *)
(***************************************************************************)
EXTENDS Blocks, ParserProofs

--------------------------------------------------------------------------------
(* Nothing was ever in a part of an op that the op does not have.              *)

PartsKept ==
    status # "error" =>
        \A j \in 1 .. Here :
            /\ Around(j)[1].kind = "main"
            /\ \A i \in 2 .. Len(Around(j)) :
                 Around(j)[i].at \in DOMAIN ops =>
                     Around(j)[i].part <= Len(ops[Around(j)[i].at].subs)

LEMMA OpenEntries ==
    PInv /\ status = "parsing" =>
        \A m \in 2 .. Len(Around(Here)) : Around(Here)[m].at \notin DOMAIN ops
<1> SUFFICES ASSUME PInv, status = "parsing", NEW m \in 2 .. Len(Around(Here))
             PROVE  Around(Here)[m].at \notin DOMAIN ops
  OBVIOUS
<1>1. /\ Len(Around(Here)) = Len(open) /\ Len(open) \in Nat
      /\ \A i \in 1 .. Len(open) :
           Around(Here)[i] = Entry(open[i].kind, open[i].at, Len(open[i].lists))
  BY AtTop, OpenFacts
<1>2. m \in 1 .. Len(open)
  BY <1>1
<1>3. Around(Here)[m] = Entry(open[m].kind, open[m].at, Len(open[m].lists))
  BY <1>1, <1>2
<1>4. Around(Here)[m].at = open[m].at
  BY <1>3 DEF Entry
<1> QED BY <1>2, <1>4, UnfinishedFacts

LEMMA OpenMain == PInv /\ status # "error" => Around(Here)[1].kind = "main"
<1> SUFFICES ASSUME PInv, status # "error" PROVE Around(Here)[1].kind = "main"
  OBVIOUS
<1>1. 1 \in 1 .. Len(open) /\ DOMAIN open = 1 .. Len(open)
  BY OpenFacts
<1>2. Around(Here)[1] = Entry(open[1].kind, open[1].at, Len(open[1].lists))
  BY <1>1, OpenFacts
<1>3. open[1].kind = "main"
  BY <1>1 DEF PInv, ParserTypeOK
<1> QED BY <1>2, <1>3 DEF Entry

LEMMA PartsStep ==
    ASSUME PInv, PInv', PartsKept, status # "error", Here' \in {Here, Here + 1},
           Here' # Here => status' = "parsing",
           \A j \in 1 .. Here : Around(j)' = Around(j),
           NEW x, DOMAIN ops' \subseteq DOMAIN ops \cup {x},
           \A p \in DOMAIN ops : ops'[p] = ops[p],
           x \notin DOMAIN ops => \A j \in 1 .. Here : \A i \in 2 .. Len(Around(j)) :
               Around(j)[i].at = x => Around(j)[i].part <= Len(ops'[x].subs)
    PROVE  PartsKept'
<1>0. Here \in Nat /\ Here > 0
  BY DEF PInv, ParserTypeOK, Here
<1>1. ASSUME status' # "error", NEW j \in 1 .. Here', NEW i \in 2 .. Len(Around(j)'),
             Around(j)'[i].at \in DOMAIN ops'
      PROVE  Around(j)'[i].part <= Len(ops'[Around(j)'[i].at].subs)
  <2>1. CASE j \in 1 .. Here
    <3>1. Around(j)' = Around(j)
      BY <2>1
    <3> DEFINE e == Around(j)[i]
    <3>2. i \in 2 .. Len(Around(j)) /\ e.at \in DOMAIN ops'
      BY <1>1, <3>1
    <3>3. CASE e.at \in DOMAIN ops
      <4>1. e.part <= Len(ops[e.at].subs)
        BY <2>1, <3>2, <3>3 DEF PartsKept
      <4> HIDE DEF e
      <4>2. ops'[e.at] = ops[e.at]
        BY <3>3
      <4>3. e.part <= Len(ops'[e.at].subs)
        BY <4>1, <4>2
      <4> QED BY <3>1, <4>3 DEF e
    <3>4. CASE e.at \notin DOMAIN ops
      <4>1. e.at = x
        BY <3>2, <3>4
      <4>2. e.part <= Len(ops'[x].subs)
        BY <2>1, <3>2, <3>4, <4>1
      <4> HIDE DEF e
      <4>3. e.part <= Len(ops'[e.at].subs)
        BY <4>1, <4>2
      <4> QED BY <3>1, <4>3 DEF e
    <3> QED BY <3>3, <3>4
  <2>2. CASE j \notin 1 .. Here
    <3>1. j = Here' /\ status' = "parsing"
      BY <1>0, <2>2
    <3>2. (PInv /\ status = "parsing" =>
             \A m \in 2 .. Len(Around(Here)) : Around(Here)[m].at \notin DOMAIN ops)'
      BY OpenEntries, PTL
    <3>3. \A m \in 2 .. Len(Around(Here)') : Around(Here)'[m].at \notin DOMAIN ops'
      BY <3>1, <3>2
    <3>4. Around(j)' = Around(Here)'
      BY <3>1
    <3> QED BY <1>1, <3>3, <3>4
  <2> QED BY <2>1, <2>2
<1>2. ASSUME status' # "error", NEW j \in 1 .. Here'
      PROVE  Around(j)'[1].kind = "main"
  <2>1. CASE j \in 1 .. Here
    BY <2>1 DEF PartsKept
  <2>2. CASE j \notin 1 .. Here
    <3>1. j = Here'
      BY <1>0, <2>2
    <3>2. (PInv /\ status # "error" => Around(Here)[1].kind = "main")'
      BY OpenMain, PTL
    <3>3. Around(Here)'[1].kind = "main"
      BY <1>2, <3>2
    <3>4. Around(j)' = Around(Here)'
      BY <3>1
    <3> QED BY <3>3, <3>4
  <2> QED BY <2>1, <2>2
<1> QED BY <1>1, <1>2 DEF PartsKept

LEMMA PartsStarting == ASSUME ParserInit PROVE PartsKept
<1>1. DOMAIN ops = {}
  BY DEF ParserInit
<1>2. ASSUME NEW j \in 1 .. Here PROVE Around(j)[1].kind = "main"
  <2>1. j = 1 /\ Here = 1
    BY DEF ParserInit, Here
  <2>2. PInv /\ status # "error"
    BY Starting DEF ParserInit
  <2>3. Around(Here)[1].kind = "main"
    BY <2>2, OpenMain
  <2> QED BY <2>1, <2>3
<1> QED BY <1>1, <1>2 DEF PartsKept

\* Where no op becomes complete.
LEMMA PartsSame ==
    ASSUME PInv, PInv', PartsKept, status # "error", Here' \in {Here, Here + 1},
           Here' # Here => status' = "parsing",
           \A j \in 1 .. Here : Around(j)' = Around(j), ops' = ops
    PROVE  PartsKept'
<1>1. CASE DOMAIN ops = {}
  <2>1. DOMAIN ops' \subseteq DOMAIN ops \cup {0} /\ 0 \notin DOMAIN ops'
        /\ \A p \in DOMAIN ops : ops'[p] = ops[p]
    BY <1>1
  <2>2. \A j \in 1 .. Here : \A i \in 2 .. Len(Around(j)) : Around(j)[i].at # 0
    <3>1. ASSUME NEW j \in 1 .. Here, NEW i \in 2 .. Len(Around(j)) PROVE Around(j)[i].at # 0
      <4>1. Around(j)[i].at \in 1 .. j - 1
        BY Positions DEF PInv
      <4> QED BY <4>1
    <3> QED BY <3>1
  <2> QED BY <2>1, <2>2, PartsStep
<1>2. CASE DOMAIN ops # {}
  <2>1. PICK x : x \in DOMAIN ops
    BY <1>2
  <2>2. DOMAIN ops' \subseteq DOMAIN ops \cup {x} /\ \A p \in DOMAIN ops : ops'[p] = ops[p]
    OBVIOUS
  <2> QED BY <2>1, <2>2, PartsStep
<1> QED BY <1>1, <1>2

LEMMA RetopsParts ==
    ASSUME PInv, PartsKept, NEW t \in Tokens, NEW c, Retops(t, c)
    PROVE  PartsKept'
<1>1. ParserTypeOK /\ Read(t) /\ ops' = ops
  BY DEF PInv, Retops
<1>2. /\ status = "parsing" /\ status' = "parsing" /\ Here' = Here + 1
      /\ \A j \in 1 .. Here : Around(j)' = Around(j)
  BY <1>1, ReadFacts
<1>3. PInv'
  BY RetopsKeeps
<1> QED BY <1>1, <1>2, <1>3, PartsSame

LEMMA BeginParts ==
    ASSUME PInv, PartsKept, NEW t \in Tokens, Begin(t)
    PROVE  PartsKept'
<1>1. ParserTypeOK /\ Read(t) /\ ops' = ops
  BY DEF PInv, Begin
<1>2. /\ status = "parsing" /\ status' = "parsing" /\ Here' = Here + 1
      /\ \A j \in 1 .. Here : Around(j)' = Around(j)
  BY <1>1, ReadFacts
<1>3. PInv'
  BY BeginKeeps
<1> QED BY <1>1, <1>2, <1>3, PartsSame

LEMMA PlainParts ==
    ASSUME PInv, PartsKept, NEW t \in Tokens, PlainOp(t)
    PROVE  PartsKept'
<1> DEFINE x == Here
<1>1. ParserTypeOK /\ Read(t)
  BY DEF PInv, PlainOp
<1>2. /\ status = "parsing" /\ status' = "parsing" /\ Here' = Here + 1
      /\ \A j \in 1 .. Here : Around(j)' = Around(j)
  BY <1>1, ReadFacts
<1>3. DOMAIN ops' \subseteq DOMAIN ops \cup {x} /\ \A p \in DOMAIN ops : ops'[p] = ops[p]
  BY PlainShape
<1>4. \A j \in 1 .. Here : \A i \in 2 .. Len(Around(j)) : Around(j)[i].at # x
  <2>1. ASSUME NEW j \in 1 .. Here, NEW i \in 2 .. Len(Around(j)) PROVE Around(j)[i].at # x
    <3>1. Around(j)[i].at \in 1 .. j - 1 /\ Here \in Nat
      BY <1>1, Positions
    <3> QED BY <3>1
  <2> QED BY <2>1
<1>5. PInv'
  BY PlainKeeps
<1> HIDE DEF x
<1> QED BY <1>2, <1>3, <1>4, <1>5, PartsStep

LEMMA ClosesParts ==
    ASSUME PInv, PartsKept, Closes
    PROVE  PartsKept'
<1>0. ParserTypeOK /\ status # "error"
  BY DEF PInv, Closes
<1> DEFINE q == Top.at
           n == Len(open)
<1>1. DOMAIN ops' \subseteq DOMAIN ops \cup {q} /\ \A p \in DOMAIN ops : ops'[p] = ops[p]
  BY ClosesShape
<1>2. ops'[q].subs = Top.lists
  <2>1. ops'[q] = Op(Top.kind, Top.labels, Top.lists)
    BY ClosesShape
  <2> QED BY <2>1 DEF Op
<1>3. n \in Nat /\ n \in 1 .. n /\ Top = open[n]
  <2>1. Len(open) > 1
    BY DEF Closes
  <2>2. n \in Nat /\ n \in 2 .. n /\ Top = open[n]
    BY <1>0, <2>1, Closing
  <2> QED BY <2>2
<1>4. Here \in Nat /\ \A p \in q + 1 .. Here :
        Len(Around(p)) >= n /\ Around(p)[n].at = q /\ Around(p)[n].part <= Len(Top.lists)
  <2>1. Here \in Nat
    BY <1>0, StartsInText
  <2>2. \A p \in open[n].at + 1 .. Here :
          Len(Around(p)) >= n /\ Around(p)[n].at = open[n].at /\ Around(p)[n].part <= Len(open[n].lists)
    BY <1>0, <1>3, OpenFacts
  <2> QED BY <1>3, <2>1, <2>2
<1> HIDE DEF q, n
<1>5. ASSUME NEW j \in 1 .. Here, NEW i \in 2 .. Len(Around(j)), Around(j)[i].at = q
      PROVE  Around(j)[i].part <= Len(ops'[q].subs)
  <2>1. q \in 1 .. j - 1 /\ Len(Around(j)) \in Nat
    BY <1>0, <1>5, Positions
  <2>2. j \in q + 1 .. Here
    BY <1>4, <2>1
  <2>3. n \in 1 .. Len(Around(j)) /\ Around(j)[n].at = q /\ Around(j)[n].part <= Len(Top.lists)
    BY <1>3, <1>4, <2>1, <2>2
  <2>4. i = n
    <3>1. q \in Nat
      BY <2>1
    <3>2. CASE i < n
      <4>1. i \in 1 .. n - 1
        BY <1>3, <3>2
      <4>2. Around(j)[i].at < Around(j)[n].at
        BY <1>0, <2>3, <4>1, Outward
      <4> QED BY <1>5, <2>3, <3>1, <4>2
    <3>3. CASE n < i
      <4>1. n \in 1 .. i - 1 /\ i \in 1 .. Len(Around(j))
        BY <1>3, <2>1, <3>3
      <4>2. Around(j)[n].at < Around(j)[i].at
        BY <1>0, <4>1, Outward
      <4> QED BY <1>5, <2>3, <3>1, <4>2
    <3> QED BY <1>3, <3>2, <3>3
  <2> QED BY <1>2, <2>3, <2>4
<1>6. /\ Here' \in {Here, Here + 1} /\ (Here' # Here => status' = "parsing")
      /\ \A j \in 1 .. Here : Around(j)' = Around(j)
  BY DEF Closes
<1>7. PInv'
  BY ClosesKeeps
<1> QED BY <1>0, <1>1, <1>5, <1>6, <1>7, PartsStep

LEMMA PartsQuiet ==
    ASSUME PInv, PartsKept, text' = text, open' = open, ops' = ops, functions' = functions,
           status' \in {status, "error"} \/ (status = "parsing" /\ status' = "ended")
    PROVE  PartsKept'
<1>1. Here' = Here /\ \A j : Around(j)' = Around(j)
  BY DEF Here, Around
<1>2. status' # "error" => status # "error"
  OBVIOUS
<1> QED BY <1>1, <1>2 DEF PartsKept

LEMMA PartsStepping == ASSUME PInv, PartsKept, [ParserNext]_parserVars PROVE PartsKept'
<1>1. ASSUME NEW t \in Tokens, PlainOp(t) PROVE PartsKept'
  BY <1>1, PlainParts
<1>2. ASSUME NEW t \in Tokens, Begin(t) PROVE PartsKept'
  BY <1>2, BeginParts
<1>3. ASSUME NEW t \in Tokens, EndConstruct(t) PROVE PartsKept'
  BY <1>3, EndConstructCloses, ClosesParts
<1>4. ASSUME NEW t \in Tokens, EndIndex(t) PROVE PartsKept'
  BY <1>4, EndIndexRetops, RetopsParts
<1>5. ASSUME NEW t \in Tokens, CaseLabel(t) PROVE PartsKept'
  BY <1>5, CaseLabelRetops, RetopsParts
<1>6. ASSUME NEW t \in Tokens, Mismatch(t) PROVE PartsKept'
  BY <1>6 DEF Mismatch, PartsKept
<1>7. CASE Else
  <2>1. Retops("28", NextList) /\ "28" \in Tokens
    BY <1>7, ElseRetops
  <2> QED BY <2>1, RetopsParts
<1>8. CASE Semicolon
  <2>1. CASE Top.kind \in Bodies \cup Values
    BY <1>8, <2>1, SemicolonCloses, ClosesParts
  <2>2. CASE Top.kind \notin Bodies \cup Values
    BY <1>8, <2>2, SkippedRetops, RetopsParts
  <2> QED BY <2>1, <2>2
<1>9. CASE OpenSwitch
  BY <1>9, OpenSwitchRetops, RetopsParts
<1>10. CASE EndOfText
  <2>1. /\ text' = text /\ open' = open /\ ops' = ops /\ functions' = functions
        /\ status = "parsing" /\ status' = "ended"
    BY <1>10 DEF EndOfText
  <2> QED BY <2>1, PartsQuiet
<1>11. CASE CloseAtEnd
  <2>1. CASE Top.kind \in Bodies
    BY <1>11, <2>1, EndCloses, ClosesParts
  <2>2. CASE Top.kind \notin Bodies
    <3>1. /\ text' = text /\ open' = open /\ ops' = ops /\ functions' = functions
          /\ status' = "error"
      BY <1>11, <2>2 DEF CloseAtEnd
    <3> QED BY <3>1, PartsQuiet
  <2> QED BY <2>1, <2>2
<1>12. CASE UNCHANGED parserVars
  <2>1. /\ text' = text /\ open' = open /\ ops' = ops /\ functions' = functions
        /\ status' = status
    BY <1>12 DEF parserVars
  <2> QED BY <2>1, PartsQuiet
<1>13. ParserNext =>
         \/ \E t \in Tokens : \/ PlainOp(t) \/ Begin(t) \/ EndConstruct(t) \/ EndIndex(t)
                              \/ CaseLabel(t) \/ Mismatch(t)
         \/ Else \/ Semicolon \/ OpenSwitch \/ EndOfText \/ CloseAtEnd
  BY DEF ParserNext
<1> QED BY <1>1, <1>2, <1>3, <1>4, <1>5, <1>6, <1>7, <1>8, <1>9, <1>10, <1>11, <1>12, <1>13

--------------------------------------------------------------------------------
(* A program that is parsed: a tree of op lists.                              *)

Tree == PInv /\ PartsKept /\ Parsed

Nodes == {0} \cup DOMAIN ops

LEMMA Whole ==
    ASSUME Tree
    PROVE  /\ ParserTypeOK /\ status # "error" /\ status = "ended"
           /\ Len(open) = 1 /\ 1 \in 1 .. Len(open) /\ DOMAIN open = 1 .. 1
           /\ open[1].at = 0 /\ open[1].kind = "main" /\ Len(open[1].lists) = 1
           /\ open[1].lists \in Seq(Seq(Nat)) /\ open[1].labels = <<>>
           /\ Unfinished = {0} /\ DOMAIN ops = Starts /\ 0 \notin Starts
           /\ Starts \subseteq 1 .. Here - 1 /\ DOMAIN text = 1 .. Here - 1
           /\ Here \in Nat /\ Here > 0
<1>1. PInv /\ ParserTypeOK /\ status = "ended" /\ status # "error" /\ Len(open) = 1
  BY DEF Tree, Parsed, PInv
<1>2. 1 \in 1 .. Len(open) /\ DOMAIN open = 1 .. 1 /\ open[1].at = 0 /\ open[1] \in Constructs
  BY <1>1, OpenFacts
<1>3. open[1].kind = "main" /\ Shaped(open[1].kind, open[1].labels, open[1].lists)
  BY <1>1, <1>2 DEF ParserTypeOK
<1>4. Len(open[1].lists) = 1 /\ open[1].labels = <<>>
  BY <1>3 DEF Shaped, Objects
<1>5. open[1].lists \in Seq(Seq(Nat))
  BY <1>2 DEF Constructs, Parts
<1>6. Unfinished = {0}
  BY <1>1, <1>2, UnfinishedFacts
<1>7. Starts \subseteq 1 .. Here - 1 /\ DOMAIN text = 1 .. Here - 1 /\ Here \in Nat /\ Here > 0
  BY <1>1, StartsInText
<1>8. DOMAIN ops = Starts /\ 0 \notin Starts
  <2>1. DOMAIN ops = Starts \ Unfinished
    BY <1>1, UnfinishedFacts
  <2>2. 0 \notin Starts
    BY <1>7
  <2> QED BY <1>6, <2>1, <2>2
<1> QED BY <1>1, <1>2, <1>3, <1>4, <1>5, <1>6, <1>7, <1>8

LEMMA TreeLists ==
    ASSUME Tree, NEW a \in Nodes
    PROVE  /\ Subs(a) \in Seq(Seq(Nat)) /\ Len(Subs(a)) \in Nat
           /\ DOMAIN Subs(a) = 1 .. Len(Subs(a)) /\ a \in Nat
           /\ \A k \in DOMAIN Subs(a) :
                /\ Subs(a)[k] \in Seq(Nat) /\ Ascending(Subs(a)[k])
                /\ Range(Subs(a)[k]) = Under(a, k)
                /\ Len(Subs(a)[k]) \in Nat /\ DOMAIN Subs(a)[k] = 1 .. Len(Subs(a)[k])
<1>0. ParserTypeOK /\ OpsByRules /\ status # "error"
  BY Whole DEF Tree, PInv
<1>1. Subs(a) \in Seq(Seq(Nat)) /\ a \in Nat
  <2>1. CASE a = 0
    BY <2>1, Whole DEF Subs
  <2>2. CASE a # 0
    <3>1. a \in DOMAIN ops /\ Subs(a) = ops[a].subs
      BY <2>2 DEF Nodes, Subs
    <3>2. ops[a] \in Ops
      BY <1>0, <3>1 DEF ParserTypeOK
    <3>3. a \in Nat
      BY <3>1, Whole
    <3> QED BY <3>1, <3>2, <3>3 DEF Ops, Parts
  <2> QED BY <2>1, <2>2
<1>2. Len(Subs(a)) \in Nat /\ DOMAIN Subs(a) = 1 .. Len(Subs(a))
  <2> DEFINE s == Subs(a)
             P == Seq(Nat)
  <2>1. s \in Seq(P)
    BY <1>1
  <2> HIDE DEF s, P
  <2>2. Len(s) \in Nat /\ DOMAIN s = 1 .. Len(s)
    BY <2>1
  <2> QED BY <2>2 DEF s
<1>3. ASSUME NEW k \in DOMAIN Subs(a)
      PROVE  /\ Subs(a)[k] \in Seq(Nat) /\ Ascending(Subs(a)[k])
             /\ Range(Subs(a)[k]) = Under(a, k)
             /\ Len(Subs(a)[k]) \in Nat /\ DOMAIN Subs(a)[k] = 1 .. Len(Subs(a)[k])
  <2>1. Lists(Subs(a)[k], a, k)
    <3>1. CASE a = 0
      <4>1. Subs(a) = open[1].lists /\ open[1].at = a /\ 1 \in DOMAIN open
        BY <3>1, Whole DEF Subs
      <4>2. \A m \in DOMAIN open[1].lists : Lists(open[1].lists[m], open[1].at, m)
        BY <1>0, <4>1 DEF OpsByRules
      <4> QED BY <1>3, <4>1, <4>2
    <3>2. CASE a # 0
      <4>1. a \in DOMAIN ops /\ Subs(a) = ops[a].subs
        BY <3>2 DEF Nodes, Subs
      <4>2. \A m \in DOMAIN ops[a].subs : Lists(ops[a].subs[m], a, m)
        BY <1>0, <4>1 DEF OpsByRules
      <4> QED BY <1>3, <4>1, <4>2
    <3> QED BY <3>1, <3>2
  <2>2. Subs(a)[k] \in Seq(Nat)
    <3> DEFINE s == Subs(a)
               P == Seq(Nat)
    <3>1. s \in Seq(P) /\ k \in DOMAIN s
      BY <1>1
    <3> HIDE DEF s, P
    <3>2. s[k] \in P
      BY <3>1
    <3> QED BY <3>2 DEF s, P
  <2>3. Under(a, k) \ {0} = Under(a, k) /\ Unfinished = {0}
    <3>1. Under(a, k) \subseteq Starts
      BY <1>0, StartsInText
    <3> QED BY <3>1, Whole
  <2> DEFINE l == Subs(a)[k]
  <2>4. Range(l) = Under(a, k) /\ Ascending(l)
    BY <2>1, <2>3 DEF Lists
  <2>5. l \in Seq(Nat)
    BY <2>2
  <2> HIDE DEF l
  <2>6. Len(l) \in Nat /\ DOMAIN l = 1 .. Len(l)
    BY <2>5
  <2> QED BY <2>4, <2>5, <2>6 DEF l
<1> QED BY <1>1, <1>2, <1>3

\* What is around an op: main, and ops with the part it is in.
LEMMA AroundOps ==
    ASSUME Tree, NEW j \in 1 .. Here
    PROVE  /\ Around(j)[1].at = 0 /\ Around(j)[1].kind = "main" /\ Around(j)[1].part = 1
           /\ \A i \in 2 .. Len(Around(j)) :
                LET e == Around(j)[i] IN
                /\ e.at \in DOMAIN ops /\ e.at # 0
                /\ e.part \in DOMAIN ops[e.at].subs
                /\ Became(e.kind, ops[e.at].kind) /\ Became(text[e.at], ops[e.at].kind)
                /\ text[e.at] \in Opening
<1>0. ParserTypeOK /\ status # "error" /\ PInv /\ DOMAIN ops = Starts /\ KindsKept
  BY Whole DEF Tree, PInv
<1>1. Around(j)[1].at = 0 /\ Around(j)[1].part \in Nat \ {0} /\ Here \in 1 .. Here
      /\ Len(Around(j)) > 0 /\ Len(Around(j)) \in Nat /\ j \in 0 + 1 .. Here
  <2>1. /\ Around(j)[1].at = 0 /\ Len(Around(j)) \in Nat /\ Len(Around(j)) > 0
        /\ \A i \in 1 .. Len(Around(j)) : Around(j)[i].part \in Nat \ {0}
    BY <1>0, Positions
  <2>2. 1 \in 1 .. Len(Around(j))
    BY <2>1
  <2> QED BY <1>0, <2>1, <2>2, OpenFacts
<1>2. Around(j)[1].kind = "main"
  BY <1>0 DEF Tree, PartsKept
<1>3. Around(j)[1].part = 1
  <2>1. \A p \in open[1].at + 1 .. Here : Around(p)[1].part <= Len(open[1].lists)
    BY <1>0, Whole, OpenFacts
  <2>2. Around(j)[1].part <= 1
    BY <1>1, <2>1, Whole
  <2> QED BY <1>1, <2>2
<1>4. ASSUME NEW i \in 2 .. Len(Around(j))
      PROVE  LET e == Around(j)[i] IN
             /\ e.at \in DOMAIN ops /\ e.at # 0
             /\ e.part \in DOMAIN ops[e.at].subs
             /\ Became(e.kind, ops[e.at].kind) /\ Became(text[e.at], ops[e.at].kind)
             /\ text[e.at] \in Opening
  <2> DEFINE e == Around(j)[i]
             q == e.at
  <2>1. q \in 1 .. j - 1 /\ q \in DOMAIN text /\ text[q] \in Opening
    BY <1>0, Positions
  <2>2. e.part \in Nat \ {0}
    <3>1. i \in 1 .. Len(Around(j))
      OBVIOUS
    <3> QED BY <1>0, <3>1, Positions
  <2>3. q \in Starts
    <3>1. text[q] # "28"
      BY <2>1 DEF Opening, Bodies, Values, Objects
    <3> HIDE DEF q
    <3> QED BY <2>1, <3>1 DEF Starts
  <2>4. Became(e.kind, ops[q].kind) /\ Became(text[q], ops[q].kind)
    BY <1>0, <2>3 DEF KindsKept
  <2>5. e.part <= Len(ops[q].subs)
    BY <1>0, <2>3 DEF Tree, PartsKept
  <2>6. Subs(q) = ops[q].subs /\ q \in Nodes
    BY <1>0, <2>1, <2>3 DEF Subs, Nodes
  <2> HIDE DEF e, q
  <2>7. DOMAIN ops[q].subs = 1 .. Len(ops[q].subs) /\ Len(ops[q].subs) \in Nat
    BY <2>6, TreeLists
  <2>8. e.part \in DOMAIN ops[q].subs
    BY <2>2, <2>5, <2>7
  <2>9. q \in DOMAIN ops /\ q # 0
    BY <1>0, <2>1, <2>3
  <2> QED BY <2>1, <2>4, <2>8, <2>9 DEF e, q
<1> QED BY <1>1, <1>2, <1>3, <1>4

\* A construct is around a position once.
LEMMA Unique ==
    ASSUME ParserTypeOK, NEW j \in 1 .. Here,
           NEW i \in 1 .. Len(Around(j)), NEW m \in 1 .. Len(Around(j)),
           Around(j)[i].at = Around(j)[m].at
    PROVE  i = m
<1>1. Around(j)[i].at \in Nat /\ Around(j)[m].at \in Nat /\ Len(Around(j)) \in Nat
  BY Positions
<1>2. CASE i < m
  <2>1. i \in 1 .. m - 1
    BY <1>1, <1>2
  <2>2. Around(j)[i].at < Around(j)[m].at
    BY <2>1, Outward
  <2> QED BY <1>1, <2>2
<1>3. CASE m < i
  <2>1. m \in 1 .. i - 1
    BY <1>1, <1>3
  <2>2. Around(j)[m].at < Around(j)[i].at
    BY <2>1, Outward
  <2> QED BY <1>1, <2>2
<1> QED BY <1>1, <1>2, <1>3

\* An op is around the ops it has, with what is around itself.
LEMMA Child ==
    ASSUME Tree, NEW a, NEW k, NEW x \in Under(a, k)
    PROVE  LET n == Len(Around(x)) IN
           /\ x \in 1 .. Here /\ x \in Starts \ Definitions /\ x \in DOMAIN ops
           /\ a \in Nodes /\ a < x /\ a \in Nat /\ k \in DOMAIN Subs(a)
           /\ n \in Nat /\ n > 0 /\ Around(x)[n].at = a /\ Around(x)[n].part = k
           /\ a = 0 => n = 1 /\ k = 1
           /\ a # 0 => /\ n > 1 /\ a \in DOMAIN ops /\ a \in 1 .. Here /\ Len(Around(a)) = n - 1
                       /\ \A m \in 1 .. n - 1 : Around(a)[m] = Around(x)[m]
<1> DEFINE n == Len(Around(x))
<1>0. ParserTypeOK
  BY Whole
<1>1. /\ x \in 1 .. Here /\ x \in Starts \ Definitions
      /\ a \in Nat /\ a < x /\ k \in Nat \ {0} /\ n \in Nat /\ n > 0 /\ Around(x)[n].at = a
      /\ \A i \in 1 .. n : Around(x)[i].at = a => i = n /\ Around(x)[i].part = k
  BY <1>0, UnderFacts
<1>2. n \in 1 .. n /\ Around(x)[n].part = k
  BY <1>1
<1>3. x \in DOMAIN ops
  BY <1>1, Whole
<1>4. Around(x)[1].at = 0 /\ Around(x)[1].part = 1 /\ 1 \in 1 .. n
  BY <1>1, AroundOps
<1>5. CASE a = 0
  <2>1. n = 1 /\ k = 1
    BY <1>1, <1>4, <1>5
  <2>2. Subs(a) = open[1].lists
    BY <1>5 DEF Subs
  <2>3. Len(Subs(a)) = 1
    BY <2>2, Whole
  <2>4. a \in Nodes
    BY <1>5 DEF Nodes
  <2>5. k \in DOMAIN Subs(a)
    <3>1. DOMAIN Subs(a) = 1 .. Len(Subs(a))
      BY <2>4, TreeLists
    <3> QED BY <2>1, <2>3, <3>1
  <2> QED BY <1>1, <1>2, <1>3, <1>5, <2>1, <2>4, <2>5
<1>6. CASE a # 0
  <2>1. n > 1 /\ n \in 2 .. n
    BY <1>1, <1>4, <1>6
  <2>2. a \in DOMAIN ops /\ k \in DOMAIN ops[a].subs
    BY <1>1, <1>2, <2>1, AroundOps
  <2>3. a \in Nodes /\ Subs(a) = ops[a].subs
    BY <1>6, <2>2 DEF Nodes, Subs
  <2>4. a \in 1 .. Here /\ Len(Around(a)) = n - 1
        /\ \A m \in 1 .. n - 1 : Around(a)[m] = Around(x)[m]
    BY <1>0, <1>1, <2>1, Positions
  <2> QED BY <1>1, <1>2, <1>3, <1>6, <2>1, <2>2, <2>3, <2>4
<1> QED BY <1>5, <1>6

\* Between a construct and what is in it, everything is in it.
LEMMA Earlier ==
    ASSUME Tree, NEW p \in 1 .. Here, NEW i \in 1 .. Len(Around(p)),
           NEW q \in 1 .. Here, Around(p)[i].at < q, q <= p
    PROVE  /\ i \in 1 .. Len(Around(q)) /\ Around(q)[i].at = Around(p)[i].at
           /\ Around(q)[i].part <= Around(p)[i].part
<1>0. ParserTypeOK
  BY Whole
<1>1. Around(p)[i].at \in Nat /\ Len(Around(p)) \in Nat
  BY <1>0, Positions
<1>2. q \in Around(p)[i].at + 1 .. p /\ i \in 1 .. Len(Around(p))
  BY <1>1
<1>3. Len(Around(q)) \in Nat
  BY <1>0, Positions
<1>4. /\ Len(Around(q)) >= i /\ Around(q)[i].at = Around(p)[i].at
      /\ Around(q)[i].part <= Around(p)[i].part
  BY <1>0, <1>2, Positions
<1> QED BY <1>1, <1>3, <1>4

\* The op of a list that an op is, or is inside of; the next one is behind it.
LEMMA Ancestor ==
    ASSUME Tree, NEW p \in Starts \ Definitions, NEW i \in 1 .. Len(Around(p)),
           i = 1 => ~Function(p)
    PROVE  \E q \in Under(Around(p)[i].at, Around(p)[i].part) :
             /\ q <= p
             /\ \/ q = p /\ i = Len(Around(p))
                \/ i + 1 \in 2 .. Len(Around(p)) /\ Around(p)[i + 1].at = q
             /\ \A k : \A x \in Under(Around(p)[i].at, k) : q < x => p < x
<1>0. ParserTypeOK /\ p \in 1 .. Here /\ p \in 1 .. Here - 1 /\ Here \in Nat
  BY Whole
<1> DEFINE e == Around(p)[i]
           n == Len(Around(p))
<1>1. n \in Nat /\ e.at \in Nat /\ Innermost(p) = Around(p)[n]
  BY <1>0, Positions
<1>2. CASE i = n
  <2>1. p \in Under(e.at, e.part)
    BY <1>1, <1>2 DEF Under
  <2> QED BY <1>0, <1>2, <2>1
<1>3. CASE i # n
  <2>1. i + 1 \in 2 .. n /\ (i + 1) - 1 = i /\ i \in Nat /\ i \in 1 .. i
    BY <1>1, <1>3
  <2> DEFINE q == Around(p)[i + 1].at
             r == i + 1
  <2>2. /\ q \in 1 .. p - 1 /\ q \in DOMAIN text /\ q \in 1 .. Here
        /\ text[q] \in Opening /\ Len(Around(q)) = r - 1
        /\ \A m \in 1 .. r - 1 : Around(q)[m] = Around(p)[m]
    BY <1>0, <2>1, Positions
  <2>3. Innermost(q) = e
    <3>1. Innermost(q) = Around(q)[Len(Around(q))]
      BY <1>0, <2>2, Positions
    <3>2. Len(Around(q)) = i
      BY <2>1, <2>2
    <3> QED BY <2>1, <2>2, <3>1, <3>2
  <2>4. q \in Starts
    <3>1. q \in DOMAIN ops
      BY <1>0, <2>1, AroundOps
    <3> QED BY <3>1, Whole
  <2>5. q \notin Definitions
    <3>1. SUFFICES ASSUME q \in Definitions PROVE FALSE
      OBVIOUS
    <3>2. text[q] = "/1" /\ Len(Around(q)) = 1
      BY <3>1 DEF Definitions
    <3>3. i = 1 /\ n > 1
      BY <1>1, <1>3, <2>1, <2>2, <3>2
    <3>4. Became(Around(p)[i + 1].kind, ops[q].kind) /\ Became(text[q], ops[q].kind)
      BY <1>0, <2>1, AroundOps
    <3>5. Around(p)[i + 1].kind = "/1"
      BY <3>2, <3>4, BecameFacts
    <3>6. Function(p)
      BY <3>3, <3>5 DEF Function
    <3> QED BY <3>3, <3>6
  <2>6. q \in Under(e.at, e.part)
    BY <2>3, <2>4, <2>5 DEF Under
  <2>7. ASSUME NEW k, NEW x \in Under(e.at, k), q < x, ~(p < x) PROVE FALSE
    <3>1. /\ x \in 1 .. Here /\ Len(Around(x)) \in Nat /\ Len(Around(x)) > 0
          /\ Around(x)[Len(Around(x))].at = e.at
      BY <2>7, Child
    <3>2. x <= p
      BY <1>0, <2>7, <3>1
    <3>3. r \in 1 .. n /\ Around(p)[r].at < x
      BY <1>1, <2>1, <2>7
    <3>4. r \in 1 .. Len(Around(x))
      BY <1>0, <3>1, <3>2, <3>3, Earlier
    <3>5. e.at < x
      BY <2>7, <3>1, Child
    <3>6. i \in 1 .. Len(Around(x)) /\ Around(x)[i].at = e.at
      BY <1>0, <3>1, <3>2, <3>5, Earlier
    <3>7. Len(Around(x)) \in 1 .. Len(Around(x))
      BY <3>1
    <3>8. i = Len(Around(x))
      BY <1>0, <3>1, <3>6, <3>7, Unique
    <3> QED BY <1>1, <3>4, <3>8
  <2>8. q <= p
    BY <1>0, <2>2
  <2> HIDE DEF q
  <2>9. \A k : \A x \in Under(e.at, k) : q < x => p < x
    BY <2>7
  <2>10. Around(p)[i + 1].at = q
    BY DEF q
  <2> QED BY <2>1, <2>6, <2>8, <2>9, <2>10
<1> QED BY <1>2, <1>3

--------------------------------------------------------------------------------
(* Bodies.                                                                   *)

Root(p) == IF Function(p) THEN 2 ELSE 1
Home(b) == {b} \cup OpsOf(b)

LEMMA WithinFacts ==
    ASSUME Tree, NEW p \in 1 .. Here
    PROVE  /\ Root(p) \in 1 .. Len(Around(p)) /\ Len(Around(p)) \in Nat
           /\ Within(p) \in Seq(Entries) /\ Len(Within(p)) = Len(Around(p)) - Root(p) + 1
           /\ \A m \in 1 .. Len(Within(p)) : Within(p)[m] = Around(p)[m + Root(p) - 1]
           /\ Within(p)[1] = Around(p)[Root(p)] /\ Within(p)[1].at < p
           /\ Innermost(p) = Around(p)[Len(Around(p))]
<1> DEFINE a == Around(p)
<1>1. a \in Seq(Entries) /\ a # <<>> /\ Len(a) \in Nat /\ Len(a) > 0
      /\ Innermost(p) = a[Len(a)]
  BY Whole, Positions
<1>2. a[1].at = 0 /\ \A i \in 2 .. Len(a) : a[i].at \in 1 .. p - 1
  BY Whole, Positions
<1>3. CASE Function(p)
  <2>1. Len(a) > 1 /\ Root(p) = 2 /\ Within(p) = Tail(a)
    BY <1>3 DEF Function, Root, Within
  <2> HIDE DEF a
  <2>2. /\ Tail(a) \in Seq(Entries) /\ Len(Tail(a)) = Len(a) - 1
        /\ \A m \in 1 .. Len(a) - 1 : Tail(a)[m] = a[m + 1]
    BY <1>1
  <2>3. 1 \in 1 .. Len(a) - 1 /\ 2 \in 2 .. Len(a) /\ 2 \in 1 .. Len(a)
    BY <1>1, <2>1
  <2>4. Within(p)[1] = a[2] /\ a[2].at < p
    <3>1. Within(p)[1] = a[1 + 1]
      BY <2>1, <2>2, <2>3
    <3>2. a[2].at \in 1 .. p - 1
      BY <1>2, <2>3
    <3> QED BY <3>1, <3>2
  <2>5. \A m \in 1 .. Len(Within(p)) : Within(p)[m] = a[m + Root(p) - 1]
    <3>1. ASSUME NEW m \in 1 .. Len(Within(p)) PROVE Within(p)[m] = a[m + Root(p) - 1]
      <4>1. m \in 1 .. Len(a) - 1 /\ m + Root(p) - 1 = m + 1
        BY <1>1, <2>1, <2>2
      <4> QED BY <2>1, <2>2, <4>1
    <3> QED BY <3>1
  <2> QED BY <1>1, <2>1, <2>2, <2>3, <2>4, <2>5 DEF a
<1>4. CASE ~Function(p)
  <2>1. Root(p) = 1 /\ Within(p) = a
    BY <1>4 DEF Root, Within
  <2> HIDE DEF a
  <2>2. \A m \in 1 .. Len(Within(p)) : Within(p)[m] = a[m + Root(p) - 1]
    <3>1. ASSUME NEW m \in 1 .. Len(Within(p)) PROVE Within(p)[m] = a[m + Root(p) - 1]
      <4>1. m + Root(p) - 1 = m
        BY <1>1, <2>1
      <4> QED BY <2>1, <4>1
    <3> QED BY <3>1
  <2> QED BY <1>1, <1>2, <2>1, <2>2 DEF a
<1> QED BY <1>3, <1>4

LEMMA InBody ==
    ASSUME Tree, NEW b, NEW p \in OpsOf(b)
    PROVE  /\ p \in Starts \ Definitions /\ p \in 1 .. Here /\ p \in DOMAIN ops
           /\ Root(p) \in 1 .. Len(Around(p)) /\ Around(p)[Root(p)].at = b
           /\ b < p /\ b \in Nat /\ p # 0
           /\ \A i \in 1 .. Len(Around(p)) :
                Around(p)[i].at \in Home(b) => (i = 1 => ~Function(p))
<1>1. p \in Starts \ Definitions /\ p \in 1 .. Here /\ Within(p)[1].at = b /\ p \in DOMAIN ops
  BY Whole DEF OpsOf
<1>2. /\ Root(p) \in 1 .. Len(Around(p)) /\ Around(p)[Root(p)].at = b /\ b < p
      /\ Len(Around(p)) \in Nat
  BY <1>1, WithinFacts
<1>3. b \in Nat
  BY <1>1, <1>2, Whole, Positions
<1>4. ASSUME Around(p)[1].at \in Home(b), Function(p) PROVE FALSE
  <2>1. Around(p)[1].at = 0 /\ Root(p) = 2
    BY <1>1, <1>4, AroundOps DEF Root
  <2>2. 0 \notin OpsOf(b)
    BY Whole DEF OpsOf
  <2>3. b = 0
    BY <1>4, <2>1, <2>2 DEF Home
  <2>4. Around(p)[2].at # 0
    <3>1. 2 \in 2 .. Len(Around(p))
      BY <1>2, <2>1
    <3> QED BY <1>1, <3>1, AroundOps
  <2> QED BY <1>2, <2>1, <2>3, <2>4
<1>5. p # 0
  BY <1>1, Whole
<1> QED BY <1>1, <1>2, <1>3, <1>4, <1>5

LEMMA Programs ==
    ASSUME Tree
    PROVE  /\ Program \in Seq(Nat) /\ Len(Program) = Len(functions) + 1
           /\ Len(Program) \in Nat /\ Len(Program) > 0 /\ DOMAIN Program = 1 .. Len(Program)
           /\ Range(Program) = {0} \cup Definitions /\ Range(functions) = Definitions
           /\ \A d \in Definitions : d \in DOMAIN ops /\ ops[d].kind = "/1" /\ text[d] = "/1"
                                     /\ Len(Around(d)) = 1 /\ d \in 1 .. Here
           /\ \A b \in Range(Program) : b \in Nodes /\ Len(Subs(b)) = 1 /\ DOMAIN Subs(b) = {1}
                                        /\ (b = 0 \/ b \in Definitions)
<1>0. ParserTypeOK /\ OpsByRules /\ KindsKept /\ status # "error"
  BY Whole DEF Tree, PInv
<1>1. functions \in Seq(DOMAIN ops) /\ Range(functions) = Definitions
  <2>1. Definitions \ Unfinished = Definitions
    BY <1>0, Whole, StartsInText
  <2> QED BY <1>0, <2>1 DEF ParserTypeOK, OpsByRules
<1>2. DOMAIN ops \subseteq Nat
  BY Whole
<1>3. functions \in Seq(Nat)
  BY <1>1, <1>2, SeqWider
<1> DEFINE f == functions
<1>4. f \in Seq(Nat)
  BY <1>3
<1> HIDE DEF f
<1>5. /\ Append(f, 0) \in Seq(Nat) /\ Len(Append(f, 0)) = Len(f) + 1 /\ Len(f) \in Nat
      /\ \A i \in 1 .. Len(f) : Append(f, 0)[i] = f[i]
      /\ Append(f, 0)[Len(f) + 1] = 0
  BY <1>4, Appended
<1>6. DOMAIN f = 1 .. Len(f) /\ DOMAIN Append(f, 0) = 1 .. Len(f) + 1
  BY <1>4, <1>5
<1>7. Range(Append(f, 0)) = {0} \cup Range(f)
  <2>1. ASSUME NEW x \in Range(Append(f, 0)) PROVE x \in {0} \cup Range(f)
    <3>1. PICK i \in 1 .. Len(f) + 1 : x = Append(f, 0)[i]
      BY <1>6 DEF Range
    <3>2. CASE i = Len(f) + 1
      BY <1>5, <3>1, <3>2
    <3>3. CASE i # Len(f) + 1
      <4>1. i \in 1 .. Len(f)
        BY <1>5, <3>3
      <4> QED BY <1>5, <1>6, <3>1, <4>1 DEF Range
    <3> QED BY <3>2, <3>3
  <2>2. ASSUME NEW x \in Range(f) PROVE x \in Range(Append(f, 0))
    <3>1. PICK i \in 1 .. Len(f) : x = f[i]
      BY <1>6 DEF Range
    <3>2. i \in 1 .. Len(f) + 1 /\ x = Append(f, 0)[i]
      BY <1>5, <3>1
    <3> QED BY <1>6, <3>2 DEF Range
  <2>3. 0 \in Range(Append(f, 0))
    <3>1. Len(f) + 1 \in 1 .. Len(f) + 1
      BY <1>5
    <3> QED BY <1>5, <1>6, <3>1 DEF Range
  <2> QED BY <2>1, <2>2, <2>3
<1>8. ASSUME NEW d \in Definitions
      PROVE  /\ d \in DOMAIN ops /\ ops[d].kind = "/1" /\ text[d] = "/1" /\ d \in 1 .. Here
             /\ Len(Around(d)) = 1 /\ ops[d].subs # <<>>
  <2>1. PICK i \in DOMAIN functions : d = functions[i]
    BY <1>1 DEF Range
  <2>2. ops[d].kind = "/1" /\ ops[d].subs # <<>>
    BY <1>0, <2>1 DEF ParserTypeOK
  <2>3. d \in Starts /\ text[d] = "/1" /\ Len(Around(d)) = 1
    BY DEF Definitions
  <2>4. d \in DOMAIN ops /\ d \in 1 .. Here
    BY <2>3, Whole
  <2> QED BY <2>2, <2>3, <2>4
<1>9. ASSUME NEW b \in Range(Program)
      PROVE  b \in Nodes /\ Len(Subs(b)) = 1 /\ DOMAIN Subs(b) = {1} /\ (b = 0 \/ b \in Definitions)
  <2>1. b = 0 \/ b \in Definitions
    BY <1>1, <1>7 DEF Program, f
  <2>2. b \in Nodes
    BY <1>8, <2>1 DEF Nodes
  <2>3. Len(Subs(b)) = 1
    <3>1. CASE b = 0
      BY <3>1, Whole DEF Subs
    <3>2. CASE b # 0
      <4>1. b \in DOMAIN ops /\ ops[b].kind = "/1" /\ ops[b].subs # <<>>
        BY <1>8, <2>1, <3>2
      <4>2. Shaped(ops[b].kind, ops[b].labels, ops[b].subs)
        BY <1>0, <4>1 DEF ParserTypeOK
      <4>3. Len(ops[b].subs) = 1
        BY <4>1, <4>2 DEF Shaped, Objects
      <4> QED BY <3>2, <4>3 DEF Subs
    <3> QED BY <3>1, <3>2
  <2>4. DOMAIN Subs(b) = {1}
    <3>1. DOMAIN Subs(b) = 1 .. Len(Subs(b))
      BY <2>2, TreeLists
    <3> QED BY <2>3, <3>1
  <2> QED BY <2>1, <2>2, <2>3, <2>4
<1> QED BY <1>1, <1>5, <1>6, <1>7, <1>8, <1>9 DEF Program, f

\* Where "/1" is around something, it is a function.
LEMMA FunctionAt ==
    ASSUME Tree, NEW p \in 1 .. Here, 2 \in 2 .. Len(Around(p))
    PROVE  LET q == Around(p)[2].at IN
           /\ Function(p) <=> q \in Definitions
           /\ Function(p) <=> ops[q].kind = "/1"
<1> DEFINE q == Around(p)[2].at
<1>1. /\ q \in DOMAIN ops /\ Became(Around(p)[2].kind, ops[q].kind) /\ Became(text[q], ops[q].kind)
      /\ text[q] \in Opening
  BY AroundOps
<1>2. Len(Around(q)) = 2 - 1
  BY Whole, Positions
<1>3. Len(Around(p)) > 1
  BY Whole, Positions
<1>4. q \in Starts
  BY <1>1, Whole
<1>5. Function(p) <=> Around(p)[2].kind = "/1"
  BY <1>3 DEF Function
<1>6. /\ Around(p)[2].kind = "/1" <=> ops[q].kind = "/1"
      /\ text[q] = "/1" <=> ops[q].kind = "/1"
  BY <1>1, BecameFacts
<1>7. q \in Definitions <=> text[q] = "/1"
  BY <1>2, <1>4 DEF Definitions
<1> QED BY <1>5, <1>6, <1>7

LEMMA ChildBody ==
    ASSUME Tree, NEW b \in Range(Program), NEW a \in Home(b), NEW k, NEW x \in Under(a, k)
    PROVE  x \in OpsOf(b)
<1> DEFINE n == Len(Around(x))
<1>1. /\ x \in 1 .. Here /\ x \in Starts \ Definitions
      /\ n \in Nat /\ n > 0 /\ Around(x)[n].at = a
      /\ a = 0 => n = 1
      /\ a # 0 => /\ n > 1 /\ a \in DOMAIN ops /\ a \in 1 .. Here /\ Len(Around(a)) = n - 1
                  /\ \A m \in 1 .. n - 1 : Around(a)[m] = Around(x)[m]
  BY Child
<1>2. Within(x)[1] = Around(x)[Root(x)]
  BY <1>1, WithinFacts
<1>3. SUFFICES Around(x)[Root(x)].at = b
  BY <1>1, <1>2 DEF OpsOf
<1>4. CASE a = b /\ a = 0
  <2>1. n = 1
    BY <1>1, <1>4
  <2>2. ~(n > 1)
    BY <2>1
  <2>3. Root(x) = 1
    BY <2>2 DEF Function, Root
  <2> QED BY <1>1, <1>4, <2>1, <2>3
<1>5. CASE a = b /\ a # 0
  <2>1. a \in Definitions /\ Len(Around(a)) = 1
    BY <1>5, Programs
  <2>2. n = 2
    BY <1>1, <1>5, <2>1
  <2>3. 2 \in 2 .. Len(Around(x)) /\ Around(x)[2].at = a
    BY <1>1, <2>2
  <2>4. Function(x)
    BY <1>1, <2>1, <2>3, FunctionAt
  <2> QED BY <1>5, <2>3, <2>4 DEF Root
<1>6. CASE a # b
  <2>1. a \in OpsOf(b)
    BY <1>6 DEF Home
  <2>2. a \in Starts \ Definitions /\ Around(a)[Root(a)].at = b /\ a # 0
        /\ Root(a) \in 1 .. Len(Around(a))
    BY <2>1, InBody
  <2>3. Len(Around(a)) = n - 1 /\ a \in 1 .. Here /\ n > 1
        /\ \A m \in 1 .. n - 1 : Around(a)[m] = Around(x)[m]
    BY <1>1, <2>2
  <2>4. Root(a) \in 1 .. n - 1
    BY <2>2, <2>3
  <2>5. 2 \in 2 .. Len(Around(x))
    BY <1>1, <2>3
  <2>6. CASE n - 1 = 1
    <3>1. n = 2 /\ Around(x)[2].at = a
      <4> HIDE DEF n
      <4>1. n = 2
        BY <1>1, <2>6
      <4> QED BY <1>1, <4>1
    <3>2. ~Function(x)
      BY <1>1, <2>2, <2>5, <3>1, FunctionAt
    <3>3. Root(x) = 1 /\ Root(a) = 1
      <4>1. Root(x) = 1
        BY <3>2 DEF Root
      <4>2. Root(a) \in 1 .. 1
        BY <2>4, <2>6
      <4> QED BY <4>1, <4>2
    <3> QED BY <2>2, <2>3, <2>4, <3>3
  <2>7. CASE n - 1 # 1
    <3>1. Len(Around(a)) > 1 /\ Len(Around(x)) > 1 /\ 2 \in 1 .. n - 1
      BY <1>1, <2>3, <2>7
    <3>2. Around(a)[2] = Around(x)[2]
      BY <2>3, <3>1
    <3>3. Function(a) <=> Function(x)
      BY <3>1, <3>2 DEF Function
    <3>4. Root(a) = Root(x)
      BY <3>3 DEF Root
    <3> QED BY <2>2, <2>3, <2>4, <3>4
  <2> QED BY <2>6, <2>7
<1> QED BY <1>4, <1>5, <1>6

\* Every op is in a body.
LEMMA Covered ==
    ASSUME Tree, NEW p \in Starts \ Definitions
    PROVE  \E b \in Range(Program) : p \in OpsOf(b)
<1>1. p \in 1 .. Here
  BY Whole
<1>2. Within(p)[1] = Around(p)[Root(p)] /\ Root(p) \in 1 .. Len(Around(p)) /\ Len(Around(p)) \in Nat
  BY <1>1, WithinFacts
<1>3. p \in OpsOf(Around(p)[Root(p)].at)
  BY <1>2 DEF OpsOf
<1>4. CASE Function(p)
  <2>1. Root(p) = 2 /\ 2 \in 2 .. Len(Around(p))
    BY <1>2, <1>4 DEF Root
  <2>2. Around(p)[2].at \in Definitions
    BY <1>1, <1>4, <2>1, FunctionAt
  <2> QED BY <1>3, <2>1, <2>2, Programs
<1>5. CASE ~Function(p)
  <2>1. Root(p) = 1
    BY <1>5 DEF Root
  <2>2. Around(p)[1].at = 0
    BY <1>1, AroundOps
  <2> QED BY <1>3, <2>1, <2>2, Programs
<1> QED BY <1>4, <1>5

--------------------------------------------------------------------------------
(* A walk over the ops of a body: what an activation has passed.               *)

AtWork(b, f) ==
    f.at \in Home(b) /\ f.part \in DOMAIN Subs(f.at) /\ f.next \in 1 .. Len(List(f)) + 1

Past(f, p) ==
    \/ p <= f.at
    \/ \E i \in 1 .. Len(Around(p)) :
         /\ Around(p)[i].at = f.at
         /\ \/ Around(p)[i].part < f.part
            \/ /\ Around(p)[i].part = f.part
               /\ f.next <= Len(List(f)) => p < List(f)[f.next]

Inside(x, p) == \E i \in 1 .. Len(Around(p)) : Around(p)[i].at = x

LEMMA Homes ==
    ASSUME Tree, NEW b \in Range(Program), NEW a \in Home(b)
    PROVE  a \in Nodes /\ a \in Nat /\ (a # 0 => a \in DOMAIN ops /\ a \in 1 .. Here)
<1>1. a \in Nodes
  BY Programs, InBody DEF Home, Nodes
<1>2. a # 0 => a \in DOMAIN ops
  BY <1>1 DEF Nodes
<1>3. DOMAIN ops \subseteq 1 .. Here /\ Here \in Nat
  BY Whole
<1> QED BY <1>1, <1>2, <1>3

LEMMA WorkFacts ==
    ASSUME Tree, NEW b \in Range(Program), NEW f, AtWork(b, f)
    PROVE  /\ f.at \in Nodes /\ f.at \in Nat /\ f.part \in Nat \ {0} /\ f.next \in Nat \ {0}
           /\ f.part \in 1 .. Len(Subs(f.at)) /\ Len(Subs(f.at)) \in Nat
           /\ List(f) \in Seq(Nat) /\ Len(List(f)) \in Nat /\ f.next <= Len(List(f)) + 1
           /\ DOMAIN List(f) = 1 .. Len(List(f))
           /\ Range(List(f)) = Under(f.at, f.part)
           /\ \A m \in 1 .. Len(List(f)) : /\ List(f)[m] \in Under(f.at, f.part)
                                           /\ List(f)[m] \in OpsOf(b)
                                           /\ List(f)[m] \in Nat /\ f.at < List(f)[m]
           /\ \A m, o \in 1 .. Len(List(f)) : m < o => List(f)[m] < List(f)[o]
<1>1. f.at \in Home(b) /\ f.part \in DOMAIN Subs(f.at) /\ f.next \in 1 .. Len(List(f)) + 1
  BY DEF AtWork
<1>2. f.at \in Nodes /\ f.at \in Nat
  BY <1>1, Homes
<1>3. /\ DOMAIN Subs(f.at) = 1 .. Len(Subs(f.at)) /\ Len(Subs(f.at)) \in Nat
      /\ List(f) \in Seq(Nat) /\ Ascending(List(f)) /\ Range(List(f)) = Under(f.at, f.part)
      /\ Len(List(f)) \in Nat /\ DOMAIN List(f) = 1 .. Len(List(f))
  BY <1>1, <1>2, TreeLists DEF List
<1>4. f.part \in 1 .. Len(Subs(f.at)) /\ f.part \in Nat \ {0}
  BY <1>1, <1>3
<1>5. f.next \in Nat \ {0} /\ f.next <= Len(List(f)) + 1
  BY <1>1, <1>3
<1>6. ASSUME NEW m \in 1 .. Len(List(f))
      PROVE  /\ List(f)[m] \in Under(f.at, f.part) /\ List(f)[m] \in OpsOf(b)
             /\ List(f)[m] \in Nat /\ f.at < List(f)[m]
  <2>1. List(f)[m] \in Under(f.at, f.part)
    BY <1>3 DEF Range
  <2>2. List(f)[m] \in OpsOf(b)
    BY <1>1, <2>1, ChildBody
  <2>3. List(f)[m] \in Nat
    BY <1>3
  <2>4. f.at < List(f)[m]
    BY <2>1, Child
  <2> QED BY <2>1, <2>2, <2>3, <2>4
<1>7. \A m, o \in 1 .. Len(List(f)) : m < o => List(f)[m] < List(f)[o]
  BY <1>3 DEF Ascending
<1> QED BY <1>2, <1>3, <1>4, <1>5, <1>6, <1>7

\* Which op of its list something is in.
LEMMA Place ==
    ASSUME Tree, NEW b \in Range(Program), NEW f, AtWork(b, f), NEW p \in OpsOf(b),
           NEW i \in 1 .. Len(Around(p)), Around(p)[i].at = f.at, Around(p)[i].part = f.part
    PROVE  \E m \in 1 .. Len(List(f)) :
             /\ List(f)[m] <= p
             /\ \A o \in 1 .. Len(List(f)) : m < o => p < List(f)[o]
             /\ List(f)[m] = p \/ Inside(List(f)[m], p)
<1>1. p \in Starts \ Definitions /\ p \in Nat
  <2>1. p \in 1 .. Here
    BY InBody
  <2> QED BY <2>1, InBody
<1>2. i = 1 => ~Function(p)
  BY InBody DEF AtWork
<1>3. PICK q \in Under(f.at, f.part) :
        /\ q <= p
        /\ \/ q = p /\ i = Len(Around(p))
           \/ i + 1 \in 2 .. Len(Around(p)) /\ Around(p)[i + 1].at = q
        /\ \A k : \A x \in Under(f.at, k) : q < x => p < x
  BY <1>1, <1>2, Ancestor
<1>4. /\ Range(List(f)) = Under(f.at, f.part) /\ DOMAIN List(f) = 1 .. Len(List(f))
      /\ \A m \in 1 .. Len(List(f)) : List(f)[m] \in Under(f.at, f.part)
      /\ \A m, o \in 1 .. Len(List(f)) : m < o => List(f)[m] < List(f)[o]
  BY WorkFacts
<1>5. PICK m \in 1 .. Len(List(f)) : List(f)[m] = q
  BY <1>3, <1>4 DEF Range
<1>6. \A o \in 1 .. Len(List(f)) : m < o => p < List(f)[o]
  <2>1. ASSUME NEW o \in 1 .. Len(List(f)), m < o PROVE p < List(f)[o]
    <3>1. q < List(f)[o] /\ List(f)[o] \in Under(f.at, f.part)
      BY <1>4, <1>5, <2>1
    <3> QED BY <1>3, <3>1
  <2> QED BY <2>1
<1>7. q = p \/ Inside(q, p)
  <2>1. ASSUME i + 1 \in 2 .. Len(Around(p)), Around(p)[i + 1].at = q PROVE Inside(q, p)
    <3>1. i + 1 \in 1 .. Len(Around(p))
      BY <2>1
    <3> QED BY <2>1, <3>1 DEF Inside
  <2> QED BY <1>3, <2>1
<1> QED BY <1>3, <1>5, <1>6, <1>7

\* In a part before that of an op is in front of the op.
LEMMA PartsInOrder ==
    ASSUME Tree, NEW b, NEW p \in OpsOf(b), NEW i \in 1 .. Len(Around(p)),
           NEW k, NEW x \in Under(Around(p)[i].at, k), Around(p)[i].part < k
    PROVE  p < x
<1> DEFINE a == Around(p)[i].at
           n == Len(Around(x))
<1>1. p \in 1 .. Here /\ p \in Nat
  <2>1. p \in 1 .. Here
    BY InBody
  <2> QED BY <2>1
<1>2. /\ x \in 1 .. Here /\ a < x /\ n \in Nat /\ n > 0
      /\ Around(x)[n].at = a /\ Around(x)[n].part = k
  BY Child
<1>3. ASSUME ~(p < x) PROVE FALSE
  <2>1. x <= p
    BY <1>1, <1>2, <1>3
  <2>2. i \in 1 .. n /\ Around(x)[i].at = a /\ Around(x)[i].part <= Around(p)[i].part
    BY <1>1, <1>2, <2>1, Earlier
  <2>3. i = n
    <3>1. n \in 1 .. n /\ ParserTypeOK
      BY <1>2, Whole
    <3> QED BY <1>2, <2>2, <3>1, Unique
  <2>4. Around(p)[i].part \in Nat /\ k \in Nat
    <3>1. Around(p)[i].part \in Nat \ {0}
      BY <1>1, Whole, Positions
    <3>2. i \in 1 .. Len(Around(x)) /\ Around(x)[i].part = k
      BY <1>2, <2>2, <2>3
    <3>3. k \in Nat \ {0}
      BY <1>2, <3>2, Whole, Positions
    <3> QED BY <3>1, <3>3
  <2> QED BY <1>2, <2>2, <2>3, <2>4
<1> QED BY <1>3

\* In front of an op of a list: before the construct, or in its parts so far.
LEMMA InFront ==
    ASSUME Tree, NEW b, NEW p \in OpsOf(b), NEW a, NEW k, NEW x \in Under(a, k),
           p <= x, ~(p <= a)
    PROVE  \E i \in 1 .. Len(Around(p)) : Around(p)[i].at = a /\ Around(p)[i].part <= k
<1>1. p \in 1 .. Here
  BY InBody
<1>2. /\ x \in 1 .. Here /\ a \in Nat
      /\ Len(Around(x)) \in Nat /\ Len(Around(x)) > 0
      /\ Around(x)[Len(Around(x))].at = a /\ Around(x)[Len(Around(x))].part = k
  BY Child
<1>3. Len(Around(x)) \in 1 .. Len(Around(x)) /\ a < p
  BY <1>1, <1>2
<1> QED BY <1>1, <1>2, <1>3, Earlier

LEMMA PastNew ==
    ASSUME Tree, NEW b \in Range(Program), NEW f, AtWork(b, f), f.next = 1, NEW p \in OpsOf(b)
    PROVE  Past(f, p) <=> \/ p <= f.at
                          \/ \E i \in 1 .. Len(Around(p)) :
                               Around(p)[i].at = f.at /\ Around(p)[i].part < f.part
<1>1. ASSUME NEW i \in 1 .. Len(Around(p)), Around(p)[i].at = f.at, Around(p)[i].part = f.part,
             f.next <= Len(List(f)) => p < List(f)[f.next]
      PROVE  FALSE
  <2>1. PICK m \in 1 .. Len(List(f)) : List(f)[m] <= p
    BY <1>1, Place
  <2>2. /\ Len(List(f)) \in Nat /\ \A o \in 1 .. Len(List(f)) : List(f)[o] \in Nat
        /\ \A u, o \in 1 .. Len(List(f)) : u < o => List(f)[u] < List(f)[o]
    BY WorkFacts
  <2>3. 1 \in 1 .. Len(List(f)) /\ p < List(f)[1] /\ (m # 1 => List(f)[1] < List(f)[m])
    BY <1>1, <2>2
  <2>4. p \in Nat
    <3>1. p \in 1 .. Here
      BY InBody
    <3> QED BY <3>1
  <2>5. List(f)[1] \in Nat /\ List(f)[m] \in Nat
    BY <2>2, <2>3
  <2> QED BY <2>1, <2>3, <2>4, <2>5
<1> QED BY <1>1 DEF Past

LEMMA PastItem ==
    ASSUME Tree, NEW b \in Range(Program), NEW f, AtWork(b, f), f.next <= Len(List(f)),
           NEW p \in OpsOf(b)
    PROVE  Past(f, p) <=> p < List(f)[f.next]
<1> DEFINE x == List(f)[f.next]
<1>1. /\ f.next \in 1 .. Len(List(f)) /\ f.part \in Nat /\ f.at \in Nat
      /\ x \in Under(f.at, f.part) /\ x \in Nat /\ f.at < x
  <2>1. f.next \in Nat \ {0} /\ Len(List(f)) \in Nat /\ f.part \in Nat /\ f.at \in Nat
    BY WorkFacts
  <2>2. f.next \in 1 .. Len(List(f))
    BY <2>1
  <2> QED BY <2>1, <2>2, WorkFacts
<1>2. p \in 1 .. Here /\ p \in Nat
  <2>1. p \in 1 .. Here
    BY InBody
  <2> QED BY <2>1
<1>3. ASSUME p < x PROVE Past(f, p)
  <2>1. CASE p <= f.at
    BY <2>1 DEF Past
  <2>2. CASE ~(p <= f.at)
    <3>1. PICK i \in 1 .. Len(Around(p)) : Around(p)[i].at = f.at /\ Around(p)[i].part <= f.part
      <4>1. p <= x
        BY <1>1, <1>2, <1>3
      <4> HIDE DEF x
      <4> QED BY <1>1, <2>2, <4>1, InFront
    <3>2. Around(p)[i].part \in Nat
      BY <1>2, Whole, Positions
    <3>3. Around(p)[i].part < f.part \/ Around(p)[i].part = f.part
      BY <1>1, <3>1, <3>2
    <3> QED BY <1>3, <3>1, <3>3 DEF Past
  <2> QED BY <2>1, <2>2
<1>4. ASSUME Past(f, p) PROVE p < x
  <2>1. CASE p <= f.at
    BY <1>1, <1>2, <2>1
  <2>2. CASE \E i \in 1 .. Len(Around(p)) :
               Around(p)[i].at = f.at /\ Around(p)[i].part < f.part
    <3>1. PICK i \in 1 .. Len(Around(p)) : Around(p)[i].at = f.at /\ Around(p)[i].part < f.part
      BY <2>2
    <3> HIDE DEF x
    <3> QED BY <1>1, <3>1, PartsInOrder
  <2> QED BY <1>4, <2>1, <2>2 DEF Past
<1> QED BY <1>3, <1>4

LEMMA PastAfter ==
    ASSUME Tree, NEW b \in Range(Program), NEW f, AtWork(b, f), f.next > 1,
           NEW p \in OpsOf(b)
    PROVE  LET x == List(f)[f.next - 1] IN
           /\ f.next - 1 \in 1 .. Len(List(f))
           /\ Past(f, p) <=> p <= x \/ Inside(x, p)
<1> DEFINE m == f.next - 1
           l == List(f)
           x == l[m]
<1>1. /\ f.next \in Nat \ {0} /\ f.next <= Len(l) + 1 /\ Len(l) \in Nat /\ f.part \in Nat /\ f.at \in Nat
      /\ \A o \in 1 .. Len(l) : l[o] \in Under(f.at, f.part) /\ l[o] \in Nat /\ f.at < l[o]
      /\ \A u, o \in 1 .. Len(l) : u < o => l[u] < l[o]
      /\ \A o \in 1 .. Len(l) : l[o] \in OpsOf(b)
  BY WorkFacts
<1>2. m \in 1 .. Len(l) /\ (f.next <= Len(l) => f.next \in 1 .. Len(l) /\ m < f.next)
  BY <1>1
<1>3. x \in Under(f.at, f.part) /\ x \in Nat /\ f.at < x /\ x \in OpsOf(b)
      /\ (f.next <= Len(l) => x < l[f.next])
  BY <1>1, <1>2
<1>4. p \in 1 .. Here /\ p \in Nat
  <2>1. p \in 1 .. Here
    BY InBody
  <2> QED BY <2>1
<1>5. ASSUME p <= x PROVE Past(f, p)
  <2>1. CASE p <= f.at
    BY <2>1 DEF Past
  <2>2. CASE ~(p <= f.at)
    <3>1. PICK i \in 1 .. Len(Around(p)) : Around(p)[i].at = f.at /\ Around(p)[i].part <= f.part
      <4> HIDE DEF x
      <4> QED BY <1>3, <1>5, <2>2, InFront
    <3>2. Around(p)[i].part \in Nat
      BY <1>4, Whole, Positions
    <3>3. Around(p)[i].part < f.part \/ Around(p)[i].part = f.part
      BY <1>1, <3>1, <3>2
    <3>4. f.next <= Len(l) => p < l[f.next]
      <4>1. f.next <= Len(l) => l[f.next] \in Nat /\ x < l[f.next]
        BY <1>1, <1>2, <1>3
      <4> HIDE DEF x
      <4> QED BY <1>3, <1>4, <1>5, <4>1
    <3> QED BY <3>1, <3>3, <3>4 DEF Past
  <2> QED BY <2>1, <2>2
<1>6. ASSUME Inside(x, p) PROVE Past(f, p)
  <2> DEFINE n == Len(Around(x))
  <2>1. PICK r \in 1 .. Len(Around(p)) : Around(p)[r].at = x
    BY <1>6 DEF Inside
  <2>2. /\ n \in Nat /\ n > 0 /\ Around(x)[n].at = f.at /\ Around(x)[n].part = f.part
        /\ x \in 1 .. Here /\ x # 0 /\ x \in Nat
    <3> HIDE DEF x
    <3>1. /\ Len(Around(x)) \in Nat /\ Len(Around(x)) > 0 /\ Around(x)[Len(Around(x))].at = f.at
          /\ Around(x)[Len(Around(x))].part = f.part /\ x \in 1 .. Here
      BY <1>3, Child
    <3>2. x # 0
      BY <1>3, InBody
    <3> QED BY <1>3, <3>1, <3>2
  <2> HIDE DEF x
  <2>3. Around(p)[1].at = 0 /\ Len(Around(p)) \in Nat
    <3>1. Len(Around(p)) \in Nat
      BY <1>4, Whole, Positions
    <3> QED BY <1>4, <3>1, AroundOps
  <2>4. r \in 2 .. Len(Around(p))
    BY <2>1, <2>2, <2>3
  <2>5. /\ Len(Around(x)) = r - 1 /\ \A u \in 1 .. r - 1 : Around(x)[u] = Around(p)[u]
        /\ x \in 1 .. p - 1
    BY <1>4, <2>1, <2>4, Whole, Positions, SMTT(30)
  <2>6. n \in 1 .. Len(Around(p)) /\ Around(p)[n] = Around(x)[n]
    BY <2>1, <2>2, <2>3, <2>5
  <2>7. Around(p)[n].at = f.at /\ Around(p)[n].part = f.part
    BY <2>2, <2>6
  <2>8. ASSUME f.next <= Len(l), ~(p < l[f.next]) PROVE FALSE
    <3> DEFINE y == l[f.next]
    <3>1. y \in Under(f.at, f.part) /\ y \in Nat /\ x < y
      BY <1>1, <1>2, <1>3, <2>8
    <3>2. /\ Len(Around(y)) \in Nat /\ Len(Around(y)) > 0 /\ Around(y)[Len(Around(y))].at = f.at
          /\ y \in 1 .. Here
      <4> HIDE DEF y
      <4> QED BY <3>1, Child
    <3>3. y <= p
      BY <1>4, <2>8, <3>1
    <3> HIDE DEF y
    <3>4. r \in 1 .. Len(Around(y))
      BY <1>4, <2>1, <3>1, <3>2, <3>3, Earlier
    <3>5. f.at < y
      BY <1>1, <1>3, <2>2, <3>1
    <3>6. n \in 1 .. Len(Around(y)) /\ Around(y)[n].at = f.at
      BY <1>4, <2>6, <2>7, <3>2, <3>3, <3>5, Earlier
    <3>7. Len(Around(y)) \in 1 .. Len(Around(y))
      BY <3>2
    <3>8. Len(Around(y)) = n
      BY <3>2, <3>6, <3>7, Unique, Whole
    <3> QED BY <2>2, <2>5, <3>4, <3>8
  <2> QED BY <2>6, <2>7, <2>8 DEF Past
<1>7. ASSUME Past(f, p) PROVE p <= x \/ Inside(x, p)
  <2>1. CASE p <= f.at
    <3> HIDE DEF x
    <3> QED BY <1>1, <1>3, <1>4, <2>1
  <2>2. CASE \E i \in 1 .. Len(Around(p)) :
               Around(p)[i].at = f.at /\ Around(p)[i].part < f.part
    <3>1. PICK i \in 1 .. Len(Around(p)) : Around(p)[i].at = f.at /\ Around(p)[i].part < f.part
      BY <2>2
    <3> HIDE DEF x
    <3>2. p < x
      BY <1>3, <3>1, PartsInOrder
    <3> QED BY <1>3, <1>4, <3>2
  <2>3. CASE \E i \in 1 .. Len(Around(p)) :
               /\ Around(p)[i].at = f.at /\ Around(p)[i].part = f.part
               /\ f.next <= Len(l) => p < l[f.next]
    <3>1. PICK i \in 1 .. Len(Around(p)) :
               /\ Around(p)[i].at = f.at /\ Around(p)[i].part = f.part
               /\ f.next <= Len(l) => p < l[f.next]
      BY <2>3
    <3>2. PICK u \in 1 .. Len(l) :
             /\ l[u] <= p
             /\ \A o \in 1 .. Len(l) : u < o => p < l[o]
             /\ l[u] = p \/ Inside(l[u], p)
      BY <3>1, Place
    <3>3. CASE u = m
      <4>1. x = p \/ Inside(x, p)
        BY <3>2, <3>3
      <4> HIDE DEF x
      <4> QED BY <1>3, <1>4, <4>1
    <3>4. CASE u < m
      <4>1. p < x
        BY <1>2, <3>2, <3>4
      <4> HIDE DEF x
      <4> QED BY <1>3, <1>4, <4>1
    <3>5. CASE m < u
      <4>1. f.next <= Len(l) /\ f.next <= u /\ u \in Nat /\ f.next \in 1 .. Len(l)
        BY <1>1, <1>2, <3>5
      <4>2. l[f.next] \in Nat /\ l[u] \in Nat /\ (f.next = u \/ l[f.next] < l[u])
        BY <1>1, <4>1
      <4> HIDE DEF x, l
      <4> QED BY <1>4, <3>1, <3>2, <4>1, <4>2
    <3> QED BY <1>1, <1>2, <3>3, <3>4, <3>5
  <2> QED BY <1>7, <2>1, <2>2, <2>3 DEF Past
<1> QED BY <1>2, <1>5, <1>6, <1>7

LEMMA PastLast ==
    ASSUME Tree, NEW b \in Range(Program), NEW f, AtWork(b, f), f.next > Len(List(f)),
           f.part = Len(Subs(f.at)), NEW p \in OpsOf(b)
    PROVE  Past(f, p) <=> p <= f.at \/ Inside(f.at, p)
<1>1. /\ f.part \in Nat /\ f.at \in Nat /\ f.at \in Nodes /\ Len(List(f)) \in Nat /\ f.next \in Nat
      /\ ~(f.next <= Len(List(f)))
  BY WorkFacts
<1>2. p \in 1 .. Here
  BY InBody
<1>3. ASSUME NEW i \in 1 .. Len(Around(p)), Around(p)[i].at = f.at
      PROVE  Around(p)[i].part < f.part \/ Around(p)[i].part = f.part
  <2> DEFINE e == Around(p)[i]
  <2>1. e.part \in Nat
    BY <1>2, Whole, Positions
  <2>2. e.part \in DOMAIN Subs(f.at)
    <3>1. CASE i = 1
      <4>1. e.at = 0 /\ e.part = 1
        BY <1>2, <3>1, AroundOps
      <4>2. Subs(f.at) = open[1].lists /\ Len(open[1].lists) = 1
        BY <1>3, <4>1, Whole DEF Subs
      <4>3. DOMAIN Subs(f.at) = 1 .. 1
        BY <1>1, <4>2, TreeLists
      <4> QED BY <4>1, <4>3
    <3>2. CASE i # 1
      <4>1. i \in 2 .. Len(Around(p))
        BY <3>2
      <4>2. e.at \in DOMAIN ops /\ e.at # 0 /\ e.part \in DOMAIN ops[e.at].subs
        BY <1>2, <4>1, AroundOps
      <4> HIDE DEF e
      <4>3. e.at = f.at
        BY <1>3 DEF e
      <4> QED BY <4>2, <4>3 DEF Subs
    <3> QED BY <3>1, <3>2
  <2> HIDE DEF e
  <2>3. e.part \in 1 .. f.part
    <3>1. DOMAIN Subs(f.at) = 1 .. Len(Subs(f.at))
      BY <1>1, TreeLists
    <3> QED BY <2>2, <3>1
  <2>4. e.part < f.part \/ e.part = f.part
    BY <1>1, <2>3
  <2> QED BY <2>4 DEF e
<1> QED BY <1>1, <1>3 DEF Past, Inside

Visited(b, f) == {p \in OpsOf(b) : Past(f, p)}

LEMMA VisitStart ==
    ASSUME Tree, NEW b \in Range(Program), NEW f, f.at = b, f.part = 1, f.next = 1
    PROVE  AtWork(b, f) /\ Visited(b, f) = {}
<1>1. b \in Nodes /\ 1 \in DOMAIN Subs(b)
  BY Programs
<1>2. AtWork(b, f)
  <2>1. Len(Subs(b)[1]) \in Nat
    BY <1>1, TreeLists
  <2>2. 1 \in 1 .. Len(Subs(b)[1]) + 1
    BY <2>1
  <2> QED BY <1>1, <2>2 DEF AtWork, List, Home
<1>3. ASSUME NEW p \in OpsOf(b) PROVE ~Past(f, p)
  <2>1. b < p /\ b \in Nat /\ p \in 1 .. Here
    BY InBody
  <2>2. \A i \in 1 .. Len(Around(p)) : Around(p)[i].part \in Nat \ {0}
    BY <2>1, Whole, Positions
  <2>3. p \in Nat
    BY <2>1
  <2>4. ~(p <= f.at)
    BY <2>1, <2>3
  <2>5. \A i \in 1 .. Len(Around(p)) : ~(Around(p)[i].part < f.part)
    BY <2>2
  <2> QED BY <1>2, <2>4, <2>5, PastNew
<1> QED BY <1>2, <1>3 DEF Visited

LEMMA Leafless ==
    ASSUME Tree, NEW p \in 1 .. Here, NEW x, x # 0, Inside(x, p)
    PROVE  x \in DOMAIN ops /\ ops[x].subs # <<>>
<1>1. PICK i \in 1 .. Len(Around(p)) : Around(p)[i].at = x
  BY DEF Inside
<1>2. i # 1
  BY <1>1, AroundOps
<1>3. i \in 2 .. Len(Around(p))
  BY <1>1, <1>2
<1>4. x \in DOMAIN ops /\ Around(p)[i].part \in DOMAIN ops[x].subs
  BY <1>1, <1>3, AroundOps
<1>5. \A s : s = <<>> => DOMAIN s = {}
  OBVIOUS
<1> QED BY <1>4, <1>5

LEMMA VisitOver ==
    ASSUME Tree, NEW b \in Range(Program), NEW f, AtWork(b, f), f.next <= Len(List(f)),
           NEW g, g.at = f.at, g.part = f.part, g.next = f.next + 1,
           NEW x, x = List(f)[f.next]
    PROVE  /\ AtWork(b, g) /\ g.next > 1 /\ List(g) = List(f) /\ List(g)[g.next - 1] = x
           /\ x \in OpsOf(b)
           /\ ops[x].subs = <<>> => Visited(b, g) = Visited(b, f) \cup {x}
<1>1. /\ f.next \in Nat \ {0} /\ Len(List(f)) \in Nat
      /\ \A m \in 1 .. Len(List(f)) : List(f)[m] \in OpsOf(b)
  BY WorkFacts
<1>2. List(g) = List(f) /\ g.next - 1 = f.next /\ g.next > 1
      /\ f.next \in 1 .. Len(List(f)) /\ g.next \in 1 .. Len(List(f)) + 1
  BY <1>1 DEF List
<1>3. AtWork(b, g)
  BY <1>2 DEF AtWork
<1>4. x \in OpsOf(b) /\ x # 0 /\ x \in Nat
  <2>1. x \in OpsOf(b)
    BY <1>1, <1>2
  <2>2. x \in 1 .. Here /\ x # 0
    BY <2>1, InBody
  <2> QED BY <2>1, <2>2
<1>5. ASSUME NEW p \in OpsOf(b), ops[x].subs = <<>>
      PROVE  Past(g, p) <=> Past(f, p) \/ p = x
  <2>1. Past(f, p) <=> p < x
    BY PastItem
  <2>2. Past(g, p) <=> p <= x \/ Inside(x, p)
    BY <1>2, <1>3, PastAfter
  <2>3. p \in 1 .. Here
    BY InBody
  <2>4. ~Inside(x, p)
    BY <1>4, <1>5, <2>3, Leafless
  <2>5. p \in Nat
    BY <2>3
  <2> QED BY <1>4, <2>1, <2>2, <2>4, <2>5
<1>6. ops[x].subs = <<>> => Visited(b, g) = Visited(b, f) \cup {x}
  BY <1>4, <1>5 DEF Visited
<1> QED BY <1>2, <1>3, <1>4, <1>6

LEMMA VisitDown ==
    ASSUME Tree, NEW b \in Range(Program), NEW f, AtWork(b, f), f.next <= Len(List(f)),
           NEW x, x = List(f)[f.next], ops[x].subs # <<>>,
           NEW g, g.at = x, g.part = 1, g.next = 1
    PROVE  AtWork(b, g) /\ Visited(b, g) = Visited(b, f) \cup {x}
<1>1. f.next \in 1 .. Len(List(f))
  <2>1. f.next \in Nat \ {0} /\ Len(List(f)) \in Nat
    BY WorkFacts
  <2> QED BY <2>1
<1>2. x \in OpsOf(b) /\ x \in Nat
  BY <1>1, WorkFacts
<1>3. x \in Home(b) /\ x \in DOMAIN ops /\ x # 0 /\ x \in Nodes /\ Subs(x) = ops[x].subs
  <2>1. x \in DOMAIN ops /\ x # 0
    BY <1>2, InBody
  <2> QED BY <1>2, <2>1 DEF Home, Nodes, Subs
<1>4. AtWork(b, g)
  <2>1. Len(Subs(x)) \in Nat /\ DOMAIN Subs(x) = 1 .. Len(Subs(x)) /\ Subs(x) \in Seq(Seq(Nat))
    BY <1>3, TreeLists
  <2>2. 1 \in DOMAIN Subs(x)
    <3> DEFINE s == Subs(x)
               P == Seq(Nat)
    <3>1. s \in Seq(P) /\ s # <<>> /\ DOMAIN s = 1 .. Len(s)
      BY <1>3, <2>1
    <3> HIDE DEF s, P
    <3>2. 1 \in DOMAIN s
      BY <3>1
    <3> QED BY <3>2 DEF s
  <2>3. Len(Subs(x)[1]) \in Nat
    BY <1>3, <2>2, TreeLists
  <2>4. 1 \in 1 .. Len(Subs(x)[1]) + 1
    BY <2>3
  <2> QED BY <1>3, <2>2, <2>4 DEF AtWork, List
<1>5. ASSUME NEW p \in OpsOf(b)
      PROVE  Past(g, p) <=> Past(f, p) \/ p = x
  <2>1. Past(f, p) <=> p < x
    BY PastItem
  <2>2. p \in 1 .. Here
    BY InBody
  <2>3. \A i \in 1 .. Len(Around(p)) : Around(p)[i].part \in Nat \ {0}
    BY <2>2, Whole, Positions
  <2>4. \A i \in 1 .. Len(Around(p)) : ~(Around(p)[i].part < g.part)
    BY <2>3
  <2>5. Past(g, p) <=> p <= x
    BY <1>4, <2>4, PastNew
  <2>6. p \in Nat
    BY <2>2
  <2> QED BY <1>2, <2>1, <2>5, <2>6
<1> QED BY <1>2, <1>4, <1>5 DEF Visited

LEMMA VisitOn ==
    ASSUME Tree, NEW b \in Range(Program), NEW f, AtWork(b, f), f.next > Len(List(f)),
           f.part # Len(Subs(f.at)),
           NEW g, g.at = f.at, g.part = f.part + 1, g.next = 1
    PROVE  AtWork(b, g) /\ Visited(b, g) = Visited(b, f)
<1>1. /\ f.at \in Home(b) /\ f.at \in Nodes /\ f.part \in 1 .. Len(Subs(f.at))
      /\ Len(Subs(f.at)) \in Nat /\ Len(List(f)) \in Nat /\ f.next \in Nat
      /\ ~(f.next <= Len(List(f)))
  BY WorkFacts DEF AtWork
<1>2. g.part \in DOMAIN Subs(f.at)
  <2>1. g.part \in 1 .. Len(Subs(f.at))
    BY <1>1
  <2> QED BY <1>1, <2>1, TreeLists
<1>3. AtWork(b, g)
  <2>1. Len(List(g)) \in Nat
    BY <1>1, <1>2, TreeLists DEF List
  <2>2. 1 \in 1 .. Len(List(g)) + 1
    BY <2>1
  <2> QED BY <1>1, <1>2, <2>2 DEF AtWork
<1>4. ASSUME NEW p \in OpsOf(b) PROVE Past(g, p) <=> Past(f, p)
  <2>1. p \in 1 .. Here
    BY InBody
  <2>2. \A i \in 1 .. Len(Around(p)) : Around(p)[i].part \in Nat
    BY <2>1, Whole, Positions
  <2>3. \A i \in 1 .. Len(Around(p)) :
          Around(p)[i].part < g.part <=> Around(p)[i].part < f.part \/ Around(p)[i].part = f.part
    BY <1>1, <2>2
  <2>4. Past(g, p) <=> \/ p <= g.at
                       \/ \E i \in 1 .. Len(Around(p)) :
                            Around(p)[i].at = g.at /\ Around(p)[i].part < g.part
    BY <1>3, PastNew
  <2> QED BY <1>1, <2>3, <2>4 DEF Past
<1> QED BY <1>3, <1>4 DEF Visited

LEMMA VisitUp ==
    ASSUME Tree, NEW b \in Range(Program), NEW f, AtWork(b, f), f.next > Len(List(f)),
           f.part = Len(Subs(f.at)),
           NEW g, AtWork(b, g), g.next > 1, f.at = List(g)[g.next - 1]
    PROVE  Visited(b, g) = Visited(b, f)
<1>1. ASSUME NEW p \in OpsOf(b) PROVE Past(g, p) <=> Past(f, p)
  <2>1. Past(f, p) <=> p <= f.at \/ Inside(f.at, p)
    BY PastLast
  <2>2. Past(g, p) <=> p <= f.at \/ Inside(f.at, p)
    BY PastAfter
  <2> QED BY <2>1, <2>2
<1> QED BY <1>1 DEF Visited

LEMMA VisitAll ==
    ASSUME Tree, NEW b \in Range(Program), NEW f, AtWork(b, f), f.next > Len(List(f)),
           f.part = Len(Subs(f.at)), f.at = b
    PROVE  Visited(b, f) = OpsOf(b)
<1>1. ASSUME NEW p \in OpsOf(b) PROVE Past(f, p)
  <2>1. Past(f, p) <=> p <= f.at \/ Inside(f.at, p)
    BY PastLast
  <2>2. Inside(f.at, p)
    BY InBody DEF Inside
  <2> QED BY <2>1, <2>2
<1> QED BY <1>1 DEF Visited

--------------------------------------------------------------------------------
(* The activations of a walk.                                                *)

Chain(b, c) ==
    /\ \A i \in 1 .. Len(c) :
         /\ AtWork(b, c[i])
         /\ i > 1 => c[i - 1].next > 1 /\ c[i].at = List(c[i - 1])[c[i - 1].next - 1]
    /\ c # <<>> => c[1].at = b

LEMMA ChainStart ==
    ASSUME Tree, NEW b \in Range(Program), NEW S, NEW f \in S, f.at = b, f.part = 1, f.next = 1
    PROVE  /\ <<f>> \in Seq(S) /\ Len(<<f>>) = 1 /\ <<f>> # <<>> /\ Last(<<f>>) = f
           /\ <<f>>[1] = f /\ Chain(b, <<f>>)
<1>1. <<f>> \in Seq(S) /\ Len(<<f>>) = 1 /\ <<f>> # <<>> /\ Last(<<f>>) = f /\ <<f>>[1] = f
  BY DEF Last
<1>2. AtWork(b, f)
  BY VisitStart
<1> DEFINE c == <<f>>
<1>3. Len(c) = 1 /\ c[1] = f
  BY <1>1
<1> HIDE DEF c
<1>4. ASSUME NEW i \in 1 .. Len(c) PROVE i = 1
  BY <1>3
<1>5. Chain(b, c)
  BY <1>2, <1>3, <1>4 DEF Chain
<1> QED BY <1>1, <1>5 DEF c

\* An activation goes on.
LEMMA ChainLast ==
    ASSUME NEW b, NEW S, NEW c \in Seq(S), c # <<>>, Chain(b, c), NEW g \in S, AtWork(b, g),
           g.at = Last(c).at
    PROVE  LET d == Append(Front(c), g) IN
           /\ d \in Seq(S) /\ Len(d) = Len(c) /\ Len(c) \in Nat /\ Len(c) > 0
           /\ d # <<>> /\ Last(d) = g /\ d[1].at = c[1].at
           /\ \A i \in 1 .. Len(c) - 1 : d[i] = c[i]
           /\ d[Len(c)] = g
           /\ Chain(b, d)
<1> DEFINE d == Append(Front(c), g)
           n == Len(c)
<1>1. /\ d \in Seq(S) /\ d # <<>> /\ Len(d) = n /\ n \in Nat
      /\ \A i \in 1 .. n - 1 : d[i] = c[i]
      /\ d[n] = g
  BY Exchanged
<1>2. n > 0 /\ Last(c) = c[n]
  BY Ended
<1> HIDE DEF d, n
<1>3. Last(d) = g
  BY <1>1 DEF Last
<1>4. /\ \A i \in 1 .. n :
           /\ AtWork(b, c[i])
           /\ i > 1 => c[i - 1].next > 1 /\ c[i].at = List(c[i - 1])[c[i - 1].next - 1]
      /\ c[1].at = b
  BY DEF Chain, n
<1>5. \A i \in 1 .. n : d[i].at = c[i].at
  <2>1. ASSUME NEW i \in 1 .. n PROVE d[i].at = c[i].at
    <3>1. CASE i = n
      BY <1>1, <1>2, <3>1
    <3>2. CASE i # n
      <4>1. i \in 1 .. n - 1
        BY <1>1, <3>2
      <4> QED BY <1>1, <4>1
    <3> QED BY <3>1, <3>2
  <2> QED BY <2>1
<1>6. ASSUME NEW i \in 1 .. n
      PROVE  /\ AtWork(b, d[i])
             /\ i > 1 => d[i - 1].next > 1 /\ d[i].at = List(d[i - 1])[d[i - 1].next - 1]
  <2>1. AtWork(b, d[i])
    <3>1. CASE i = n
      BY <1>1, <3>1
    <3>2. CASE i # n
      <4>1. i \in 1 .. n - 1
        BY <1>1, <3>2
      <4> QED BY <1>1, <1>4, <4>1
    <3> QED BY <3>1, <3>2
  <2>2. ASSUME i > 1 PROVE d[i - 1].next > 1 /\ d[i].at = List(d[i - 1])[d[i - 1].next - 1]
    <3>1. i - 1 \in 1 .. n - 1 /\ d[i - 1] = c[i - 1]
      BY <1>1, <2>2
    <3> QED BY <1>4, <1>5, <2>2, <3>1
  <2> QED BY <2>1, <2>2
<1>7. d[1].at = c[1].at
  <2>1. 1 \in 1 .. n
    BY <1>1, <1>2
  <2> QED BY <1>5, <2>1
<1>8. Chain(b, d)
  BY <1>1, <1>4, <1>6, <1>7 DEF Chain
<1> QED BY <1>1, <1>2, <1>3, <1>7, <1>8 DEF d, n

\* The op in front is entered.
LEMMA ChainPush ==
    ASSUME NEW b, NEW S, NEW c \in Seq(S), c # <<>>, Chain(b, c), NEW g \in S, AtWork(b, g),
           Last(c).next > 1, g.at = List(Last(c))[Last(c).next - 1]
    PROVE  LET d == Append(c, g) IN
           /\ d \in Seq(S) /\ Len(d) = Len(c) + 1 /\ Len(c) \in Nat /\ Len(c) > 0
           /\ d # <<>> /\ Last(d) = g /\ d[1].at = c[1].at
           /\ \A i \in 1 .. Len(c) : d[i] = c[i]
           /\ d[Len(c) + 1] = g
           /\ Chain(b, d)
<1> DEFINE d == Append(c, g)
           n == Len(c)
<1>1. /\ d \in Seq(S) /\ d # <<>> /\ Len(d) = n + 1 /\ n \in Nat
      /\ \A i \in 1 .. n : d[i] = c[i]
      /\ d[n + 1] = g
  BY Appended
<1>2. n > 0 /\ Last(c) = c[n]
  BY Ended
<1> HIDE DEF d, n
<1>3. Last(d) = g
  BY <1>1 DEF Last
<1>4. /\ \A i \in 1 .. n :
           /\ AtWork(b, c[i])
           /\ i > 1 => c[i - 1].next > 1 /\ c[i].at = List(c[i - 1])[c[i - 1].next - 1]
      /\ c[1].at = b
  BY DEF Chain, n
<1>5. d[1] = c[1]
  <2>1. 1 \in 1 .. n
    BY <1>1, <1>2
  <2> QED BY <1>1, <2>1
<1>6. ASSUME NEW i \in 1 .. n + 1
      PROVE  /\ AtWork(b, d[i])
             /\ i > 1 => d[i - 1].next > 1 /\ d[i].at = List(d[i - 1])[d[i - 1].next - 1]
  <2>1. CASE i = n + 1
    <3>1. n \in 1 .. n /\ i - 1 = n
      BY <1>1, <1>2, <2>1
    <3>2. d[i] = g /\ d[i - 1] = c[n]
      BY <1>1, <2>1, <3>1
    <3> QED BY <1>2, <3>2
  <2>2. CASE i # n + 1
    <3>1. i \in 1 .. n /\ (i > 1 => i - 1 \in 1 .. n)
      BY <1>1, <2>2
    <3>2. d[i] = c[i] /\ (i > 1 => d[i - 1] = c[i - 1])
      BY <1>1, <3>1
    <3> QED BY <1>4, <3>1, <3>2
  <2> QED BY <2>1, <2>2
<1>7. Chain(b, d)
  BY <1>1, <1>4, <1>5, <1>6 DEF Chain
<1> QED BY <1>1, <1>2, <1>3, <1>5, <1>7 DEF d, n

\* An activation and the one that called it.
Called(b, f, g) ==
    g.next > 1 /\ f.at = List(g)[g.next - 1] /\ AtWork(b, g)

\* An activation returns.
LEMMA ChainPop ==
    ASSUME NEW b, NEW S, NEW c \in Seq(S), c # <<>>, Chain(b, c),
           NEW d, d = Front(c)
    PROVE  /\ d \in Seq(S) /\ Len(d) = Len(c) - 1 /\ Len(c) \in Nat /\ Len(c) > 0
           /\ \A i \in 1 .. Len(d) : d[i] = c[i]
           /\ Chain(b, d)
           /\ d = <<>> => Len(c) = 1 /\ Last(c).at = b
           /\ d # <<>> => Called(b, Last(c), Last(d)) /\ d[1].at = b
<1> DEFINE n == Len(c)
<1>1. /\ d \in Seq(S) /\ Len(d) = n - 1 /\ n \in Nat /\ n > 0 /\ Last(c) = c[n]
      /\ \A i \in 1 .. n - 1 : d[i] = c[i]
  BY Ended
<1> HIDE DEF n
<1>2. /\ \A i \in 1 .. n :
           /\ AtWork(b, c[i])
           /\ i > 1 => c[i - 1].next > 1 /\ c[i].at = List(c[i - 1])[c[i - 1].next - 1]
      /\ c[1].at = b
  BY DEF Chain, n
<1>3. d = <<>> <=> n = 1
  BY <1>1
<1>4. Chain(b, d)
  <2>1. ASSUME NEW i \in 1 .. n - 1
        PROVE  /\ AtWork(b, d[i])
               /\ i > 1 => d[i - 1].next > 1 /\ d[i].at = List(d[i - 1])[d[i - 1].next - 1]
    <3>1. i \in 1 .. n /\ (i > 1 => i - 1 \in 1 .. n - 1)
      BY <1>1
    <3>2. d[i] = c[i] /\ (i > 1 => d[i - 1] = c[i - 1])
      BY <1>1, <3>1
    <3> QED BY <1>2, <3>1, <3>2
  <2>2. d # <<>> => d[1].at = b
    <3>1. d # <<>> => 1 \in 1 .. n - 1
      BY <1>1, <1>3
    <3> QED BY <1>1, <1>2, <3>1
  <2> QED BY <1>1, <2>1, <2>2 DEF Chain
<1>5. ASSUME d # <<>>
      PROVE  Called(b, Last(c), Last(d)) /\ d[1].at = b
  <2>1. n > 1 /\ n - 1 \in 1 .. n - 1 /\ n \in 1 .. n /\ 1 \in 1 .. n - 1
    BY <1>1, <1>3, <1>5
  <2>2. Last(d) = d[Len(d)] /\ d[Len(d)] = c[n - 1] /\ d[1] = c[1]
    BY <1>1, <2>1 DEF Last
  <2>3. n - 1 \in 1 .. n
    BY <2>1
  <2> QED BY <1>1, <1>2, <2>1, <2>2, <2>3 DEF Called
<1>6. d = <<>> => Len(c) = 1 /\ Last(c).at = b
  BY <1>1, <1>2, <1>3 DEF n
<1> QED BY <1>1, <1>4, <1>5, <1>6 DEF n

--------------------------------------------------------------------------------
(* What is wrong with a program.                                             *)

Bad(p) ==
    \/ text[p] = "<" /\ ~Enclosed(p, Loops \cup {"switch {"})
    \/ text[p] = ">" /\ ~Enclosed(p, Loops)
    \/ text[p] = ".1" /\ Definitions = {}
    \/ text[p] \in Loops /\ Under(p, 1) = {}
    \/ ops[p].kind = "switch {" /\ ~IsInjective(ops[p].labels)

Has(V, t) == \E p \in V : text[p] = t
Twice(V) == \E j, k \in V : j # k /\ text[j] = "label L;" /\ text[k] = "label L;"
Errors(V) == (\E p \in V : Bad(p)) \/ Twice(V)
Dangling(V) == Has(V, "goto L;") /\ ~Has(V, "label L;")
Wronged(b) == Errors(OpsOf(b)) \/ Dangling(OpsOf(b))

\* What an activation knows of the constructs around it.
Flagged(f) ==
    /\ f.loop <=> f.at # 0 /\ Enclosed(f.at, Loops)
    /\ f.switch <=> f.at # 0 /\ Enclosed(f.at, {"switch {"})

LEMMA KindText ==
    ASSUME Tree, NEW p \in DOMAIN ops
    PROVE  /\ Became(text[p], ops[p].kind) /\ Subs(p) = ops[p].subs /\ Kind(p) = ops[p].kind
           /\ \A k : k \notin {"a[", "a=", "switch", "switch {"} => (ops[p].kind = k <=> text[p] = k)
           /\ ops[p].kind \in Loops <=> text[p] \in Loops
<1>1. Became(text[p], ops[p].kind)
  BY Whole DEF Tree, PInv, KindsKept
<1>2. p # 0
  BY Whole
<1>3. \A k : k \notin {"a[", "a=", "switch", "switch {"} => (ops[p].kind = k <=> text[p] = k)
  BY <1>1 DEF Became
<1>4. ops[p].kind \in Loops <=> text[p] \in Loops
  BY <1>3 DEF Loops
<1> QED BY <1>1, <1>2, <1>3, <1>4 DEF Subs, Kind

LEMMA EnclosedRange ==
    ASSUME Tree, NEW j \in 1 .. Here, NEW kinds
    PROVE  Enclosed(j, kinds) <=> \E i \in 1 .. Len(Around(j)) : Around(j)[i].kind \in kinds
<1>1. Around(j) \in Seq(Entries)
  BY Whole, Positions
<1>2. DOMAIN Around(j) = 1 .. Len(Around(j))
  BY <1>1
<1> QED BY <1>2 DEF Enclosed

\* What is around an op is what is around the construct it is in, and that.
LEMMA EnclosedBy ==
    ASSUME Tree, NEW a, NEW k, NEW x \in Under(a, k), NEW kinds, "main" \notin kinds
    PROVE  Enclosed(x, kinds) <=>
             /\ a # 0
             /\ Enclosed(a, kinds) \/ Innermost(x).kind \in kinds
<1> DEFINE n == Len(Around(x))
<1>1. /\ x \in 1 .. Here /\ n \in Nat /\ n > 0
      /\ a = 0 => n = 1
      /\ a # 0 => /\ n > 1 /\ a \in 1 .. Here /\ Len(Around(a)) = n - 1
                  /\ \A m \in 1 .. n - 1 : Around(a)[m] = Around(x)[m]
  BY Child
<1>2. Enclosed(x, kinds) <=> \E i \in 1 .. n : Around(x)[i].kind \in kinds
  BY <1>1, EnclosedRange
<1>3. Innermost(x) = Around(x)[n]
  BY <1>1, Whole, Positions
<1> HIDE DEF n
<1>4. CASE a = 0
  <2>1. n = 1 /\ Around(x)[1].kind = "main"
    BY <1>1, <1>4, AroundOps
  <2>2. \A i \in 1 .. n : i = 1
    BY <2>1
  <2> QED BY <1>2, <1>4, <2>1, <2>2
<1>5. CASE a # 0
  <2>1. Enclosed(a, kinds) <=> \E i \in 1 .. n - 1 : Around(a)[i].kind \in kinds
    BY <1>1, <1>5, EnclosedRange
  <2>2. Enclosed(a, kinds) <=> \E i \in 1 .. n - 1 : Around(x)[i].kind \in kinds
    BY <1>1, <1>5, <2>1
  <2>3. \A i : i \in 1 .. n <=> i \in 1 .. n - 1 \/ i = n
    BY <1>1
  <2> QED BY <1>2, <1>3, <1>5, <2>2, <2>3
<1> QED BY <1>4, <1>5

LEMMA FlagDown ==
    ASSUME Tree, NEW f, Flagged(f), NEW x \in Under(f.at, f.part)
    PROVE  /\ Enclosed(x, Loops) <=> f.loop \/ Kind(f.at) \in Loops
           /\ Enclosed(x, {"switch {"}) <=> f.switch \/ (Kind(f.at) = "switch {" /\ f.part > 1)
<1> DEFINE n == Len(Around(x))
           a == f.at
           e == Innermost(x)
<1>1. /\ x \in 1 .. Here /\ x \in Starts /\ n \in Nat /\ n > 0
      /\ Around(x)[n].at = a /\ Around(x)[n].part = f.part
      /\ a = 0 => n = 1
      /\ a # 0 => n > 1
  BY Child
<1>2. e = Around(x)[n]
  BY <1>1, Whole, Positions
<1>3. "main" \notin Loops /\ "main" \notin {"switch {"}
  BY DEF Loops
<1>4. /\ Enclosed(x, Loops) <=> a # 0 /\ (Enclosed(a, Loops) \/ e.kind \in Loops)
      /\ Enclosed(x, {"switch {"}) <=> a # 0 /\ (Enclosed(a, {"switch {"}) \/ e.kind \in {"switch {"})
  BY <1>3, EnclosedBy
<1>5. CASE a = 0
  <2>1. Kind(a) = "main"
    BY <1>5 DEF Kind
  <2> QED BY <1>3, <1>4, <1>5, <2>1 DEF Flagged
<1>6. CASE a # 0
  <2>1. n \in 2 .. Len(Around(x))
    BY <1>1, <1>6
  <2>2. a \in DOMAIN ops /\ Became(e.kind, ops[a].kind)
    BY <1>1, <1>2, <2>1, AroundOps
  <2>3. /\ e.kind = "switch {" => e.part > 1
        /\ e.kind = "switch" => e.part = 1
    BY <1>1, <1>2, <2>1, Whole DEF Tree, PInv, KindsKept
  <2>4. e.part = f.part
    BY <1>1, <1>2
  <2>5. Kind(a) = ops[a].kind
    BY <1>6 DEF Kind
  <2> HIDE DEF e, a, n
  <2>6. e.kind \in Loops <=> Kind(a) \in Loops
    BY <2>2, <2>5 DEF Became, Loops
  <2>7. e.kind = "switch {" <=> Kind(a) = "switch {" /\ f.part > 1
    <3> DEFINE l == e.kind
               k == Kind(a)
               m == f.part
    <3>1. /\ l = k \/ (l = "a[" /\ k = "a=") \/ (l = "switch" /\ k = "switch {")
          /\ l = "switch {" => m > 1
          /\ l = "switch" => m = 1
      BY <2>2, <2>3, <2>4, <2>5 DEF Became
    <3> HIDE DEF l, k, m
    <3>2. l = "switch {" => k = "switch {" /\ m > 1
      BY <3>1
    <3>3. k = "switch {" => l \in {"switch {", "switch"}
      BY <3>1
    <3>4. ~(m = 1 /\ m > 1)
      OBVIOUS
    <3>5. l = "switch {" <=> k = "switch {" /\ m > 1
      BY <3>1, <3>2, <3>3, <3>4
    <3> QED BY <3>5 DEF l, k, m
  <2>8. Flagged(f) /\ a = f.at
    BY DEF a
  <2> QED BY <1>4, <1>6, <2>6, <2>7, <2>8 DEF Flagged
<1> QED BY <1>5, <1>6

LEMMA ErrorsMore ==
    ASSUME NEW V, NEW x, x \notin V
    PROVE  Errors(V \cup {x}) <=>
             Errors(V) \/ Bad(x) \/ (text[x] = "label L;" /\ Has(V, "label L;"))
BY DEF Errors, Twice, Has

Marks(V) == {text[p] : p \in V} \cap {"goto L;", "label L;"}

LEMMA RangeEmpty ==
    ASSUME NEW S, NEW s \in Seq(S)
    PROVE  s = <<>> <=> Range(s) = {}
<1>1. DOMAIN s = 1 .. Len(s) /\ Len(s) \in Nat
  OBVIOUS
<1>2. s = <<>> <=> Len(s) = 0
  OBVIOUS
<1>3. ASSUME Len(s) = 0 PROVE Range(s) = {}
  <2>1. DOMAIN s = {}
    BY <1>1, <1>3
  <2> QED BY <2>1 DEF Range
<1>4. ASSUME Len(s) # 0 PROVE Range(s) # {}
  <2>1. 1 \in DOMAIN s
    BY <1>1, <1>4
  <2>2. s[1] \in Range(s)
    BY <2>1 DEF Range
  <2> QED BY <2>2
<1> QED BY <1>2, <1>3, <1>4

LEMMA BodyEmpty ==
    ASSUME Tree, NEW x \in DOMAIN ops, text[x] \in Loops
    PROVE  ops[x].subs[1] = <<>> <=> Under(x, 1) = {}
<1>1. ops[x].subs # <<>>
  <2>1. text[x] \notin Plain /\ text[x] # "/1"
    BY DEF Loops, Plain
  <2>2. ~Childless(x)
    BY <2>1 DEF Childless
  <2> QED BY <2>2, Whole DEF Tree, PInv, KindsKept
<1>2. Subs(x) = ops[x].subs /\ x \in Nodes
  BY KindText DEF Nodes
<1> DEFINE s == Subs(x)
           P == Seq(Nat)
<1>3. s \in Seq(P) /\ s # <<>> /\ DOMAIN s = 1 .. Len(s)
  BY <1>1, <1>2, TreeLists
<1> HIDE DEF s, P
<1>4. 1 \in DOMAIN s
  BY <1>3
<1>5. Subs(x)[1] \in Seq(Nat) /\ Range(Subs(x)[1]) = Under(x, 1)
  BY <1>2, <1>4, TreeLists DEF s
<1> QED BY <1>2, <1>5, RangeEmpty

LEMMA WrongIs ==
    ASSUME Tree, Flagged(Current), NEW x \in Under(Current.at, Current.part),
           NEW V, seen = Marks(V)
    PROVE  Wrong(ops[x]) <=> Bad(x) \/ (text[x] = "label L;" /\ Has(V, "label L;"))
<1>1. x \in DOMAIN ops
  BY Child
<1>2. /\ \A k : k \notin {"a[", "a=", "switch", "switch {"} => (ops[x].kind = k <=> text[x] = k)
      /\ ops[x].kind \in Loops <=> text[x] \in Loops
  BY <1>1, KindText
<1>3. /\ ops[x].kind = "<" <=> text[x] = "<"
      /\ ops[x].kind = ">" <=> text[x] = ">"
      /\ ops[x].kind = ".1" <=> text[x] = ".1"
      /\ ops[x].kind = "label L;" <=> text[x] = "label L;"
  BY <1>2
<1>4. /\ Enclosed(x, Loops) <=> InLoop
      /\ Enclosed(x, {"switch {"}) <=> InSwitch
  BY FlagDown DEF InLoop, InSwitch
<1>5. Enclosed(x, Loops \cup {"switch {"}) <=> Enclosed(x, Loops) \/ Enclosed(x, {"switch {"})
  BY DEF Enclosed
<1>6. functions = <<>> <=> Definitions = {}
  <2>1. functions \in Seq(DOMAIN ops)
    BY Whole DEF ParserTypeOK
  <2> QED BY <2>1, Programs, RangeEmpty
<1>7. ops[x].kind = "label L;" /\ ops[x].kind \in seen <=>
        text[x] = "label L;" /\ Has(V, "label L;")
  BY <1>3 DEF Marks, Has
<1>8. text[x] \in Loops => (ops[x].subs[1] = <<>> <=> Under(x, 1) = {})
  BY <1>1, BodyEmpty
<1>9. /\ ops[x].kind = "<" /\ ~InLoop /\ ~InSwitch <=>
           text[x] = "<" /\ ~Enclosed(x, Loops \cup {"switch {"})
      /\ ops[x].kind = ">" /\ ~InLoop <=> text[x] = ">" /\ ~Enclosed(x, Loops)
      /\ ops[x].kind = ".1" /\ functions = <<>> <=> text[x] = ".1" /\ Definitions = {}
      /\ ops[x].kind \in Loops /\ ops[x].subs[1] = <<>> <=> text[x] \in Loops /\ Under(x, 1) = {}
  BY <1>2, <1>3, <1>4, <1>5, <1>6, <1>8
<1> QED BY <1>7, <1>9 DEF Wrong, Bad

--------------------------------------------------------------------------------
(* The semantic analysis at work.                                            *)

Checks == [at : Nat, part : Nat, next : Nat, loop : BOOLEAN, switch : BOOLEAN]

Before(k) == \E i \in 1 .. k : Wronged(Program[i])

\* What it has found, with the bodies before and this one so far.
CheckAt(c, w, s, k) ==
    /\ c = <<>> => (w <=> Before(k))
    /\ c # <<>> =>
         LET b == Program[k + 1]
             V == Visited(b, Last(c))
         IN
         /\ k < Len(Program) /\ Chain(b, c)
         /\ \A i \in 1 .. Len(c) : Flagged(c[i])
         /\ s = Marks(V)
         /\ w <=> Before(k) \/ Errors(V)

LEMMA BodyAt ==
    ASSUME Tree, NEW k \in 0 .. Len(Program), k < Len(Program)
    PROVE  k + 1 \in DOMAIN Program /\ Program[k + 1] \in Range(Program)
<1>1. Len(Program) \in Nat /\ DOMAIN Program = 1 .. Len(Program)
  BY Programs
<1>2. k + 1 \in DOMAIN Program
  BY <1>1
<1> QED BY <1>2 DEF Range

LEMMA CheckAtBody ==
    ASSUME Tree, NEW k \in 0 .. Len(Program), k < Len(Program), NEW w, CheckAt(<<>>, w, NoLabels, k)
    PROVE  LET f == Checking(Program[k + 1], FALSE, FALSE) IN
           f \in Checks /\ <<f>> \in Seq(Checks) /\ CheckAt(<<f>>, w, NoLabels, k)
<1> DEFINE b == Program[k + 1]
           f == Checking(b, FALSE, FALSE)
           V == Visited(b, f)
<1>1. b \in Range(Program)
  BY BodyAt
<1>2. b \in Nat /\ (b = 0 \/ (b \in 1 .. Here /\ Len(Around(b)) = 1))
  <2>1. b = 0 \/ b \in Definitions
    BY <1>1, Programs
  <2>2. b = 0 \/ (b \in 1 .. Here /\ Len(Around(b)) = 1)
    BY <2>1, Programs
  <2> QED BY <2>2
<1>3. f.at = b /\ f.part = 1 /\ f.next = 1 /\ f.loop = FALSE /\ f.switch = FALSE
  BY DEF Checking
<1>4. f \in Checks
  BY <1>2 DEF Checking, Checks
<1> HIDE DEF b, f
<1>5. V = {}
  BY <1>1, <1>3, VisitStart
<1>6. /\ <<f>> \in Seq(Checks) /\ Len(<<f>>) = 1 /\ <<f>> # <<>> /\ Last(<<f>>) = f
      /\ <<f>>[1] = f /\ Chain(b, <<f>>)
  BY <1>1, <1>3, <1>4, ChainStart
<1>7. Flagged(f)
  <2>1. CASE b = 0
    BY <1>3, <2>1 DEF Flagged
  <2>2. CASE b # 0
    <3>1. b \in 1 .. Here /\ Len(Around(b)) = 1 /\ Around(b)[1].kind = "main"
      BY <1>2, <2>2, AroundOps
    <3>2. \A i \in 1 .. Len(Around(b)) : i = 1
      BY <3>1
    <3>3. "main" \notin Loops /\ "main" \notin {"switch {"}
      BY DEF Loops
    <3>4. ~Enclosed(b, Loops) /\ ~Enclosed(b, {"switch {"})
      BY <3>1, <3>2, <3>3, EnclosedRange
    <3> QED BY <1>3, <3>4 DEF Flagged
  <2> QED BY <2>1, <2>2
<1>8. Marks(V) = NoLabels /\ ~Errors(V)
  BY <1>5 DEF Marks, NoLabels, Errors, Twice
<1>9. w <=> Before(k)
  BY DEF CheckAt
<1>10. \A i \in 1 .. Len(<<f>>) : Flagged(<<f>>[i])
  <2>1. \A i \in 1 .. Len(<<f>>) : i = 1
    BY <1>6
  <2> QED BY <1>6, <1>7, <2>1
<1> QED BY <1>4, <1>6, <1>8, <1>9, <1>10 DEF CheckAt, b, f

LEMMA MarksMore ==
    ASSUME Tree, NEW V, NEW x \in DOMAIN ops
    PROVE  Marks(V \cup {x}) = Marks(V) \cup ({ops[x].kind} \cap {"goto L;", "label L;"})
<1>1. /\ ops[x].kind = "goto L;" <=> text[x] = "goto L;"
      /\ ops[x].kind = "label L;" <=> text[x] = "label L;"
  <2>1. \A k : k \notin {"a[", "a=", "switch", "switch {"} => (ops[x].kind = k <=> text[x] = k)
    BY KindText
  <2> QED BY <2>1
<1> QED BY <1>1 DEF Marks

LEMMA NotYet ==
    ASSUME Tree, NEW b \in Range(Program), NEW f, AtWork(b, f), f.next <= Len(List(f)),
           NEW x, x = List(f)[f.next]
    PROVE  /\ x \in Under(f.at, f.part) /\ x \in OpsOf(b)
           /\ x \in DOMAIN ops /\ x \in Nat /\ x # 0
           /\ x \notin Visited(b, f)
<1>1. f.next \in 1 .. Len(List(f))
  <2>1. f.next \in Nat \ {0} /\ Len(List(f)) \in Nat
    BY WorkFacts
  <2> QED BY <2>1
<1>2. x \in Under(f.at, f.part) /\ x \in OpsOf(b) /\ x \in Nat
  BY <1>1, WorkFacts
<1>3. Past(f, x) <=> x < x
  BY <1>2, PastItem
<1>4. x \in DOMAIN ops /\ x # 0
  BY <1>2, InBody
<1>5. ~(x < x)
  BY <1>2
<1> QED BY <1>1, <1>2, <1>3, <1>4, <1>5 DEF Visited

LEMMA CheckFrame ==
    ASSUME NEW f \in Checks
    PROVE  LET g == [f EXCEPT !.next = @ + 1]
               h == [f EXCEPT !.part = @ + 1, !.next = 1]
           IN
           /\ g \in Checks /\ g.at = f.at /\ g.part = f.part /\ g.next = f.next + 1
           /\ h \in Checks /\ h.at = f.at /\ h.part = f.part + 1 /\ h.next = 1
           /\ g.loop = f.loop /\ g.switch = f.switch /\ h.loop = f.loop /\ h.switch = f.switch
<1> DEFINE g == [f EXCEPT !.next = @ + 1]
           h == [f EXCEPT !.part = @ + 1, !.next = 1]
<1>1. g \in Checks
  BY DEF Checks
<1>2. h \in Checks
  <2>1. h = [[f EXCEPT !.part = @ + 1] EXCEPT !.next = 1]
    BY Zenon
  <2>2. [f EXCEPT !.part = @ + 1] \in Checks
    BY DEF Checks
  <2>3. \A r \in Checks : [r EXCEPT !.next = 1] \in Checks
    BY DEF Checks
  <2> QED BY <2>1, <2>2, <2>3, Zenon
<1>3. g.at = f.at /\ g.part = f.part /\ g.next = f.next + 1
  BY DEF Checks
<1>4. h.at = f.at /\ h.part = f.part + 1 /\ h.next = 1
  BY DEF Checks
<1>5. g.loop = f.loop /\ g.switch = f.switch
  BY DEF Checks
<1>6. h.loop = f.loop /\ h.switch = f.switch
  BY DEF Checks
<1> QED BY <1>1, <1>2, <1>3, <1>4, <1>5, <1>6

LEMMA FlagsLast ==
    ASSUME NEW c, NEW d, Len(c) \in Nat, Len(d) = Len(c), \A i \in 1 .. Len(c) : Flagged(c[i]),
           \A i \in 1 .. Len(c) - 1 : d[i] = c[i], Flagged(d[Len(c)])
    PROVE  \A i \in 1 .. Len(d) : Flagged(d[i])
<1> SUFFICES ASSUME NEW i \in 1 .. Len(d) PROVE Flagged(d[i])
  OBVIOUS
<1>1. CASE i = Len(c)
  BY <1>1
<1>2. CASE i # Len(c)
  <2>1. i \in 1 .. Len(c) - 1 /\ i \in 1 .. Len(c)
    BY <1>2
  <2> QED BY <2>1
<1> QED BY <1>1, <1>2

LEMMA CheckAtFacts ==
    ASSUME Tree, NEW k \in 0 .. Len(Program), NEW c \in Seq(Checks), c # <<>>,
           NEW w, NEW s, CheckAt(c, w, s, k), NEW f, f = Last(c), NEW b, b = Program[k + 1]
    PROVE  /\ k < Len(Program) /\ b \in Range(Program) /\ Chain(b, c)
           /\ \A i \in 1 .. Len(c) : Flagged(c[i])
           /\ s = Marks(Visited(b, f))
           /\ w <=> Before(k) \/ Errors(Visited(b, f))
           /\ f \in Checks /\ f = c[Len(c)] /\ Len(c) \in Nat /\ Len(c) > 0
           /\ AtWork(b, f) /\ Flagged(f)
<1>1. /\ k < Len(Program) /\ Chain(b, c)
      /\ \A i \in 1 .. Len(c) : Flagged(c[i])
      /\ s = Marks(Visited(b, f))
      /\ w <=> Before(k) \/ Errors(Visited(b, f))
  BY DEF CheckAt
<1>2. b \in Range(Program)
  BY <1>1, BodyAt
<1>3. f \in Checks /\ f = c[Len(c)] /\ Len(c) \in Nat /\ Len(c) > 0
  BY Ended
<1>4. Len(c) \in 1 .. Len(c)
  BY <1>3
<1>5. AtWork(b, f) /\ Flagged(f)
  BY <1>1, <1>3, <1>4 DEF Chain
<1> QED BY <1>1, <1>2, <1>3, <1>5

LEMMA ChainNext ==
    ASSUME NEW b, NEW c \in Seq(Checks), c # <<>>, Chain(b, c),
           \A i \in 1 .. Len(c) : Flagged(c[i]),
           NEW g \in Checks, AtWork(b, g), Flagged(g), g.at = Last(c).at
    PROVE  \A d : d = Append(Front(c), g) =>
             /\ d \in Seq(Checks) /\ d # <<>> /\ Last(d) = g /\ Chain(b, d)
             /\ \A i \in 1 .. Len(d) : Flagged(d[i])
<1> DEFINE d == Append(Front(c), g)
<1>1. /\ d \in Seq(Checks) /\ Len(d) = Len(c) /\ d # <<>> /\ Last(d) = g /\ Chain(b, d)
      /\ \A i \in 1 .. Len(c) - 1 : d[i] = c[i]
      /\ d[Len(c)] = g /\ Len(c) \in Nat
  <2>1. d \in Seq(Checks) /\ d # <<>> /\ Last(d) = g /\ Chain(b, d)
    BY ChainLast
  <2>2. /\ d \in Seq(Checks) /\ d # <<>> /\ Len(d) = Len(c) /\ Len(c) \in Nat
        /\ \A i \in 1 .. Len(c) - 1 : d[i] = c[i]
        /\ d[Len(c)] = g
    BY Exchanged
  <2> QED BY <2>1, <2>2
<1> HIDE DEF d
<1>2. \A i \in 1 .. Len(d) : Flagged(d[i])
  BY <1>1, FlagsLast
<1> QED BY <1>1, <1>2 DEF d

LEMMA ChainMore ==
    ASSUME NEW b, NEW c \in Seq(Checks), c # <<>>, Chain(b, c),
           \A i \in 1 .. Len(c) : Flagged(c[i]),
           NEW g \in Checks, AtWork(b, g), Flagged(g),
           Last(c).next > 1, g.at = List(Last(c))[Last(c).next - 1]
    PROVE  \A d : d = Append(c, g) =>
             /\ d \in Seq(Checks) /\ d # <<>> /\ Last(d) = g /\ Chain(b, d)
             /\ \A i \in 1 .. Len(d) : Flagged(d[i])
<1> SUFFICES ASSUME NEW d, d = Append(c, g)
             PROVE  /\ d \in Seq(Checks) /\ d # <<>> /\ Last(d) = g /\ Chain(b, d)
                    /\ \A i \in 1 .. Len(d) : Flagged(d[i])
  OBVIOUS
<1>1. /\ d \in Seq(Checks) /\ Len(d) = Len(c) + 1 /\ d # <<>> /\ Last(d) = g /\ Chain(b, d)
      /\ \A i \in 1 .. Len(c) : d[i] = c[i]
      /\ d[Len(c) + 1] = g /\ Len(c) \in Nat
  BY ChainPush
<1>2. ASSUME NEW i \in 1 .. Len(d) PROVE Flagged(d[i])
  <2>1. CASE i = Len(c) + 1
    BY <1>1, <2>1
  <2>2. CASE i # Len(c) + 1
    <3>1. i \in 1 .. Len(c)
      BY <1>1, <2>2
    <3> QED BY <1>1, <3>1
  <2> QED BY <2>1, <2>2
<1> QED BY <1>1, <1>2

\* The next item: over it, and down into it.
LEMMA CheckOver ==
    ASSUME Tree, NEW b \in Range(Program), NEW c \in Seq(Checks), c # <<>>, Chain(b, c),
           \A i \in 1 .. Len(c) : Flagged(c[i]),
           AtWork(b, Last(c)), Flagged(Last(c)), Last(c).next <= Len(List(Last(c))),
           NEW x, x = List(Last(c))[Last(c).next],
           NEW g \in Checks, g.at = Last(c).at, g.part = Last(c).part, g.next = Last(c).next + 1,
           g.loop = Last(c).loop, g.switch = Last(c).switch
    PROVE  /\ \A d : d = Append(Front(c), g) =>
                /\ d \in Seq(Checks) /\ d # <<>> /\ Last(d) = g /\ Chain(b, d)
                /\ \A i \in 1 .. Len(d) : Flagged(d[i])
           /\ AtWork(b, g) /\ g.next > 1 /\ List(g)[g.next - 1] = x /\ Flagged(g)
           /\ ops[x].subs = <<>> => Visited(b, g) = Visited(b, Last(c)) \cup {x}
<1>1. Flagged(g)
  BY DEF Flagged
<1>2. /\ AtWork(b, g) /\ g.next > 1 /\ List(g)[g.next - 1] = x
      /\ ops[x].subs = <<>> => Visited(b, g) = Visited(b, Last(c)) \cup {x}
  BY VisitOver
<1> QED BY <1>1, <1>2, ChainNext

FlagsOf(h, f) ==
    /\ h.loop <=> f.loop \/ Kind(f.at) \in Loops
    /\ h.switch <=> f.switch \/ (Kind(f.at) = "switch {" /\ f.part > 1)

LEMMA CheckDown ==
    ASSUME Tree, NEW b \in Range(Program), NEW f, AtWork(b, f), Flagged(f),
           f.next <= Len(List(f)), NEW x, x = List(f)[f.next], ops[x].subs # <<>>,
           NEW h, h.at = x, h.part = 1, h.next = 1,
           FlagsOf(h, f)
    PROVE  AtWork(b, h) /\ Flagged(h) /\ Visited(b, h) = Visited(b, f) \cup {x}
<1>1. /\ x \in Under(f.at, f.part) /\ x \in Nat /\ x # 0
  BY NotYet
<1>4. AtWork(b, h) /\ Visited(b, h) = Visited(b, f) \cup {x}
  BY VisitDown
<1>5. /\ Enclosed(x, Loops) <=> h.loop
      /\ Enclosed(x, {"switch {"}) <=> h.switch
  BY <1>1, FlagDown DEF FlagsOf
<1>6. Flagged(h)
  BY <1>1, <1>5 DEF Flagged
<1> QED BY <1>4, <1>6

LEMMA CheckAtIs ==
    ASSUME NEW k, NEW d, d # <<>>, k < Len(Program), Chain(Program[k + 1], d),
           \A i \in 1 .. Len(d) : Flagged(d[i]),
           NEW w, NEW s, s = Marks(Visited(Program[k + 1], Last(d))),
           w <=> Before(k) \/ Errors(Visited(Program[k + 1], Last(d)))
    PROVE  CheckAt(d, w, s, k)
BY DEF CheckAt

\* One more op: the errors so far and its own.
LEMMA CheckAtOp ==
    ASSUME Tree, checked \in 0 .. Len(Program), calls \in Seq(Checks), AtItem,
           CheckAt(calls, faulty, seen, checked)
    PROVE  LET op == ops[Item]
               w == faulty \/ Wrong(op)
               s == seen \cup ({op.kind} \cap {"goto L;", "label L;"})
               h == Checking(Item, InLoop, InSwitch)
           IN
           /\ op.subs = <<>> =>
                Advanced \in Seq(Checks) /\ CheckAt(Advanced, w, s, checked)
           /\ op.subs # <<>> =>
                Append(Advanced, h) \in Seq(Checks) /\ CheckAt(Append(Advanced, h), w, s, checked)
<1> DEFINE f == Current
           b == Program[checked + 1]
           x == Item
           g == [f EXCEPT !.next = @ + 1]
           V == Visited(b, f)
           U == V \cup {x}
           h == Checking(x, InLoop, InSwitch)
           w == faulty \/ Wrong(ops[x])
           s == seen \cup ({ops[x].kind} \cap {"goto L;", "label L;"})
           d == Append(Callers, g)
           e == Append(d, h)
<1>0. calls # <<>> /\ f = Last(calls) /\ f.next <= Len(List(f)) /\ x = List(f)[f.next]
  BY DEF AtItem, Current, Item
<1>1. /\ checked < Len(Program) /\ b \in Range(Program) /\ Chain(b, calls)
      /\ \A i \in 1 .. Len(calls) : Flagged(calls[i])
      /\ seen = Marks(V)
      /\ faulty <=> Before(checked) \/ Errors(V)
      /\ f \in Checks /\ AtWork(b, f) /\ Flagged(f)
  BY <1>0, CheckAtFacts
<1>2. /\ g \in Checks /\ g.at = f.at /\ g.part = f.part /\ g.next = f.next + 1
      /\ g.loop = f.loop /\ g.switch = f.switch
  BY <1>1, CheckFrame
<1> HIDE DEF f, b, x, g, V, U, h, w, s, d, e
<1>3. /\ d \in Seq(Checks) /\ d # <<>> /\ Last(d) = g /\ Chain(b, d)
      /\ \A i \in 1 .. Len(d) : Flagged(d[i])
      /\ AtWork(b, g) /\ g.next > 1 /\ List(g)[g.next - 1] = x
      /\ ops[x].subs = <<>> => Visited(b, g) = U
  <2>1. /\ \A q : q = Append(Front(calls), g) =>
                /\ q \in Seq(Checks) /\ q # <<>> /\ Last(q) = g /\ Chain(b, q)
                /\ \A i \in 1 .. Len(q) : Flagged(q[i])
        /\ AtWork(b, g) /\ g.next > 1 /\ List(g)[g.next - 1] = x /\ Flagged(g)
        /\ ops[x].subs = <<>> => Visited(b, g) = Visited(b, Last(calls)) \cup {x}
    BY <1>0, <1>1, <1>2, CheckOver
  <2>2. d = Append(Front(calls), g)
    BY DEF d, Callers
  <2> QED BY <1>0, <2>1, <2>2 DEF U, V
<1>4. x \in DOMAIN ops /\ x \notin V /\ x \in Under(f.at, f.part)
  BY <1>0, <1>1, NotYet DEF V
<1>5. s = Marks(U)
  BY <1>1, <1>4, MarksMore DEF s, U
<1>6. w <=> Before(checked) \/ Errors(U)
  <2>1. Wrong(ops[x]) <=> Bad(x) \/ (text[x] = "label L;" /\ Has(V, "label L;"))
    <3>1. Current = f
      BY DEF f
    <3>2. Flagged(Current) /\ x \in Under(Current.at, Current.part)
      BY <1>1, <1>4, <3>1
    <3> QED BY <1>1, <3>2, WrongIs
  <2>2. Errors(U) <=> Errors(V) \/ Bad(x) \/ (text[x] = "label L;" /\ Has(V, "label L;"))
    BY <1>4, ErrorsMore DEF U
  <2>3. faulty <=> Before(checked) \/ Errors(V)
    BY <1>1
  <2> QED BY <2>1, <2>2, <2>3, Zenon DEF w
<1>7. ASSUME ops[x].subs = <<>> PROVE d \in Seq(Checks) /\ CheckAt(d, w, s, checked)
  <2>1. s = Marks(Visited(b, Last(d))) /\ (w <=> Before(checked) \/ Errors(Visited(b, Last(d))))
    BY <1>3, <1>5, <1>6, <1>7
  <2> QED BY <1>1, <1>3, <2>1, CheckAtIs DEF b
<1>8. ASSUME ops[x].subs # <<>> PROVE e \in Seq(Checks) /\ CheckAt(e, w, s, checked)
  <2>1. h.at = x /\ h.part = 1 /\ h.next = 1 /\ h \in Checks /\ FlagsOf(h, f)
    <3>1. x \in Nat
      BY <1>4, Whole
    <3>2. h.at = x /\ h.part = 1 /\ h.next = 1 /\ h.loop = InLoop /\ h.switch = InSwitch
      BY DEF h, Checking
    <3>3. InLoop \in BOOLEAN /\ InSwitch \in BOOLEAN
      BY <1>1 DEF InLoop, InSwitch, f, Checks
    <3>4. h \in Checks
      BY <3>1, <3>3 DEF h, Checking, Checks
    <3>5. FlagsOf(h, f)
      BY <3>2 DEF FlagsOf, InLoop, InSwitch, f
    <3> QED BY <3>2, <3>4, <3>5
  <2>2. AtWork(b, h) /\ Flagged(h) /\ Visited(b, h) = U
    BY <1>0, <1>1, <1>8, <2>1, CheckDown DEF U, V
  <2>3. Last(d).next > 1 /\ h.at = List(Last(d))[Last(d).next - 1]
    BY <1>3, <2>1
  <2>4. /\ e \in Seq(Checks) /\ e # <<>> /\ Last(e) = h /\ Chain(b, e)
        /\ \A i \in 1 .. Len(e) : Flagged(e[i])
    BY <1>3, <2>1, <2>2, <2>3, ChainMore DEF e
  <2>5. s = Marks(Visited(b, Last(e))) /\ (w <=> Before(checked) \/ Errors(Visited(b, Last(e))))
    BY <1>5, <1>6, <2>2, <2>4
  <2> QED BY <1>1, <2>4, <2>5, CheckAtIs DEF b
<1> QED BY <1>7, <1>8 DEF f, x, g, h, w, s, d, e, Advanced

\* The next list.
LEMMA CheckAtNext ==
    ASSUME Tree, checked \in 0 .. Len(Program), calls \in Seq(Checks), AtEnd, ~LastList,
           CheckAt(calls, faulty, seen, checked)
    PROVE  Onward \in Seq(Checks) /\ CheckAt(Onward, faulty, seen, checked)
<1> DEFINE f == Current
           b == Program[checked + 1]
           g == [f EXCEPT !.part = @ + 1, !.next = 1]
           d == Append(Callers, g)
<1>0. calls # <<>> /\ f = Last(calls) /\ f.next > Len(List(f)) /\ f.part # Len(Subs(f.at))
  BY DEF AtEnd, LastList, Current
<1>1. /\ checked < Len(Program) /\ b \in Range(Program) /\ Chain(b, calls)
      /\ \A i \in 1 .. Len(calls) : Flagged(calls[i])
      /\ seen = Marks(Visited(b, f))
      /\ faulty <=> Before(checked) \/ Errors(Visited(b, f))
      /\ f \in Checks /\ AtWork(b, f) /\ Flagged(f)
  BY <1>0, CheckAtFacts
<1>2. /\ g \in Checks /\ g.at = f.at /\ g.part = f.part + 1 /\ g.next = 1
      /\ g.loop = f.loop /\ g.switch = f.switch
  BY <1>1, CheckFrame
<1> HIDE DEF f, b, g, d
<1>3. AtWork(b, g) /\ Visited(b, g) = Visited(b, f)
  BY <1>0, <1>1, <1>2, VisitOn
<1>4. Flagged(g)
  BY <1>1, <1>2 DEF Flagged
<1>5. /\ d \in Seq(Checks) /\ d # <<>> /\ Last(d) = g /\ Chain(b, d)
      /\ \A i \in 1 .. Len(d) : Flagged(d[i])
  <2>1. d = Append(Front(calls), g) /\ g.at = Last(calls).at
    BY <1>0, <1>2 DEF d, Callers
  <2> QED BY <1>0, <1>1, <1>2, <1>3, <1>4, <2>1, ChainNext
<1>6. seen = Marks(Visited(b, Last(d))) /\ (faulty <=> Before(checked) \/ Errors(Visited(b, Last(d))))
  BY <1>1, <1>3, <1>5
<1>7. CheckAt(d, faulty, seen, checked)
  BY <1>1, <1>5, <1>6, CheckAtIs DEF b
<1> QED BY <1>5, <1>7 DEF d, g, f, Onward

LEMMA DanglingIs ==
    ASSUME NEW V, NEW s, s = Marks(V)
    PROVE  Dangling(V) <=> "goto L;" \in s /\ "label L;" \notin s
BY DEF Dangling, Has, Marks

LEMMA BeforeMore ==
    ASSUME NEW k \in Nat
    PROVE  Before(k + 1) <=> Before(k) \/ Wronged(Program[k + 1])
<1>1. \A i : i \in 1 .. k + 1 <=> i \in 1 .. k \/ i = k + 1
  OBVIOUS
<1> QED BY <1>1 DEF Before

\* A list is done, and with the first one a body.
LEMMA CheckAtReturn ==
    ASSUME Tree, checked \in 0 .. Len(Program), calls \in Seq(Checks), AtEnd, LastList,
           CheckAt(calls, faulty, seen, checked)
    PROVE  LET w == faulty \/ ("goto L;" \in seen /\ "label L;" \notin seen) IN
           /\ Callers \in Seq(Checks)
           /\ Callers = <<>> => checked + 1 \in 0 .. Len(Program)
                                /\ CheckAt(Callers, w, seen, checked + 1)
           /\ Callers # <<>> => CheckAt(Callers, faulty, seen, checked)
<1> DEFINE f == Current
           b == Program[checked + 1]
           w == faulty \/ ("goto L;" \in seen /\ "label L;" \notin seen)
           d == Callers
           g == Last(d)
<1>0. calls # <<>> /\ f = Last(calls) /\ f.next > Len(List(f)) /\ f.part = Len(Subs(f.at))
  BY DEF AtEnd, LastList, Current
<1>1. /\ checked < Len(Program) /\ b \in Range(Program) /\ Chain(b, calls)
      /\ \A i \in 1 .. Len(calls) : Flagged(calls[i])
      /\ seen = Marks(Visited(b, f))
      /\ faulty <=> Before(checked) \/ Errors(Visited(b, f))
      /\ f \in Checks /\ AtWork(b, f) /\ Flagged(f)
  BY <1>0, CheckAtFacts
<1>2. /\ d \in Seq(Checks) /\ Len(d) = Len(calls) - 1 /\ Len(calls) \in Nat
      /\ \A i \in 1 .. Len(d) : d[i] = calls[i]
      /\ Chain(b, d)
      /\ d = <<>> => f.at = b
      /\ d # <<>> => g.next > 1 /\ f.at = List(g)[g.next - 1] /\ AtWork(b, g)
  <2>1. calls # <<>> /\ calls \in Seq(Checks) /\ Chain(b, calls)
    BY <1>0, <1>1
  <2> HIDE DEF b
  <2> HIDE DEF d
  <2>2. d = Front(calls)
    BY DEF d, Callers
  <2>3. d \in Seq(Checks) /\ Chain(b, d)
    BY <2>1, <2>2, ChainPop
  <2>4. /\ Len(d) = Len(calls) - 1 /\ Len(calls) \in Nat
        /\ \A i \in 1 .. Len(d) : d[i] = calls[i]
    BY <2>1, <2>2, Ended
  <2>5. d = <<>> => Last(calls).at = b
    BY <2>1, <2>2, ChainPop
  <2>6. d # <<>> => Called(b, Last(calls), Last(d))
    BY <2>1, <2>2, ChainPop
  <2> QED BY <1>0, <2>3, <2>4, <2>5, <2>6 DEF Called
<1> HIDE DEF f, b, w, d, g
<1>3. ASSUME d = <<>> PROVE checked + 1 \in 0 .. Len(Program) /\ CheckAt(d, w, seen, checked + 1)
  <2>1. Visited(b, f) = OpsOf(b)
    BY <1>0, <1>1, <1>2, <1>3, VisitAll
  <2>2. Dangling(OpsOf(b)) <=> "goto L;" \in seen /\ "label L;" \notin seen
    BY <1>1, <2>1, DanglingIs
  <2>3. w <=> Before(checked) \/ Wronged(b)
    <3>1. w <=> faulty \/ Dangling(OpsOf(b))
      BY <2>2 DEF w
    <3>2. faulty <=> Before(checked) \/ Errors(OpsOf(b))
      BY <1>1, <2>1
    <3> QED BY <3>1, <3>2, Zenon DEF Wronged
  <2>4. Before(checked + 1) <=> Before(checked) \/ Wronged(b)
    <3>1. checked \in Nat
      BY Programs
    <3> QED BY <3>1, BeforeMore DEF b
  <2>5. CheckAt(d, w, seen, checked + 1)
    BY <1>3, <2>3, <2>4, Zenon DEF CheckAt
  <2>6. checked + 1 \in 0 .. Len(Program)
    BY <1>1, Programs
  <2> QED BY <2>5, <2>6
<1>4. ASSUME d # <<>> PROVE CheckAt(d, faulty, seen, checked)
  <2>1. Visited(b, g) = Visited(b, f)
    BY <1>0, <1>1, <1>2, <1>4, VisitUp
  <2>2. \A i \in 1 .. Len(d) : Flagged(d[i])
    <3>1. \A i \in 1 .. Len(d) : i \in 1 .. Len(calls)
      BY <1>2
    <3> QED BY <1>1, <1>2, <3>1
  <2>3. seen = Marks(Visited(b, Last(d))) /\ (faulty <=> Before(checked) \/ Errors(Visited(b, Last(d))))
    BY <1>1, <2>1 DEF g
  <2> QED BY <1>1, <1>2, <1>4, <2>2, <2>3, CheckAtIs DEF b
<1> QED BY <1>2, <1>3, <1>4 DEF d, w

--------------------------------------------------------------------------------
(* What a step of a walk does not change.                                    *)

LEMMA Stays ==
    UNCHANGED parserVars =>
        /\ Here' = Here /\ Starts' = Starts /\ Definitions' = Definitions /\ Program' = Program
        /\ text' = text /\ ops' = ops
        /\ \A j : Around(j)' = Around(j)
        /\ \A a, k : Under(a, k)' = Under(a, k)
        /\ \A b : OpsOf(b)' = OpsOf(b)
        /\ \A a : Subs(a)' = Subs(a) /\ Kind(a)' = Kind(a)
        /\ \A f : List(f)' = List(f)
        /\ \A j, kinds : Enclosed(j, kinds)' <=> Enclosed(j, kinds)
<1> SUFFICES ASSUME UNCHANGED parserVars
             PROVE  /\ Here' = Here /\ Starts' = Starts /\ Definitions' = Definitions /\ Program' = Program
                    /\ text' = text /\ ops' = ops
                    /\ \A j : Around(j)' = Around(j)
                    /\ \A a, k : Under(a, k)' = Under(a, k)
                    /\ \A b : OpsOf(b)' = OpsOf(b)
                    /\ \A a : Subs(a)' = Subs(a) /\ Kind(a)' = Kind(a)
                    /\ \A f : List(f)' = List(f)
                    /\ \A j, kinds : Enclosed(j, kinds)' <=> Enclosed(j, kinds)
  OBVIOUS
<1>1. text' = text /\ open' = open /\ ops' = ops /\ functions' = functions
  BY DEF parserVars
<1>2. \A j : Around(j)' = Around(j)
  BY <1>1 DEF Around
<1>3. \A j : Innermost(j)' = Innermost(j)
  BY <1>2 DEF Innermost
<1>4. Starts' = Starts
  BY <1>1, <1>3 DEF Starts
<1>5. Definitions' = Definitions
  BY <1>1, <1>2, <1>4 DEF Definitions
<1>6. \A a, k : Under(a, k)' = Under(a, k)
  BY <1>3, <1>4, <1>5 DEF Under
<1>7. \A j : (Function(j)' <=> Function(j)) /\ Within(j)' = Within(j)
  BY <1>2 DEF Function, Within
<1>8. \A b : OpsOf(b)' = OpsOf(b)
  BY <1>4, <1>5, <1>7 DEF OpsOf
<1>9. \A a : Subs(a)' = Subs(a) /\ Kind(a)' = Kind(a)
  BY <1>1 DEF Subs, Kind
<1>10. \A f : List(f)' = List(f)
  BY <1>9 DEF List
<1>11. \A j, kinds : Enclosed(j, kinds)' <=> Enclosed(j, kinds)
  BY <1>2 DEF Enclosed
<1>12. Here' = Here /\ Program' = Program
  BY <1>1 DEF Here, Program
<1> QED BY <1>1, <1>2, <1>4, <1>5, <1>6, <1>8, <1>9, <1>10, <1>11, <1>12

LEMMA StaysAtWork ==
    UNCHANGED parserVars =>
        /\ \A b, f : AtWork(b, f)' <=> AtWork(b, f)
        /\ \A b, f : Visited(b, f)' = Visited(b, f)
        /\ \A b, c : Chain(b, c)' <=> Chain(b, c)
        /\ \A f : Flagged(f)' <=> Flagged(f)
<1> SUFFICES ASSUME UNCHANGED parserVars
             PROVE  /\ \A b, f : AtWork(b, f)' <=> AtWork(b, f)
                    /\ \A b, f : Visited(b, f)' = Visited(b, f)
                    /\ \A b, c : Chain(b, c)' <=> Chain(b, c)
                    /\ \A f : Flagged(f)' <=> Flagged(f)
  OBVIOUS
<1>1. \A b, f : AtWork(b, f)' <=> AtWork(b, f)
  BY Stays DEF AtWork, Home
<1>2. \A f, p : Past(f, p)' <=> Past(f, p)
  BY Stays DEF Past
<1>3. \A b, f : Visited(b, f)' = Visited(b, f)
  BY <1>2, Stays DEF Visited
<1>4. \A b, c : Chain(b, c)' <=> Chain(b, c)
  BY <1>1, Stays DEF Chain
<1>5. \A f : Flagged(f)' <=> Flagged(f)
  BY Stays DEF Flagged
<1> QED BY <1>1, <1>3, <1>4, <1>5

LEMMA StaysWrong ==
    UNCHANGED parserVars =>
        /\ \A V : (Errors(V)' <=> Errors(V)) /\ Marks(V)' = Marks(V)
        /\ \A b : Wronged(b)' <=> Wronged(b)
        /\ \A k : Before(k)' <=> Before(k)
<1> SUFFICES ASSUME UNCHANGED parserVars
             PROVE  /\ \A V : (Errors(V)' <=> Errors(V)) /\ Marks(V)' = Marks(V)
                    /\ \A b : Wronged(b)' <=> Wronged(b)
                    /\ \A k : Before(k)' <=> Before(k)
  OBVIOUS
<1>1. \A p : Bad(p)' <=> Bad(p)
  BY Stays DEF Bad
<1>2. \A V, t : Has(V, t)' <=> Has(V, t)
  BY Stays DEF Has
<1>3. \A V : Twice(V)' <=> Twice(V)
  BY Stays DEF Twice
<1>4. \A V : Errors(V)' <=> Errors(V)
  BY <1>1, <1>3 DEF Errors
<1>5. \A V : Marks(V)' = Marks(V)
  BY Stays DEF Marks
<1>6. \A V : Dangling(V)' <=> Dangling(V)
  BY <1>2 DEF Dangling
<1>7. \A b : Wronged(b)' <=> Wronged(b)
  BY <1>4, <1>6, Stays DEF Wronged
<1>8. \A k : Before(k)' <=> Before(k)
  BY <1>7, Stays DEF Before
<1> QED BY <1>4, <1>5, <1>7, <1>8

LEMMA StaysCheck ==
    UNCHANGED parserVars =>
        \A c, w, s, k : CheckAt(c, w, s, k)' <=> CheckAt(c, w, s, k)
BY Stays, StaysAtWork, StaysWrong DEF CheckAt

--------------------------------------------------------------------------------
(* What is emitted.                                                          *)

Signs == {"{", "}", "stmt", "case"}
Sorts == Kinds \cup Plain \cup Labels \cup {"block", "loop"}
Pieces == [c : Signs, kind : Sorts, at : Nat, part : Nat]
Emits == [at : Nat, part : Nat, next : Nat]

LEMMA Pieced ==
    /\ \A c \in Signs, kind \in Sorts, at \in Nat, part \in Nat :
         Piece(c, kind, at, part) \in Pieces
    /\ \A kind \in Sorts, at \in Nat, part \in Nat : Brace(kind, at, part) \in Pieces
    /\ End \in Pieces
<1>1. \A c \in Signs, kind \in Sorts, at \in Nat, part \in Nat :
         Piece(c, kind, at, part) \in Pieces
  BY DEF Piece, Pieces
<1>2. "{" \in Signs /\ "}" \in Signs
  BY Zenon DEF Signs
<1>3. \A kind \in Sorts, at \in Nat, part \in Nat : Brace(kind, at, part) \in Pieces
  BY <1>1, <1>2, Zenon DEF Brace
<1>4. "block" \in Sorts
  BY Zenon DEF Sorts
<1>5. 0 \in Nat
  OBVIOUS
<1>6. End \in Pieces
  BY <1>1, <1>2, <1>4, <1>5, Zenon DEF End
<1> QED BY <1>1, <1>3, <1>6

LEMMA NodeKinds ==
    ASSUME Tree, NEW a \in Nodes
    PROVE  /\ Kind(a) \in Sorts /\ a \in Nat
           /\ a # 0 => /\ Kind(a) = ops[a].kind
                       /\ ops[a].labels \in Seq(Labels)
                       /\ Kind(a) = "switch {" /\ Subs(a) # <<>> => Len(Subs(a)) = Len(ops[a].labels) + 1
<1>1. a = 0 => Kind(a) \in Sorts
  BY DEF Kind, Sorts, Kinds
<1>2. ASSUME a # 0
      PROVE  /\ Kind(a) \in Sorts /\ Kind(a) = ops[a].kind
             /\ ops[a].labels \in Seq(Labels)
             /\ Kind(a) = "switch {" /\ Subs(a) # <<>> => Len(Subs(a)) = Len(ops[a].labels) + 1
  <2>1. a \in DOMAIN ops
    BY <1>2 DEF Nodes
  <2>2. ops[a] \in Ops
    BY <2>1, Whole DEF ParserTypeOK
  <2>3. ops[a].kind \in Kinds \cup Plain /\ ops[a].labels \in Seq(Labels)
    BY <2>2 DEF Ops
  <2>4. Kind(a) = ops[a].kind /\ Subs(a) = ops[a].subs
    BY <1>2 DEF Kind, Subs
  <2>5. ops[a].subs # <<>> => Shaped(ops[a].kind, ops[a].labels, ops[a].subs)
    BY <2>1, Whole DEF ParserTypeOK
  <2> QED BY <2>3, <2>4, <2>5 DEF Sorts, Shaped
<1>3. a \in Nat
  BY TreeLists
<1> QED BY <1>1, <1>2, <1>3

LEMMA OneTwo ==
    ASSUME NEW S, NEW x \in S, NEW y \in S
    PROVE  <<>> \in Seq(S) /\ <<x>> \in Seq(S) /\ <<x, y>> \in Seq(S)
OBVIOUS

\* The texts are made of pieces.
LEMMA OpenerPieces ==
    ASSUME Tree, NEW a \in Nodes
    PROVE  Opener(a) \in Seq(Pieces)
<1>1. Kind(a) \in Sorts /\ a \in Nat /\ 0 \in Nat /\ 1 \in Nat
  BY NodeKinds
<1>2. "loop" \in Sorts /\ "block" \in Sorts /\ "stmt" \in Signs
  BY Zenon DEF Sorts, Signs
<1>3. /\ Brace("loop", a, 1) \in Pieces /\ Brace("block", a, 0) \in Pieces
      /\ Brace("block", a, 1) \in Pieces /\ Piece("stmt", Kind(a), a, 0) \in Pieces
  BY <1>1, <1>2, Pieced
<1> DEFINE p1 == Brace("loop", a, 1)
           p2 == Brace("block", a, 0)
           p3 == Brace("block", a, 1)
           p4 == Piece("stmt", Kind(a), a, 0)
<1>4. /\ <<p1>> \in Seq(Pieces) /\ <<p2, p1>> \in Seq(Pieces) /\ <<p2, p3>> \in Seq(Pieces)
      /\ <<p3>> \in Seq(Pieces) /\ <<>> \in Seq(Pieces) /\ <<p4>> \in Seq(Pieces)
  BY <1>3, OneTwo
<1> QED BY <1>4, Zenon DEF Opener, ScrutineeFirst

LEMMA BetweenPieces ==
    ASSUME Tree, NEW a \in Nodes, NEW k \in 1 .. Len(Subs(a)) - 1
    PROVE  Between(a, k) \in Seq(Pieces)
<1>1. Kind(a) \in Sorts /\ a \in Nat /\ k \in Nat /\ k + 1 \in Nat /\ 1 \in Nat
  <2>1. Len(Subs(a)) \in Nat
    BY TreeLists
  <2>2. k \in Nat /\ k + 1 \in Nat
    BY <2>1
  <2> QED BY <2>2, NodeKinds
<1>2. "block" \in Sorts /\ "switch {" \in Sorts /\ "case" \in Signs
  BY Zenon DEF Sorts, Signs, Kinds
<1>3. Brace("switch {", a, 1) \in Pieces /\ Brace("block", a, k + 1) \in Pieces /\ End \in Pieces
  BY <1>1, <1>2, Pieced
<1>4. Switch(a, k) \in Seq(Pieces)
  BY <1>3, OneTwo, Zenon DEF Switch
<1>5. ASSUME Kind(a) = "switch {" PROVE Piece("case", ops[a].labels[k], a, k + 1) \in Pieces
  <2>1. a # 0
    BY <1>5 DEF Kind
  <2>2. Len(Subs(a)) \in Nat
    BY TreeLists
  <2>3. Subs(a) # <<>>
    BY <2>2
  <2>4. ops[a].labels \in Seq(Labels) /\ Len(Subs(a)) = Len(ops[a].labels) + 1
    BY <1>5, <2>1, <2>3, NodeKinds
  <2>5. Len(ops[a].labels) \in Nat
    BY <2>4
  <2>6. k \in 1 .. Len(ops[a].labels)
    BY <2>4, <2>5
  <2>7. ops[a].labels[k] \in Labels
    BY <2>4, <2>6
  <2>8. ops[a].labels[k] \in Sorts
    BY <2>7, Zenon DEF Sorts
  <2> QED BY <1>1, <1>2, <2>8, Pieced
<1>6. <<End, Brace("block", a, k + 1)>> \in Seq(Pieces)
  BY <1>3, OneTwo
<1>7. ASSUME NEW s \in Seq(Pieces), NEW p \in Pieces PROVE Append(s, p) \in Seq(Pieces)
  OBVIOUS
<1> QED BY <1>4, <1>5, <1>6, <1>7, Zenon DEF Between

LEMMA CloserPieces ==
    ASSUME Tree, NEW a \in Nodes, NEW k \in Nat
    PROVE  Closer(a, k) \in Seq(Pieces)
<1>1. a \in Nat /\ 1 \in Nat
  BY NodeKinds
<1>2. "switch {" \in Sorts
  BY Zenon DEF Sorts, Kinds
<1>3. Brace("switch {", a, 1) \in Pieces /\ End \in Pieces
  BY <1>1, <1>2, Pieced
<1>4. Switch(a, k) \in Seq(Pieces)
  BY <1>3, OneTwo, Zenon DEF Switch
<1>5. <<End>> \in Seq(Pieces) /\ <<End, End>> \in Seq(Pieces)
  BY <1>3, OneTwo
<1>6. ASSUME NEW s \in Seq(Pieces), NEW r \in Seq(Pieces) PROVE s \o r \in Seq(Pieces)
  OBVIOUS
<1> QED BY <1>4, <1>5, <1>6, Zenon DEF Closer

LEMMA EmitFrame ==
    ASSUME NEW f \in Emits
    PROVE  LET g == [f EXCEPT !.next = @ + 1]
               h == [f EXCEPT !.part = @ + 1, !.next = 1]
           IN
           /\ g \in Emits /\ g.at = f.at /\ g.part = f.part /\ g.next = f.next + 1
           /\ h \in Emits /\ h.at = f.at /\ h.part = f.part + 1 /\ h.next = 1
<1> DEFINE g == [f EXCEPT !.next = @ + 1]
           h == [f EXCEPT !.part = @ + 1, !.next = 1]
<1>1. g \in Emits
  BY DEF Emits
<1>2. h \in Emits
  <2>1. h = [[f EXCEPT !.part = @ + 1] EXCEPT !.next = 1]
    BY Zenon
  <2>2. [f EXCEPT !.part = @ + 1] \in Emits
    BY DEF Emits
  <2>3. \A r \in Emits : [r EXCEPT !.next = 1] \in Emits
    BY DEF Emits
  <2> QED BY <2>1, <2>2, <2>3, Zenon
<1>3. g.at = f.at /\ g.part = f.part /\ g.next = f.next + 1
  BY DEF Emits
<1>4. h.at = f.at /\ h.part = f.part + 1 /\ h.next = 1
  BY DEF Emits
<1> QED BY <1>1, <1>2, <1>3, <1>4

--------------------------------------------------------------------------------
(* The code generation at work.                                              *)

EmitAt(c, k) == c # <<>> => k < Len(Program) /\ Chain(Program[k + 1], c)

LEMMA EmitChain ==
    ASSUME NEW b, NEW c \in Seq(Emits), c # <<>>, Chain(b, c),
           NEW g \in Emits, AtWork(b, g), g.at = Last(c).at
    PROVE  \A d : d = Append(Front(c), g) =>
             d \in Seq(Emits) /\ d # <<>> /\ Last(d) = g /\ Chain(b, d)
<1> DEFINE d == Append(Front(c), g)
<1>1. d \in Seq(Emits) /\ d # <<>> /\ Last(d) = g /\ Chain(b, d)
  BY ChainLast
<1> QED BY <1>1

LEMMA EmitAtFacts ==
    ASSUME Tree, NEW k \in 0 .. Len(Program), NEW c \in Seq(Emits), c # <<>>, EmitAt(c, k),
           NEW f, f = Last(c), NEW b, b = Program[k + 1]
    PROVE  /\ k < Len(Program) /\ b \in Range(Program) /\ Chain(b, c)
           /\ f \in Emits /\ AtWork(b, f) /\ f.at \in Nodes
<1>1. k < Len(Program) /\ Chain(b, c)
  BY DEF EmitAt
<1>2. b \in Range(Program)
  BY <1>1, BodyAt
<1>3. f \in Emits /\ f = c[Len(c)] /\ Len(c) \in Nat /\ Len(c) > 0
  BY Ended
<1>4. Len(c) \in 1 .. Len(c)
  BY <1>3
<1>5. AtWork(b, f)
  BY <1>1, <1>3, <1>4 DEF Chain
<1>6. f.at \in Nodes
  BY <1>2, <1>5, WorkFacts
<1> QED BY <1>1, <1>2, <1>3, <1>5, <1>6

LEMMA EmitAtBody ==
    ASSUME Tree, NEW k \in 0 .. Len(Program), k < Len(Program)
    PROVE  LET a == Program[k + 1] IN
           /\ <<Emitting(a)>> \in Seq(Emits) /\ EmitAt(<<Emitting(a)>>, k)
           /\ <<Brace("block", a, 1)>> \in Seq(Pieces)
<1> DEFINE a == Program[k + 1]
           f == Emitting(a)
<1>1. a \in Range(Program)
  BY BodyAt
<1>2. a \in Nat
  BY <1>1, Programs, TreeLists
<1>3. f \in Emits /\ f.at = a /\ f.part = 1 /\ f.next = 1
  BY <1>2 DEF Emitting, Emits
<1> HIDE DEF a, f
<1>4. <<f>> \in Seq(Emits) /\ Chain(a, <<f>>)
  BY <1>1, <1>3, ChainStart
<1>5. EmitAt(<<f>>, k)
  BY <1>4 DEF EmitAt, a
<1>6. "block" \in Sorts
  BY Zenon DEF Sorts
<1>7. Brace("block", a, 1) \in Pieces
  BY <1>2, <1>6, Pieced
<1>8. <<Brace("block", a, 1)>> \in Seq(Pieces)
  BY <1>7, OneTwo
<1> QED BY <1>4, <1>5, <1>8 DEF a, f

LEMMA EmitAtOp ==
    ASSUME Tree, NEW k \in 0 .. Len(Program), calls \in Seq(Emits), AtItem, EmitAt(calls, k)
    PROVE  /\ Opener(Item) \in Seq(Pieces)
           /\ Advanced \in Seq(Emits) /\ EmitAt(Advanced, k)
           /\ ops[Item].subs # <<>> =>
                /\ Append(Advanced, Emitting(Item)) \in Seq(Emits)
                /\ EmitAt(Append(Advanced, Emitting(Item)), k)
<1> DEFINE f == Current
           b == Program[k + 1]
           x == Item
           g == [f EXCEPT !.next = @ + 1]
           h == Emitting(x)
           d == Append(Callers, g)
           e == Append(d, h)
<1>0. calls # <<>> /\ f = Last(calls) /\ f.next <= Len(List(f)) /\ x = List(f)[f.next]
  BY DEF AtItem, Current, Item
<1>1. /\ k < Len(Program) /\ b \in Range(Program) /\ Chain(b, calls)
      /\ f \in Emits /\ AtWork(b, f) /\ f.at \in Nodes
  BY <1>0, EmitAtFacts
<1>2. g \in Emits /\ g.at = f.at /\ g.part = f.part /\ g.next = f.next + 1
  BY <1>1, EmitFrame
<1> HIDE DEF f, b, x, g, h, d, e
<1>3. AtWork(b, g) /\ g.next > 1 /\ List(g)[g.next - 1] = x
  BY <1>0, <1>1, <1>2, VisitOver
<1>4. x \in DOMAIN ops /\ x \in Nat
  BY <1>0, <1>1, NotYet
<1>5. d \in Seq(Emits) /\ d # <<>> /\ Last(d) = g /\ Chain(b, d)
  <2>1. d = Append(Front(calls), g)
    BY DEF d, Callers
  <2>2. g.at = Last(calls).at /\ calls # <<>> /\ Chain(b, calls)
    BY <1>0, <1>1, <1>2
  <2> QED BY <1>2, <1>3, <2>1, <2>2, EmitChain
<1>6. EmitAt(d, k)
  BY <1>1, <1>5 DEF EmitAt, b
<1>7. Opener(x) \in Seq(Pieces)
  BY <1>4, OpenerPieces DEF Nodes
<1>8. ASSUME ops[x].subs # <<>> PROVE e \in Seq(Emits) /\ EmitAt(e, k)
  <2>1. h \in Emits /\ h.at = x /\ h.part = 1 /\ h.next = 1
    BY <1>4 DEF h, Emitting, Emits
  <2>2. AtWork(b, h)
    BY <1>0, <1>1, <1>8, <2>1, VisitDown
  <2>3. h.at = List(Last(d))[Last(d).next - 1] /\ Last(d).next > 1
    BY <1>3, <1>5, <2>1
  <2>4. LET u == Append(d, h) IN u \in Seq(Emits) /\ u # <<>> /\ Chain(b, u)
    BY <1>5, <2>1, <2>2, <2>3, ChainPush
  <2> QED BY <1>1, <2>4 DEF EmitAt, b, e
<1> QED BY <1>5, <1>6, <1>7, <1>8 DEF f, x, g, h, d, e, Advanced

LEMMA EmitAtNext ==
    ASSUME Tree, NEW k \in 0 .. Len(Program), calls \in Seq(Emits), AtEnd, ~LastList,
           EmitAt(calls, k)
    PROVE  /\ Between(Current.at, Current.part) \in Seq(Pieces)
           /\ Onward \in Seq(Emits) /\ EmitAt(Onward, k)
<1> DEFINE f == Current
           b == Program[k + 1]
           g == [f EXCEPT !.part = @ + 1, !.next = 1]
           d == Append(Callers, g)
<1>0. calls # <<>> /\ f = Last(calls) /\ f.next > Len(List(f)) /\ f.part # Len(Subs(f.at))
  BY DEF AtEnd, LastList, Current
<1>1. /\ k < Len(Program) /\ b \in Range(Program) /\ Chain(b, calls)
      /\ f \in Emits /\ AtWork(b, f) /\ f.at \in Nodes
  BY <1>0, EmitAtFacts
<1>2. g \in Emits /\ g.at = f.at /\ g.part = f.part + 1 /\ g.next = 1
  BY <1>1, EmitFrame
<1> HIDE DEF f, b, g, d
<1>3. AtWork(b, g)
  BY <1>0, <1>1, <1>2, VisitOn
<1>5. d \in Seq(Emits) /\ d # <<>> /\ Last(d) = g /\ Chain(b, d)
  <2>1. d = Append(Front(calls), g)
    BY DEF d, Callers
  <2>2. g.at = Last(calls).at /\ calls # <<>> /\ Chain(b, calls)
    BY <1>0, <1>1, <1>2
  <2> QED BY <1>2, <1>3, <2>1, <2>2, EmitChain
<1>6. EmitAt(d, k)
  BY <1>1, <1>5 DEF EmitAt, b
<1>7. Between(f.at, f.part) \in Seq(Pieces)
  <2>1. f.part \in 1 .. Len(Subs(f.at)) /\ Len(Subs(f.at)) \in Nat
    BY <1>1, WorkFacts
  <2>2. f.part \in 1 .. Len(Subs(f.at)) - 1
    BY <1>0, <2>1
  <2> QED BY <1>1, <2>2, BetweenPieces
<1> QED BY <1>5, <1>6, <1>7 DEF f, g, d, Onward

LEMMA EmitAtReturn ==
    ASSUME Tree, NEW k \in 0 .. Len(Program), calls \in Seq(Emits), AtEnd, LastList,
           EmitAt(calls, k)
    PROVE  /\ Closer(Current.at, Current.part) \in Seq(Pieces)
           /\ Callers \in Seq(Emits) /\ EmitAt(Callers, k) /\ k < Len(Program)
<1> DEFINE f == Current
           b == Program[k + 1]
           d == Callers
<1>0. calls # <<>> /\ f = Last(calls)
  BY DEF AtEnd, Current
<1>1. /\ k < Len(Program) /\ b \in Range(Program) /\ Chain(b, calls)
      /\ f \in Emits /\ AtWork(b, f) /\ f.at \in Nodes
  BY <1>0, EmitAtFacts
<1> HIDE DEF f, b, d
<1>2. d \in Seq(Emits) /\ Chain(b, d)
  <2>1. d = Front(calls) /\ calls # <<>> /\ Chain(b, calls)
    BY <1>0, <1>1 DEF d, Callers
  <2> QED BY <2>1, ChainPop
<1>3. Closer(f.at, f.part) \in Seq(Pieces)
  BY <1>1, CloserPieces DEF Emits
<1> QED BY <1>1, <1>2, <1>3 DEF f, b, d, EmitAt

--------------------------------------------------------------------------------
(* The invariant of the walks.                                               *)

Fresh ==
    /\ phase = "check" /\ calls = <<>> /\ faulty = FALSE /\ seen = {}
    /\ checked = 0 /\ out = <<>> /\ texts = <<>>

AtCheck ==
    /\ calls \in Seq(Checks) /\ CheckAt(calls, faulty, seen, checked)
    /\ out = <<>> /\ texts = <<>>

AtEmit ==
    /\ calls \in Seq(Emits) /\ EmitAt(calls, Len(texts))
    /\ out \in Seq(Pieces) /\ texts \in Seq(Seq(Pieces)) /\ Len(texts) \in 0 .. Len(Program)

AtRest ==
    /\ calls = <<>>
    /\ texts \in Seq(Seq(Pieces)) /\ Len(texts) \in 0 .. Len(Program)

Walked ==
    /\ checked \in 0 .. Len(Program)
    /\ phase = "check" => AtCheck
    /\ phase # "check" => (phase = "rejected" <=> Before(Len(Program)))
    /\ phase = "emit" => AtEmit
    /\ phase \in {"rejected", "done"} => AtRest

WalkInv ==
    /\ phase \in {"check", "rejected", "emit", "done"} /\ faulty \in BOOLEAN
    /\ seen \subseteq {"goto L;", "label L;"}
    /\ ~Parsed => Fresh
    /\ Parsed => Walked

LEMMA ParsedStays == UNCHANGED parserVars => (Parsed' <=> Parsed)
BY DEF parserVars, Parsed

LEMMA EmitAtStays == UNCHANGED parserVars => \A c, k : EmitAt(c, k)' <=> EmitAt(c, k)
BY Stays, StaysAtWork DEF EmitAt

\* Steps of the analysis.
LEMMA CheckStep ==
    ASSUME UNCHANGED parserVars, WalkInv, Parsed, phase = "check", phase' = phase,
           out' = out, texts' = texts, faulty' \in BOOLEAN, seen' \subseteq {"goto L;", "label L;"},
           checked' \in 0 .. Len(Program), calls' \in Seq(Checks),
           CheckAt(calls', faulty', seen', checked')
    PROVE  WalkInv'
<1>1. Parsed'
  BY ParsedStays
<1>2. out = <<>> /\ texts = <<>>
  BY DEF WalkInv, Walked, AtCheck
<1>3. CheckAt(calls, faulty, seen, checked)'
  BY StaysCheck
<1>4. Program' = Program
  BY Stays
<1>5. AtCheck'
  BY <1>2, <1>3 DEF AtCheck
<1>6. Walked'
  BY <1>4, <1>5 DEF Walked
<1> QED BY <1>1, <1>6 DEF WalkInv

LEMMA CheckBodyWalk == ASSUME Tree, WalkInv, CheckBody PROVE WalkInv'
<1>1. /\ Parsed /\ phase = "check" /\ calls = <<>> /\ checked < Len(Program)
      /\ calls' = <<Checking(Program[checked + 1], FALSE, FALSE)>>
      /\ seen' = NoLabels
      /\ UNCHANGED <<parserVars, phase, faulty, checked, out, texts>>
  BY DEF CheckBody
<1>2. checked \in 0 .. Len(Program) /\ CheckAt(calls, faulty, seen, checked) /\ faulty \in BOOLEAN
  BY <1>1 DEF WalkInv, Walked, AtCheck
<1>3. CheckAt(<<>>, faulty, NoLabels, checked)
  BY <1>1, <1>2 DEF CheckAt
<1>4. /\ <<Checking(Program[checked + 1], FALSE, FALSE)>> \in Seq(Checks)
      /\ CheckAt(<<Checking(Program[checked + 1], FALSE, FALSE)>>, faulty, NoLabels, checked)
  BY <1>1, <1>2, <1>3, CheckAtBody
<1>5. NoLabels \subseteq {"goto L;", "label L;"}
  BY DEF NoLabels
<1>6. /\ calls' \in Seq(Checks) /\ CheckAt(calls', faulty', seen', checked')
      /\ seen' \subseteq {"goto L;", "label L;"} /\ faulty' \in BOOLEAN
      /\ checked' \in 0 .. Len(Program)
  BY <1>1, <1>2, <1>4, <1>5
<1> QED BY <1>1, <1>6, CheckStep

LEMMA CheckOpWalk == ASSUME Tree, WalkInv, CheckOp PROVE WalkInv'
<1> DEFINE op == ops[Item]
           w == faulty \/ Wrong(op)
           s == seen \cup ({op.kind} \cap {"goto L;", "label L;"})
           h == Checking(Item, InLoop, InSwitch)
<1>1. /\ phase = "check" /\ AtItem
      /\ faulty' = w /\ seen' = s
      /\ calls' = IF op.subs = <<>> THEN Advanced ELSE Append(Advanced, h)
      /\ UNCHANGED <<parserVars, phase, checked, out, texts>>
  BY DEF CheckOp
<1>2. Parsed
  BY DEF Tree
<1>3. /\ checked \in 0 .. Len(Program) /\ calls \in Seq(Checks)
      /\ CheckAt(calls, faulty, seen, checked)
      /\ faulty \in BOOLEAN /\ seen \subseteq {"goto L;", "label L;"}
  BY <1>1, <1>2 DEF WalkInv, Walked, AtCheck
<1>4. /\ op.subs = <<>> => Advanced \in Seq(Checks) /\ CheckAt(Advanced, w, s, checked)
      /\ op.subs # <<>> =>
           Append(Advanced, h) \in Seq(Checks) /\ CheckAt(Append(Advanced, h), w, s, checked)
  BY <1>1, <1>3, CheckAtOp
<1>5. w \in BOOLEAN /\ s \subseteq {"goto L;", "label L;"}
  BY <1>3
<1> HIDE DEF op, w, s, h
<1>6. calls' \in Seq(Checks) /\ CheckAt(calls', w, s, checked)
  <2>1. CASE op.subs = <<>>
    BY <1>1, <1>4, <2>1
  <2>2. CASE op.subs # <<>>
    BY <1>1, <1>4, <2>2
  <2> QED BY <2>1, <2>2
<1>7. /\ CheckAt(calls', faulty', seen', checked')
      /\ seen' \subseteq {"goto L;", "label L;"} /\ faulty' \in BOOLEAN
      /\ checked' \in 0 .. Len(Program)
  BY <1>1, <1>3, <1>5, <1>6
<1> QED BY <1>1, <1>2, <1>6, <1>7, CheckStep

LEMMA CheckNextWalk == ASSUME Tree, WalkInv, CheckNextList PROVE WalkInv'
<1>1. /\ phase = "check" /\ AtEnd /\ ~LastList /\ calls' = Onward
      /\ UNCHANGED <<parserVars, phase, faulty, seen, checked, out, texts>>
  BY DEF CheckNextList
<1>2. Parsed
  BY DEF Tree
<1>3. /\ checked \in 0 .. Len(Program) /\ calls \in Seq(Checks)
      /\ CheckAt(calls, faulty, seen, checked)
      /\ faulty \in BOOLEAN /\ seen \subseteq {"goto L;", "label L;"}
  BY <1>1, <1>2 DEF WalkInv, Walked, AtCheck
<1>4. Onward \in Seq(Checks) /\ CheckAt(Onward, faulty, seen, checked)
  BY <1>1, <1>3, CheckAtNext
<1>5. /\ calls' \in Seq(Checks) /\ CheckAt(calls', faulty', seen', checked')
      /\ seen' \subseteq {"goto L;", "label L;"} /\ faulty' \in BOOLEAN
      /\ checked' \in 0 .. Len(Program)
  BY <1>1, <1>3, <1>4
<1> QED BY <1>1, <1>2, <1>5, CheckStep

LEMMA CheckReturnWalk == ASSUME Tree, WalkInv, CheckReturn PROVE WalkInv'
<1> DEFINE w == faulty \/ ("goto L;" \in seen /\ "label L;" \notin seen)
<1>1. /\ phase = "check" /\ AtEnd /\ LastList /\ calls' = Callers
      /\ Callers = <<>> => faulty' = w /\ checked' = checked + 1
      /\ Callers # <<>> => faulty' = faulty /\ checked' = checked
      /\ UNCHANGED <<parserVars, phase, seen, out, texts>>
  BY DEF CheckReturn
<1>2. Parsed
  BY DEF Tree
<1>3. /\ checked \in 0 .. Len(Program) /\ calls \in Seq(Checks)
      /\ CheckAt(calls, faulty, seen, checked)
      /\ faulty \in BOOLEAN /\ seen \subseteq {"goto L;", "label L;"}
  BY <1>1, <1>2 DEF WalkInv, Walked, AtCheck
<1>4. /\ Callers \in Seq(Checks)
      /\ Callers = <<>> => checked + 1 \in 0 .. Len(Program) /\ CheckAt(Callers, w, seen, checked + 1)
      /\ Callers # <<>> => CheckAt(Callers, faulty, seen, checked)
  BY <1>1, <1>3, CheckAtReturn
<1>5. w \in BOOLEAN
  BY <1>3
<1> HIDE DEF w
<1>6. /\ CheckAt(calls', faulty', seen', checked')
      /\ seen' \subseteq {"goto L;", "label L;"} /\ faulty' \in BOOLEAN
      /\ checked' \in 0 .. Len(Program) /\ calls' \in Seq(Checks)
  <2>1. CASE Callers = <<>>
    BY <1>1, <1>3, <1>4, <1>5, <2>1
  <2>2. CASE Callers # <<>>
    BY <1>1, <1>3, <1>4, <1>5, <2>2
  <2> QED BY <2>1, <2>2
<1> QED BY <1>1, <1>2, <1>6, CheckStep

LEMMA AnalysedWalk == ASSUME Tree, WalkInv, Analysed PROVE WalkInv'
<1>1. /\ Parsed /\ phase = "check" /\ calls = <<>> /\ checked = Len(Program)
      /\ phase' = IF faulty THEN "rejected" ELSE "emit"
      /\ UNCHANGED <<parserVars, calls, faulty, seen, checked, out, texts>>
  BY DEF Analysed
<1>2. /\ checked \in 0 .. Len(Program) /\ CheckAt(calls, faulty, seen, checked)
      /\ out = <<>> /\ texts = <<>> /\ faulty \in BOOLEAN /\ seen \subseteq {"goto L;", "label L;"}
  BY <1>1 DEF WalkInv, Walked, AtCheck
<1>3. faulty <=> Before(Len(Program))
  BY <1>1, <1>2 DEF CheckAt
<1>4. Parsed' /\ Program' = Program
  BY <1>1, ParsedStays, Stays
<1>5. Before(Len(Program))' <=> Before(Len(Program))
  <2>1. \A k : Before(k)' <=> Before(k)
    BY <1>1, StaysWrong
  <2> QED BY <1>4, <2>1
<1>6. Len(Program) \in Nat
  BY Programs
<1>7. calls' = <<>> /\ texts' = <<>> /\ out' = <<>> /\ Len(texts') = 0
  BY <1>1, <1>2
<1>8. AtRest'
  BY <1>4, <1>6, <1>7 DEF AtRest
<1>9. AtEmit'
  <2>1. EmitAt(calls, Len(texts))'
    BY <1>7 DEF EmitAt
  <2>2. <<>> \in Seq(Emits) /\ <<>> \in Seq(Pieces) /\ <<>> \in Seq(Seq(Pieces))
    OBVIOUS
  <2> QED BY <1>4, <1>6, <1>7, <2>1, <2>2 DEF AtEmit
<1>10. phase' = "rejected" <=> Before(Len(Program))'
  BY <1>1, <1>3, <1>5
<1>11. phase' \in {"rejected", "emit"}
  BY <1>1
<1>12. Walked'
  BY <1>1, <1>2, <1>4, <1>8, <1>9, <1>10, <1>11 DEF Walked
<1> QED BY <1>1, <1>2, <1>4, <1>11, <1>12 DEF WalkInv

\* Steps of the code generation.
LEMMA EmitStep ==
    ASSUME UNCHANGED parserVars, WalkInv, Parsed, phase = "emit", phase' = phase,
           faulty' = faulty, seen' = seen, checked' = checked, calls' \in Seq(Emits),
           out' \in Seq(Pieces), texts' \in Seq(Seq(Pieces)), Len(texts') \in 0 .. Len(Program),
           EmitAt(calls', Len(texts'))
    PROVE  WalkInv'
<1>1. Parsed' /\ Program' = Program
  BY ParsedStays, Stays
<1>2. /\ checked \in 0 .. Len(Program) /\ faulty \in BOOLEAN /\ seen \subseteq {"goto L;", "label L;"}
      /\ ~Before(Len(Program))
  BY DEF WalkInv, Walked
<1>3. EmitAt(calls, Len(texts))'
  BY EmitAtStays
<1>4. AtEmit'
  BY <1>1, <1>3 DEF AtEmit
<1>5. ~Before(Len(Program))'
  <2>1. \A k : Before(k)' <=> Before(k)
    BY StaysWrong
  <2> QED BY <1>1, <1>2, <2>1
<1>6. Walked'
  BY <1>1, <1>2, <1>4, <1>5 DEF Walked
<1> QED BY <1>1, <1>2, <1>6 DEF WalkInv

LEMMA EmitFacts ==
    ASSUME WalkInv, Parsed, phase = "emit"
    PROVE  /\ calls \in Seq(Emits) /\ EmitAt(calls, Len(texts))
           /\ out \in Seq(Pieces) /\ texts \in Seq(Seq(Pieces)) /\ Len(texts) \in 0 .. Len(Program)
BY DEF WalkInv, Walked, AtEmit

LEMMA EmitBodyWalk == ASSUME Tree, WalkInv, EmitBody PROVE WalkInv'
<1> DEFINE at == Program[Len(texts) + 1]
<1>1. /\ phase = "emit" /\ Len(texts) < Len(Program)
      /\ calls' = <<Emitting(at)>> /\ out' = <<Brace("block", at, 1)>>
      /\ UNCHANGED <<parserVars, phase, faulty, seen, checked, texts>>
  BY DEF EmitBody
<1>2. Parsed
  BY DEF Tree
<1>3. /\ texts \in Seq(Seq(Pieces)) /\ Len(texts) \in 0 .. Len(Program)
  BY <1>1, <1>2, EmitFacts
<1>4. /\ <<Emitting(at)>> \in Seq(Emits) /\ EmitAt(<<Emitting(at)>>, Len(texts))
      /\ <<Brace("block", at, 1)>> \in Seq(Pieces)
  BY <1>1, <1>3, EmitAtBody
<1> HIDE DEF at
<1>5. /\ calls' \in Seq(Emits) /\ EmitAt(calls', Len(texts')) /\ out' \in Seq(Pieces)
      /\ texts' \in Seq(Seq(Pieces)) /\ Len(texts') \in 0 .. Len(Program)
  BY <1>1, <1>3, <1>4
<1> QED BY <1>1, <1>2, <1>5, EmitStep

LEMMA Joined ==
    ASSUME NEW S, NEW s \in Seq(S), NEW r \in Seq(S)
    PROVE  s \o r \in Seq(S)
OBVIOUS

LEMMA EmitOpWalk == ASSUME Tree, WalkInv, EmitOp PROVE WalkInv'
<1>1. /\ phase = "emit" /\ AtItem /\ out' = out \o Opener(Item)
      /\ calls' = IF ops[Item].subs = <<>> \/ Kind(Item) = "sizeof a["
                  THEN Advanced ELSE Append(Advanced, Emitting(Item))
      /\ UNCHANGED <<parserVars, phase, faulty, seen, checked, texts>>
  BY DEF EmitOp
<1>2. Parsed
  BY DEF Tree
<1>3. /\ calls \in Seq(Emits) /\ EmitAt(calls, Len(texts)) /\ out \in Seq(Pieces)
      /\ texts \in Seq(Seq(Pieces)) /\ Len(texts) \in 0 .. Len(Program)
  BY <1>1, <1>2, EmitFacts
<1>4. /\ Opener(Item) \in Seq(Pieces)
      /\ Advanced \in Seq(Emits) /\ EmitAt(Advanced, Len(texts))
      /\ ops[Item].subs # <<>> =>
           /\ Append(Advanced, Emitting(Item)) \in Seq(Emits)
           /\ EmitAt(Append(Advanced, Emitting(Item)), Len(texts))
  BY <1>1, <1>3, EmitAtOp
<1>5. calls' \in Seq(Emits) /\ EmitAt(calls', Len(texts))
  <2>1. CASE ops[Item].subs = <<>> \/ Kind(Item) = "sizeof a["
    <3>1. calls' = Advanced
      BY <1>1, <2>1
    <3> QED BY <1>4, <3>1
  <2>2. CASE ~(ops[Item].subs = <<>> \/ Kind(Item) = "sizeof a[")
    <3>1. calls' = Append(Advanced, Emitting(Item)) /\ ops[Item].subs # <<>>
      BY <1>1, <2>2
    <3> QED BY <1>4, <3>1
  <2> QED BY <2>1, <2>2
<1>6. out' \in Seq(Pieces)
  BY <1>1, <1>3, <1>4, Joined
<1>7. /\ EmitAt(calls', Len(texts'))
      /\ texts' \in Seq(Seq(Pieces)) /\ Len(texts') \in 0 .. Len(Program)
  BY <1>1, <1>3, <1>5
<1> QED BY <1>1, <1>2, <1>5, <1>6, <1>7, EmitStep

LEMMA EmitNextWalk == ASSUME Tree, WalkInv, EmitNextList PROVE WalkInv'
<1>1. /\ phase = "emit" /\ AtEnd /\ ~LastList /\ out' = out \o Between(Current.at, Current.part)
      /\ calls' = Onward
      /\ UNCHANGED <<parserVars, phase, faulty, seen, checked, texts>>
  BY DEF EmitNextList
<1>2. Parsed
  BY DEF Tree
<1>3. /\ calls \in Seq(Emits) /\ EmitAt(calls, Len(texts)) /\ out \in Seq(Pieces)
      /\ texts \in Seq(Seq(Pieces)) /\ Len(texts) \in 0 .. Len(Program)
  BY <1>1, <1>2, EmitFacts
<1>4. /\ Between(Current.at, Current.part) \in Seq(Pieces)
      /\ Onward \in Seq(Emits) /\ EmitAt(Onward, Len(texts))
  BY <1>1, <1>3, EmitAtNext
<1>5. out' \in Seq(Pieces)
  BY <1>1, <1>3, <1>4, Joined
<1>6. /\ calls' \in Seq(Emits) /\ EmitAt(calls', Len(texts'))
      /\ texts' \in Seq(Seq(Pieces)) /\ Len(texts') \in 0 .. Len(Program)
  BY <1>1, <1>3, <1>4
<1> QED BY <1>1, <1>2, <1>5, <1>6, EmitStep

LEMMA EmitReturnWalk == ASSUME Tree, WalkInv, EmitReturn PROVE WalkInv'
<1> DEFINE all == out \o Closer(Current.at, Current.part)
<1>1. /\ phase = "emit" /\ AtEnd /\ LastList /\ calls' = Callers
      /\ Callers = <<>> => out' = <<>> /\ texts' = Append(texts, all)
      /\ Callers # <<>> => out' = all /\ texts' = texts
      /\ UNCHANGED <<parserVars, phase, faulty, seen, checked>>
  BY DEF EmitReturn
<1>2. Parsed
  BY DEF Tree
<1>3. /\ calls \in Seq(Emits) /\ EmitAt(calls, Len(texts)) /\ out \in Seq(Pieces)
      /\ texts \in Seq(Seq(Pieces)) /\ Len(texts) \in 0 .. Len(Program)
  BY <1>1, <1>2, EmitFacts
<1>4. /\ Closer(Current.at, Current.part) \in Seq(Pieces)
      /\ Callers \in Seq(Emits) /\ EmitAt(Callers, Len(texts)) /\ Len(texts) < Len(Program)
  BY <1>1, <1>3, EmitAtReturn
<1>5. all \in Seq(Pieces)
  BY <1>3, <1>4, Joined
<1> HIDE DEF all
<1>6. /\ calls' \in Seq(Emits) /\ EmitAt(calls', Len(texts')) /\ out' \in Seq(Pieces)
      /\ texts' \in Seq(Seq(Pieces)) /\ Len(texts') \in 0 .. Len(Program)
  <2>1. CASE Callers = <<>>
    <3>1. out' = <<>> /\ texts' = Append(texts, all) /\ calls' = <<>>
      BY <1>1, <2>1
    <3>2. <<>> \in Seq(Pieces) /\ <<>> \in Seq(Emits)
      OBVIOUS
    <3>3. texts' \in Seq(Seq(Pieces)) /\ Len(texts') = Len(texts) + 1
      <4> DEFINE P == Seq(Pieces)
      <4>1. texts \in Seq(P) /\ all \in P
        BY <1>3, <1>5
      <4> HIDE DEF P
      <4>2. Append(texts, all) \in Seq(P) /\ Len(Append(texts, all)) = Len(texts) + 1
        BY <4>1
      <4> QED BY <3>1, <4>2 DEF P
    <3>4. Len(texts') \in 0 .. Len(Program)
      BY <1>3, <1>4, <3>3, Programs
    <3>5. EmitAt(calls', Len(texts'))
      BY <3>1 DEF EmitAt
    <3> QED BY <3>1, <3>2, <3>3, <3>4, <3>5
  <2>2. CASE Callers # <<>>
    BY <1>1, <1>3, <1>4, <1>5, <2>2
  <2> QED BY <2>1, <2>2
<1> QED BY <1>1, <1>2, <1>6, EmitStep

LEMMA EmittedWalk == ASSUME Tree, WalkInv, Emitted PROVE WalkInv'
<1>1. /\ phase = "emit" /\ calls = <<>> /\ phase' = "done"
      /\ UNCHANGED <<parserVars, calls, faulty, seen, checked, out, texts>>
  BY DEF Emitted
<1>2. Parsed
  BY DEF Tree
<1>3. texts \in Seq(Seq(Pieces)) /\ Len(texts) \in 0 .. Len(Program)
  BY <1>1, <1>2, EmitFacts
<1>4. Parsed' /\ Program' = Program
  BY <1>1, <1>2, ParsedStays, Stays
<1>5. /\ checked \in 0 .. Len(Program) /\ faulty \in BOOLEAN /\ seen \subseteq {"goto L;", "label L;"}
      /\ ~Before(Len(Program))
  BY <1>1, <1>2 DEF WalkInv, Walked
<1>6. ~Before(Len(Program))'
  <2>1. \A k : Before(k)' <=> Before(k)
    BY <1>1, StaysWrong
  <2> QED BY <1>4, <1>5, <2>1
<1>7. AtRest'
  BY <1>1, <1>3, <1>4 DEF AtRest
<1>8. Walked'
  BY <1>1, <1>4, <1>5, <1>6, <1>7 DEF Walked
<1> QED BY <1>1, <1>4, <1>5, <1>8 DEF WalkInv

--------------------------------------------------------------------------------
(* The steps together.                                                       *)

\* Nothing is read behind the end of the text.
LEMMA ParsedEnds == ASSUME Parsed PROVE ~ParserNext
<1>1. status = "ended" /\ ~(Len(open) > 1)
  BY DEF Parsed
<1>2. \A t : ~Available(t)
  BY <1>1 DEF Available
<1>3. \A t : ~Read(t) /\ ~Mismatch(t)
  BY <1>2 DEF Read, Mismatch
<1>4. \A t : ~PlainOp(t) /\ ~Begin(t) /\ ~EndConstruct(t) /\ ~EndIndex(t) /\ ~CaseLabel(t)
  BY <1>3 DEF PlainOp, Begin, EndConstruct, EndIndex, CaseLabel
<1>5. ~Else /\ ~Semicolon /\ ~OpenSwitch
  BY <1>3 DEF Else, Semicolon, OpenSwitch
<1>6. ~EndOfText /\ ~CloseAtEnd
  BY <1>1 DEF EndOfText, CloseAtEnd
<1> QED BY <1>3, <1>4, <1>5, <1>6 DEF ParserNext

LEMMA BodiesCounted == ParserTypeOK => Len(Program) \in Nat /\ 0 \in 0 .. Len(Program)
<1> SUFFICES ASSUME ParserTypeOK PROVE Len(Program) \in Nat /\ 0 \in 0 .. Len(Program)
  OBVIOUS
<1>1. functions \in Seq(DOMAIN ops)
  BY DEF ParserTypeOK
<1>2. Len(Append(functions, 0)) = Len(functions) + 1 /\ Len(functions) \in Nat
  <2>1. functions \in Seq({0} \cup DOMAIN ops) /\ 0 \in {0} \cup DOMAIN ops
    <3>1. DOMAIN ops \subseteq {0} \cup DOMAIN ops
      OBVIOUS
    <3> QED BY <1>1, <3>1, SeqWider
  <2> QED BY <2>1, Appended
<1> QED BY <1>2 DEF Program

LEMMA FreshWalk == ASSUME ParserTypeOK', Fresh' PROVE WalkInv'
<1>1. Len(Program)' \in Nat /\ 0 \in 0 .. Len(Program)'
  <2>1. (Len(Program) \in Nat /\ 0 \in 0 .. Len(Program))'
    BY BodiesCounted, PTL
  <2> QED BY <2>1
<1>2. /\ phase' = "check" /\ calls' = <<>> /\ faulty' = FALSE /\ seen' = {}
      /\ checked' = 0 /\ out' = <<>> /\ texts' = <<>>
  BY DEF Fresh
<1>3. ~Before(0)'
  BY DEF Before
<1>4. CheckAt(calls, faulty, seen, checked)'
  BY <1>2, <1>3 DEF CheckAt
<1>5. <<>> \in Seq(Checks)
  OBVIOUS
<1>6. AtCheck'
  BY <1>2, <1>4, <1>5 DEF AtCheck
<1>7. Walked'
  BY <1>1, <1>2, <1>6 DEF Walked
<1> QED BY <1>2, <1>7 DEF WalkInv

LEMMA ParseWalk ==
    ASSUME PInv', WalkInv, ParserNext, UNCHANGED walkVars
    PROVE  WalkInv'
<1>1. ~Parsed
  BY ParsedEnds
<1>2. Fresh
  BY <1>1 DEF WalkInv
<1>3. Fresh'
  BY <1>2 DEF Fresh, walkVars
<1>4. ParserTypeOK'
  BY DEF PInv
<1> QED BY <1>3, <1>4, FreshWalk

LEMMA QuietWalk ==
    ASSUME WalkInv, UNCHANGED vars
    PROVE  WalkInv'
<1>1. UNCHANGED parserVars /\ UNCHANGED walkVars
  BY DEF vars
<1>2. /\ phase' = phase /\ calls' = calls /\ faulty' = faulty /\ seen' = seen /\ checked' = checked
      /\ out' = out /\ texts' = texts
  BY <1>1 DEF walkVars
<1>3. (Parsed' <=> Parsed) /\ Program' = Program
  BY <1>1, ParsedStays, Stays
<1>4. /\ phase \in {"check", "rejected", "emit", "done"} /\ faulty \in BOOLEAN
      /\ seen \subseteq {"goto L;", "label L;"}
      /\ ~Parsed => Fresh
      /\ Parsed => Walked
  BY DEF WalkInv
<1>5. Fresh => Fresh'
  BY <1>2 DEF Fresh
<1>6. ASSUME Walked PROVE Walked'
  <2>1. AtCheck => AtCheck'
    <3>1. ASSUME CheckAt(calls, faulty, seen, checked) PROVE CheckAt(calls, faulty, seen, checked)'
      <4>1. \A c, w, s, k : CheckAt(c, w, s, k)' <=> CheckAt(c, w, s, k)
        BY <1>1, StaysCheck
      <4> QED BY <1>2, <3>1, <4>1
    <3> QED BY <1>2, <3>1 DEF AtCheck
  <2>2. AtEmit => AtEmit'
    <3>1. ASSUME EmitAt(calls, Len(texts)) PROVE EmitAt(calls, Len(texts))'
      <4>1. \A c, k : EmitAt(c, k)' <=> EmitAt(c, k)
        BY <1>1, EmitAtStays
      <4> QED BY <1>2, <3>1, <4>1
    <3> QED BY <1>2, <1>3, <3>1 DEF AtEmit
  <2>3. AtRest => AtRest'
    BY <1>2, <1>3 DEF AtRest
  <2>4. Before(Len(Program))' <=> Before(Len(Program))
    <3>1. \A k : Before(k)' <=> Before(k)
      BY <1>1, StaysWrong
    <3> QED BY <1>3, <3>1
  <2> QED BY <1>2, <1>3, <1>6, <2>1, <2>2, <2>3, <2>4 DEF Walked
<1> QED BY <1>2, <1>3, <1>4, <1>5, <1>6 DEF WalkInv

WholeInv == PInv /\ PartsKept /\ WalkInv

LEMMA BlocksStarting == ASSUME Init PROVE WholeInv
<1>1. ParserInit /\ Fresh
  BY DEF Init, Fresh
<1>2. PInv /\ PartsKept
  BY <1>1, Starting, PartsStarting
<1>3. ~Parsed
  BY <1>1 DEF ParserInit, Parsed
<1>4. WalkInv
  BY <1>1, <1>3 DEF WalkInv, Fresh
<1> QED BY <1>2, <1>4 DEF WholeInv

LEMMA BlocksStepping == ASSUME WholeInv, [Next]_vars PROVE WholeInv'
<1>0. PInv /\ PartsKept /\ WalkInv
  BY DEF WholeInv
<1>1. CASE Parse
  <2>1. ParserNext /\ UNCHANGED walkVars
    BY <1>1 DEF Parse
  <2>2. PInv' /\ PartsKept'
    BY <1>0, <2>1, Stepping, PartsStepping
  <2>3. WalkInv'
    BY <1>0, <2>1, <2>2, ParseWalk
  <2> QED BY <2>2, <2>3 DEF WholeInv
<1>2. CASE UNCHANGED vars
  <2>1. UNCHANGED parserVars
    BY <1>2 DEF vars
  <2>2. PInv' /\ PartsKept'
    BY <1>0, <2>1, Stepping, PartsStepping
  <2> QED BY <1>0, <1>2, <2>2, QuietWalk DEF WholeInv
<1>3. CASE CheckBody \/ CheckOp \/ CheckNextList \/ CheckReturn \/ Analysed
           \/ EmitBody \/ EmitOp \/ EmitNextList \/ EmitReturn \/ Emitted
  <2>1. UNCHANGED parserVars
    BY <1>3 DEF CheckBody, CheckOp, CheckNextList, CheckReturn, Analysed,
                EmitBody, EmitOp, EmitNextList, EmitReturn, Emitted
  <2>2. PInv' /\ PartsKept'
    BY <1>0, <2>1, Stepping, PartsStepping
  <2>3. Parsed
    <3>1. Parsed \/ phase = "emit" \/ calls # <<>>
      BY <1>3 DEF CheckBody, CheckOp, CheckNextList, CheckReturn, Analysed,
                  EmitBody, EmitOp, EmitNextList, EmitReturn, Emitted, AtItem, AtEnd
    <3>2. ~Parsed => phase = "check" /\ calls = <<>>
      BY <1>0 DEF WalkInv, Fresh
    <3> QED BY <3>1, <3>2
  <2>4. Tree
    BY <1>0, <2>3 DEF Tree
  <2>5. WalkInv'
    BY <1>0, <1>3, <2>4, CheckBodyWalk, CheckOpWalk, CheckNextWalk, CheckReturnWalk, AnalysedWalk,
       EmitBodyWalk, EmitOpWalk, EmitNextWalk, EmitReturnWalk, EmittedWalk
  <2> QED BY <2>2, <2>5 DEF WholeInv
<1> QED BY <1>1, <1>2, <1>3 DEF Next

\* The parser keeps its rules while both walks run, and each walk is on a path of
\* the tree that was parsed, having visited exactly what lies in front of it.
THEOREM BlocksInvariant == Spec => []WholeInv
<1>1. Init => WholeInv
  BY BlocksStarting
<1>2. WholeInv /\ [Next]_vars => WholeInv'
  BY BlocksStepping
<1> QED BY <1>1, <1>2, PTL DEF Spec

LEMMA ChainShape ==
    ASSUME Tree, NEW b \in Range(Program), NEW S, NEW c \in Seq(S), Chain(b, c)
    PROVE  /\ \A i \in DOMAIN c :
                LET f == c[i] IN
                /\ f.at \in {0} \cup DOMAIN ops
                /\ f.part \in DOMAIN Subs(f.at) /\ f.next \in 1 .. Len(List(f)) + 1
                /\ i > 1 => f.at = List(c[i - 1])[c[i - 1].next - 1]
           /\ c # <<>> => c[1].at = b
<1>1. DOMAIN c = 1 .. Len(c)
  OBVIOUS
<1>2. ASSUME NEW i \in 1 .. Len(c)
      PROVE  LET f == c[i] IN
             /\ f.at \in {0} \cup DOMAIN ops
             /\ f.part \in DOMAIN Subs(f.at) /\ f.next \in 1 .. Len(List(f)) + 1
             /\ i > 1 => f.at = List(c[i - 1])[c[i - 1].next - 1]
  <2>1. AtWork(b, c[i]) /\ (i > 1 => c[i].at = List(c[i - 1])[c[i - 1].next - 1])
    BY DEF Chain
  <2>2. c[i].at \in Nodes
    BY <2>1, WorkFacts
  <2> QED BY <2>1, <2>2 DEF AtWork, Nodes
<1>3. c # <<>> => c[1].at = b
  BY DEF Chain
<1> QED BY <1>1, <1>2, <1>3

LEMMA TypesHold == ASSUME WholeInv PROVE TypeOK
<1>0. PInv /\ PartsKept /\ WalkInv /\ ParserTypeOK
  BY DEF WholeInv, PInv
<1>1. /\ phase \in {"check", "rejected", "emit", "done"} /\ faulty \in BOOLEAN
      /\ seen \subseteq {"goto L;", "label L;"}
      /\ ~Parsed => phase = "check" /\ calls = <<>>
  BY <1>0 DEF WalkInv, Fresh
<1>2. Len(Program) \in Nat /\ 0 \in 0 .. Len(Program)
  BY <1>0, BodiesCounted
<1>3. CASE ~Parsed
  <2>1. calls = <<>> /\ texts = <<>> /\ checked = 0
    BY <1>0, <1>3 DEF WalkInv, Fresh
  <2>2. DOMAIN calls = {} /\ Len(texts) = 0
    BY <2>1
  <2>3. checked \in 0 .. Len(Program) /\ Len(texts) <= Len(Program)
    BY <1>2, <2>1, <2>2
  <2> QED BY <1>0, <1>1, <2>1, <2>2, <2>3 DEF TypeOK
<1>4. CASE Parsed
  <2>0. Tree /\ Walked
    BY <1>0, <1>4 DEF Tree, WalkInv
  <2>1. checked \in 0 .. Len(Program)
    BY <2>0 DEF Walked
  <2>2. Len(texts) <= Len(Program)
    <3>1. texts = <<>> \/ Len(texts) \in 0 .. Len(Program)
      BY <1>1, <2>0 DEF Walked, AtCheck, AtEmit, AtRest
    <3> QED BY <1>2, <3>1
  <2>3. /\ \A i \in DOMAIN calls :
             LET f == calls[i] IN
             /\ f.at \in {0} \cup DOMAIN ops
             /\ f.part \in DOMAIN Subs(f.at) /\ f.next \in 1 .. Len(List(f)) + 1
             /\ i > 1 => f.at = List(calls[i - 1])[calls[i - 1].next - 1]
        /\ calls # <<>> => calls[1].at = Program[1 + IF phase = "check" THEN checked ELSE Len(texts)]
    <3>1. CASE calls = <<>>
      <4>1. DOMAIN calls = {}
        BY <3>1
      <4> QED BY <3>1, <4>1
    <3>2. CASE calls # <<>> /\ phase = "check"
      <4>1. /\ calls \in Seq(Checks) /\ checked < Len(Program)
            /\ Chain(Program[checked + 1], calls)
        BY <2>0, <3>2 DEF Walked, AtCheck, CheckAt
      <4>2. Program[checked + 1] \in Range(Program)
        BY <2>0, <2>1, <4>1, BodyAt
      <4>3. 1 + checked = checked + 1
        BY <2>1
      <4> QED BY <2>0, <3>2, <4>1, <4>2, <4>3, ChainShape
    <3>3. CASE calls # <<>> /\ phase # "check"
      <4>0. phase = "emit"
        BY <1>1, <2>0, <3>3 DEF Walked, AtRest
      <4>1. /\ calls \in Seq(Emits) /\ Len(texts) < Len(Program) /\ Len(texts) \in 0 .. Len(Program)
            /\ Chain(Program[Len(texts) + 1], calls)
        BY <2>0, <3>3, <4>0 DEF Walked, AtEmit, EmitAt
      <4>2. Program[Len(texts) + 1] \in Range(Program)
        BY <2>0, <4>1, BodyAt
      <4>3. 1 + Len(texts) = Len(texts) + 1
        BY <4>1
      <4> QED BY <2>0, <3>3, <4>1, <4>2, <4>3, ChainShape, SMTT(30)
    <3> QED BY <3>1, <3>2, <3>3
  <2> QED BY <1>0, <1>1, <2>1, <2>2, <2>3 DEF TypeOK
<1> QED BY <1>3, <1>4

\* The activations of both walks are nested like the operations they are at work
\* on, inside the lists these have (_check_ops, _emit_ops and what they call).
THEOREM BlocksTypeCorrect == Spec => []TypeOK
<1>1. WholeInv => TypeOK
  BY TypesHold
<1> QED BY <1>1, BlocksInvariant, PTL

\* Every text is parsed by the rules, also in the specification with both walks.
THEOREM BlocksParsed == Spec => []ParsedByRules
<1>1. Init => ParserInit
  BY DEF Init
<1>2. [Next]_vars => [ParserNext]_parserVars
  BY DEF Next, Parse, CheckBody, CheckOp, CheckNextList, CheckReturn, Analysed,
         EmitBody, EmitOp, EmitNextList, EmitReturn, Emitted, vars
<1> QED BY <1>1, <1>2, ParsesByRules, PTL DEF Spec, ParserSpec

--------------------------------------------------------------------------------
(* What the analysis finds is what the rules forbid.                         *)

LEMMA FromTwo == \A n \in Nat : n > 0 /\ n # 1 => n \in 2 .. n
OBVIOUS

\* A label starts a case group of its own.
LEMMA LabelAlone ==
    ASSUME Tree, NEW j \in DOMAIN text, NEW k \in DOMAIN text, text[j] \in Labels, j < k,
           Innermost(j).at = Innermost(k).at
    PROVE  Innermost(j).part # Innermost(k).part
<1> DEFINE n == Len(Around(j))
           m == Len(Around(k))
           p == j + 1
<1>0. ParserTypeOK
  BY Whole
<1>1. /\ j \in 1 .. Here /\ k \in 1 .. Here /\ p \in 1 .. Here /\ j \in Nat \ {0} /\ k \in Nat
      /\ j \in 1 .. Len(text) /\ text \in Seq(Tokens) /\ p <= k
  BY <1>0, Whole DEF ParserTypeOK, Here
<1>2. /\ Around(j) \in Seq(Entries) /\ Around(j) # <<>> /\ n \in Nat /\ n > 0
      /\ Innermost(j) = Around(j)[n] /\ Last(Around(j)) = Around(j)[n]
      /\ Around(j)[n].part \in Nat /\ Around(j)[n].at \in Nat
  BY <1>0, <1>1, Positions DEF Innermost
<1>3. /\ m \in Nat /\ m > 0 /\ Innermost(k) = Around(k)[m]
  BY <1>0, <1>1, Positions
<1>4. Around(k)[m].at < j
  <2>1. Innermost(j).at < j
    <3>1. CASE n = 1
      <4>1. Around(j)[1].at = 0
        BY <1>0, <1>1, Positions
      <4>2. Innermost(j).at = 0
        BY <1>2, <3>1, <4>1
      <4> QED BY <1>1, <4>2
    <3>2. CASE n # 1
      <4>1. n \in 2 .. n
        BY <1>2, <3>2, FromTwo
      <4>2. Around(j)[n].at \in 1 .. j - 1
        BY <1>0, <1>1, <4>1, Positions
      <4> QED BY <1>2, <4>2
    <3> QED BY <3>1, <3>2
  <2> QED BY <1>3, <2>1
<1>5. Around(p) = Append(Front(Around(j)), Entry(Last(Around(j)).kind, Around(j)[n].at, Around(j)[n].part + 1))
  <2>1. Around(p) = Meaning(Around(j), text[j], j)
    BY <1>1, ReadingsDef DEF Around
  <2>2. text[j] \notin Opening /\ text[j] # ";" /\ text[j] # ")" /\ text[j] # "]" /\ text[j] # "28"
    BY DEF Labels, Opening, Bodies, Values, Objects
  <2>3. \A kind : text[j] \notin Ends(kind)
    BY EndsOther
  <2> QED BY <1>2, <2>1, <2>2, <2>3, Zenon DEF Meaning
<1> DEFINE e == Entry(Last(Around(j)).kind, Around(j)[n].at, Around(j)[n].part + 1)
<1>6. e.at = Around(j)[n].at /\ e.part = Around(j)[n].part + 1 /\ e \in Entries
  <2>1. Last(Around(j)) \in Entries
    BY <1>2, Ended
  <2> QED BY <1>2, <2>1 DEF Entry, Entries
<1>7. Len(Around(p)) = n /\ Around(p)[n] = e
  BY <1>2, <1>5, <1>6, Exchanged
<1> HIDE DEF e, p
<1>8. m \in 1 .. Len(Around(k))
  <2>1. m \in Nat /\ m > 0
    BY <1>3
  <2>2. m \in 1 .. m
    BY <2>1
  <2> QED BY <2>2
<1> HIDE DEF m, n
<1>9. m \in 1 .. n /\ Around(j)[m].at = Around(k)[m].at
  <2>1. j \in 1 .. Here /\ k \in 1 .. Here /\ j <= k /\ Around(k)[m].at < j
    BY <1>1, <1>4
  <2> QED BY <1>8, <2>1, Earlier DEF n
<1>10. m = n
  <2>1. n \in 1 .. n
    BY <1>2
  <2>2. Around(j)[n].at = Around(j)[m].at
    BY <1>2, <1>3, <1>9
  <2>3. j \in 1 .. Here
    BY <1>1
  <2> QED BY <1>0, <1>9, <2>1, <2>2, <2>3, Unique DEF n
<1>11. Around(p)[m].part <= Around(k)[m].part
  <2>1. k \in 1 .. Here /\ p \in 1 .. Here /\ p <= k
    BY <1>1
  <2>2. Around(k)[m].at < p
    <3>1. Around(k)[m].at \in Nat
      BY <1>0, <1>1, <1>8, Positions
    <3> QED BY <1>1, <1>4, <3>1 DEF p
  <2> QED BY <1>8, <2>1, <2>2, Earlier
<1> QED BY <1>2, <1>3, <1>6, <1>7, <1>10, <1>11

IsSwitch(a) == Kind(a) = "switch {"
IsCase(a, k) == a \in DOMAIN ops /\ k \in DOMAIN ops[a].labels
Switched(kind) == Became(kind, "switch {")
LEMMA SwitchedKind == \A kind : Switched(kind) => kind # "sizeof a["
BY Zenon DEF Switched, Became

\* A label is one of those of the switch it is directly in.
LEMMA LabelOf ==
    ASSUME Tree, NEW j \in DOMAIN text, text[j] \in Labels,
           NEW q, q = Innermost(j).at, NEW k, k = Innermost(j).part,
           NEW n, n = Len(Around(j))
    PROVE  /\ j \in 1 .. Here /\ n \in 2 .. n /\ n \in Nat /\ n > 1
           /\ q \in DOMAIN ops /\ IsCase(q, k) /\ IsSwitch(q) /\ text[j] = ops[q].labels[k]
           /\ Innermost(j) = Around(j)[n] /\ Switched(Around(j)[n].kind)
<1> DEFINE l == ops[q].labels
<1>0. /\ ParserTypeOK
      /\ \A p \in DOMAIN ops : Labelled(p, ops[p].labels)
      /\ Labelled(0, <<>>)
  <2>1. LabelsKept /\ status # "error"
    BY Whole DEF Tree, PInv
  <2> QED BY <2>1, Whole DEF LabelsKept
<1>1. j \in 1 .. Here
  BY Whole
<1>2. n \in Nat /\ n > 0 /\ Innermost(j) = Around(j)[n]
  BY <1>0, <1>1, Positions
<1>3. n # 1
  <2>1. ASSUME n = 1 PROVE FALSE
    <3>1. q = 0
      BY <1>1, <1>2, <2>1, AroundOps
    <3>2. k \in DOMAIN <<>>
      BY <1>0, <3>1 DEF Labelled
    <3> QED BY <3>2
  <2> QED BY <2>1
<1>4. n \in 2 .. n
  BY <1>2, <1>3, FromTwo
<1>5. q \in DOMAIN ops /\ k \in DOMAIN ops[q].subs /\ Became(Around(j)[n].kind, ops[q].kind)
  BY <1>1, <1>2, <1>4, AroundOps
<1>6. k \in DOMAIN l /\ l[k] = text[j]
  BY <1>0, <1>5 DEF Labelled
<1>7. ops[q].kind = "switch {"
  <2>0. \A s : s = <<>> => DOMAIN s = {}
    OBVIOUS
  <2>1. ops[q].subs # <<>>
    BY <1>5, <2>0
  <2>2. Shaped(ops[q].kind, l, ops[q].subs)
    BY <1>0, <1>5, <2>1 DEF ParserTypeOK
  <2>3. ops[q].kind # "switch {" => l = <<>>
    BY <2>2 DEF Shaped
  <2> HIDE DEF l
  <2>4. l # <<>>
    BY <1>6, <2>0
  <2> QED BY <2>3, <2>4
<1>8. Switched(Around(j)[n].kind)
  BY <1>5, <1>7 DEF Switched
<1>9. q # 0 /\ Kind(q) = ops[q].kind
  BY <1>5, Whole DEF Kind
<1>10. IsCase(q, k) /\ text[j] = ops[q].labels[k]
  BY <1>5, <1>6 DEF IsCase
<1>11. IsSwitch(q)
  BY <1>7, <1>9 DEF IsSwitch
<1>12. n > 1
  BY <1>2, <1>3
<1> QED BY <1>1, <1>2, <1>4, <1>5, <1>8, <1>10, <1>11, <1>12

LEMMA CasesAre ==
    ASSUME Tree
    PROVE  CasesDiffer <=> \A p \in DOMAIN ops : ops[p].kind = "switch {" => IsInjective(ops[p].labels)
<1>0. /\ ParserTypeOK
      /\ \A p \in DOMAIN ops : Labelled(p, ops[p].labels)
      /\ Labelled(0, <<>>)
  <2>1. LabelsKept /\ status # "error"
    BY Whole DEF Tree, PInv
  <2> QED BY <2>1, Whole DEF LabelsKept
<1>1. ASSUME CasesDiffer, NEW p \in DOMAIN ops PROVE IsInjective(ops[p].labels)
  <2> DEFINE l == ops[p].labels
  <2>1. l \in Seq(Labels)
    BY <1>0 DEF ParserTypeOK, Ops
  <2>2. \A k \in DOMAIN l : \E j \in DOMAIN text :
         text[j] = l[k] /\ Innermost(j).at = p /\ Innermost(j).part = k
    BY <1>0 DEF Labelled
  <2> HIDE DEF l
  <2>3. ASSUME NEW a \in DOMAIN l, NEW b \in DOMAIN l, l[a] = l[b] PROVE a = b
    <3>1. PICK j \in DOMAIN text : text[j] = l[a] /\ Innermost(j).at = p /\ Innermost(j).part = a
      BY <2>2
    <3>2. PICK k \in DOMAIN text : text[k] = l[b] /\ Innermost(k).at = p /\ Innermost(k).part = b
      BY <2>2
    <3>3. text[j] \in Labels
      BY <2>1, <3>1
    <3>4. k = j
      BY <1>1, <2>3, <3>1, <3>2, <3>3 DEF CasesDiffer
    <3> QED BY <3>1, <3>2, <3>4
  <2> QED BY <2>3 DEF IsInjective, l
<1>2. ASSUME \A p \in DOMAIN ops : ops[p].kind = "switch {" => IsInjective(ops[p].labels),
             NEW j \in DOMAIN text, NEW k \in DOMAIN text,
             text[j] \in Labels, text[k] = text[j], Innermost(k).at = Innermost(j).at
      PROVE  k = j
  <2> DEFINE q == Innermost(j).at
             l == ops[q].labels
  <2>1. j \in 1 .. Here /\ k \in 1 .. Here /\ j \in Nat /\ k \in Nat
    BY Whole
  <2>2. /\ q \in DOMAIN ops /\ IsSwitch(q)
        /\ Innermost(j).part \in DOMAIN l /\ l[Innermost(j).part] = text[j]
    <3> DEFINE n == Len(Around(j))
               part == Innermost(j).part
    <3>1. text[j] \in Labels
      BY <1>2
    <3>2. q = Innermost(j).at /\ part = Innermost(j).part /\ n = Len(Around(j))
      OBVIOUS
    <3> HIDE DEF q, l, n, part
    <3>3. q \in DOMAIN ops /\ IsCase(q, part) /\ IsSwitch(q)
      BY <3>1, <3>2, LabelOf, SMTT(30)
    <3>4. text[j] = ops[q].labels[part]
      BY <3>1, <3>2, LabelOf, SMTT(30)
    <3> QED BY <3>2, <3>3, <3>4 DEF IsCase, l
  <2>3. Innermost(k).part \in DOMAIN l /\ l[Innermost(k).part] = text[k]
    <3>1. text[k] \in Labels /\ Innermost(k).at = q
      BY <1>2
    <3>2. q \in DOMAIN ops
      BY <2>2
    <3> QED BY <1>0, <3>1, <3>2 DEF Labelled
  <2>4. ops[q].kind = "switch {"
    BY <2>2, Whole DEF IsSwitch, Kind
  <2>5. Innermost(j).part = Innermost(k).part
    BY <1>2, <2>2, <2>3, <2>4 DEF IsInjective
  <2>6. ~(j < k) /\ ~(k < j)
    BY <1>2, <2>5, LabelAlone
  <2> QED BY <2>1, <2>6
<1> QED BY <1>1, <1>2 DEF CasesDiffer

Mixed(p) == ops[p].kind = "switch {" /\ ~IsInjective(ops[p].labels)

LEMMA WrongedIs ==
    ASSUME NEW b
    PROVE  Wronged(b) <=> ~Allowed(b) \/ \E p \in OpsOf(b) : Mixed(p)
<1> DEFINE V == OpsOf(b)
           Fine(p) == /\ text[p] = "<" => Enclosed(p, Loops \cup {"switch {"})
                      /\ text[p] = ">" => Enclosed(p, Loops)
                      /\ text[p] = ".1" => Definitions # {}
                      /\ text[p] \in Loops => Under(p, 1) # {}
           Reaches(p) == text[p] = "goto L;" => \E k \in V : text[k] = "label L;"
           Sole(p) == text[p] = "label L;" => \A k \in V : text[k] = text[p] => k = p
<1>1. Allowed(b) <=> \A p \in V : Fine(p) /\ Reaches(p) /\ Sole(p)
  BY DEF Allowed
<1>2. \A p : Bad(p) <=> ~Fine(p) \/ Mixed(p)
  BY DEF Bad, Mixed
<1>3. Dangling(V) <=> ~\A p \in V : Reaches(p)
  BY DEF Dangling, Has
<1>4. Twice(V) <=> ~\A p \in V : Sole(p)
  BY DEF Twice
<1>5. Wronged(b) <=> (\E p \in V : Bad(p)) \/ Twice(V) \/ Dangling(V)
  BY Zenon DEF Wronged, Errors
<1> HIDE DEF V, Fine, Reaches, Sole
<1>6. Wronged(b) <=> ~Allowed(b) \/ \E p \in V : Mixed(p)
  BY <1>1, <1>2, <1>3, <1>4, <1>5, Zenon
<1> QED BY <1>6 DEF V

LEMMA RulesAre ==
    ASSUME Tree
    PROVE  Before(Len(Program)) <=> ~(CasesDiffer /\ \A b \in DOMAIN Program : Allowed(Program[b]))
<1>1. DOMAIN Program = 1 .. Len(Program)
  BY Programs
<1>2. Before(Len(Program)) <=> \E b \in DOMAIN Program : Wronged(Program[b])
  BY <1>1 DEF Before
<1>3. Before(Len(Program)) <=>
        \/ \E b \in DOMAIN Program : ~Allowed(Program[b])
        \/ \E b \in DOMAIN Program : \E p \in OpsOf(Program[b]) : Mixed(p)
  BY <1>2, WrongedIs, Zenon
<1>4. CasesDiffer <=> \A p \in DOMAIN ops : ~Mixed(p)
  BY CasesAre DEF Mixed
<1>5. ASSUME NEW b \in DOMAIN Program, NEW p \in OpsOf(Program[b]) PROVE p \in DOMAIN ops
  BY InBody
<1>6. ASSUME NEW p \in DOMAIN ops, Mixed(p)
      PROVE  \E b \in DOMAIN Program : p \in OpsOf(Program[b])
  <2>1. p \notin Definitions
    <3>1. ASSUME p \in Definitions PROVE FALSE
      <4>1. ops[p].kind = "/1"
        BY <3>1, Programs
      <4> QED BY <1>6, <4>1 DEF Mixed
    <3> QED BY <3>1
  <2>2. p \in Starts \ Definitions
    BY <2>1, Whole
  <2>3. PICK b \in Range(Program) : p \in OpsOf(b)
    BY <2>2, Covered
  <2>4. PICK i \in DOMAIN Program : b = Program[i]
    BY DEF Range
  <2> QED BY <2>3, <2>4
<1>7. (\E b \in DOMAIN Program : \E p \in OpsOf(Program[b]) : Mixed(p)) <=> ~CasesDiffer
  BY <1>4, <1>5, <1>6, Zenon
<1> QED BY <1>3, <1>7, Zenon

\* The analysis rejects a program exactly if one of its functions breaks a rule.
THEOREM BlocksSemaExact == Spec => []SemaExact
<1>1. WholeInv => SemaExact
  <2> SUFFICES ASSUME WholeInv, phase # "check"
               PROVE  phase # "rejected" <=> CasesDiffer /\ \A b \in DOMAIN Program : Allowed(Program[b])
    BY DEF SemaExact
  <2>1. Parsed
    BY DEF WholeInv, WalkInv, Fresh
  <2>2. Tree
    BY <2>1 DEF WholeInv, Tree
  <2>3. phase = "rejected" <=> Before(Len(Program))
    BY <2>1 DEF WholeInv, WalkInv, Walked
  <2> QED BY <2>2, <2>3, RulesAre
<1> QED BY <1>1, BlocksInvariant, PTL

--------------------------------------------------------------------------------
(* What a C text means: the braces in front of each piece.                    *)

LEMMA EnclosingExist ==
    ASSUME NEW c, NEW n \in Nat
    PROVE  \E a : a = [j \in 1 .. n + 1 |->
               IF j = 1 THEN <<>> ELSE Reading(a[j - 1], c[j - 1])]
<1> DEFINE Good(k) ==
             \E a : a = [j \in 1 .. k + 1 |->
               IF j = 1 THEN <<>> ELSE Reading(a[j - 1], c[j - 1])]
           Ungood == {k \in Nat : ~Good(k)}
<1>1. Good(0)
  <2> DEFINE a == [j \in 1 .. 0 + 1 |-> <<>>]
  <2>1. a = [j \in 1 .. 0 + 1 |-> IF j = 1 THEN <<>> ELSE Reading(a[j - 1], c[j - 1])]
    OBVIOUS
  <2> QED BY <2>1
<1>2. ASSUME NEW k \in Nat, Good(k) PROVE Good(k + 1)
  <2>1. PICK a : a = [j \in 1 .. k + 1 |-> IF j = 1 THEN <<>> ELSE Reading(a[j - 1], c[j - 1])]
    BY <1>2
  <2> DEFINE last == Reading(a[k + 1], c[k + 1])
             f == [j \in 1 .. (k + 1) + 1 |-> IF j <= k + 1 THEN a[j] ELSE last]
  <2> HIDE DEF last
  <2>2. \A j \in 1 .. k + 1 : f[j] = a[j]
    OBVIOUS
  <2>3. ASSUME NEW j \in 1 .. (k + 1) + 1
        PROVE  f[j] = IF j = 1 THEN <<>> ELSE Reading(f[j - 1], c[j - 1])
    <3>1. CASE j = 1
      BY <2>1, <2>2, <3>1
    <3>2. CASE j # 1 /\ j <= k + 1
      <4>1. j - 1 \in 1 .. k + 1 /\ j \in 1 .. k + 1
        BY <3>2
      <4>2. a[j] = Reading(a[j - 1], c[j - 1])
        BY <2>1, <3>2, <4>1
      <4> HIDE DEF f
      <4> QED BY <2>2, <3>2, <4>1, <4>2
    <3>3. CASE j = k + 2
      <4>1. f[j] = last /\ j - 1 = k + 1 /\ j # 1
        BY <3>3
      <4> HIDE DEF f
      <4> QED BY <2>2, <3>3, <4>1 DEF last
    <3> QED BY <3>1, <3>2, <3>3
  <2>4. f = [j \in 1 .. (k + 1) + 1 |-> IF j = 1 THEN <<>> ELSE Reading(f[j - 1], c[j - 1])]
    <3>1. f = [j \in 1 .. (k + 1) + 1 |-> f[j]]
      OBVIOUS
    <3> HIDE DEF f
    <3> QED BY <2>3, <3>1
  <2> QED BY <2>4
<1> HIDE DEF Good
<1>3. ASSUME Ungood # {} PROVE FALSE
  <2>1. PICK k \in Ungood : \A y \in Ungood : k <= y
    BY <1>3, Least
  <2>2. k # 0
    BY <1>1
  <2>3. k - 1 \in Nat /\ k - 1 \notin Ungood
    BY <2>1, <2>2
  <2>4. Good((k - 1) + 1)
    BY <1>2, <2>3
  <2>5. (k - 1) + 1 = k
    BY <2>1
  <2>6. Good(k)
    BY <2>4, <2>5
  <2> QED BY <2>1, <2>6
<1> QED BY <1>3 DEF Good

\* Enclosing is what its recursion says.
LEMMA EnclosingDef ==
    ASSUME NEW c \in Seq(Pieces)
    PROVE  /\ Enclosing(c)[1] = <<>>
           /\ \A j \in 1 .. Len(c) : Enclosing(c)[j + 1] = Reading(Enclosing(c)[j], c[j])
<1>1. Len(c) \in Nat
  OBVIOUS
<1> DEFINE Is(a) == a = [j \in 1 .. Len(c) + 1 |->
               IF j = 1 THEN <<>> ELSE Reading(a[j - 1], c[j - 1])]
<1>2. \E a : Is(a)
  BY <1>1, EnclosingExist
<1>3. Is(Enclosing(c))
  BY <1>2, Zenon DEF Enclosing
<1> DEFINE r == Enclosing(c)
<1> HIDE DEF r
<1>4. r[1] = <<>>
  BY <1>1, <1>3 DEF r
<1>5. ASSUME NEW j \in 1 .. Len(c) PROVE r[j + 1] = Reading(r[j], c[j])
  <2>1. j + 1 \in 1 .. Len(c) + 1 /\ j + 1 # 1 /\ (j + 1) - 1 = j
    BY <1>1
  <2> QED BY <1>3, <2>1 DEF r
<1> QED BY <1>4, <1>5 DEF r

LEMMA EnclosingAppend ==
    ASSUME NEW c \in Seq(Pieces), NEW p \in Pieces
    PROVE  /\ \A j \in 1 .. Len(c) + 1 : Enclosing(Append(c, p))[j] = Enclosing(c)[j]
           /\ Enclosing(Append(c, p))[Len(c) + 2] = Reading(Enclosing(c)[Len(c) + 1], p)
<1> DEFINE new == Append(c, p)
           n == Len(c)
           r == Enclosing(c)
           q == Enclosing(new)
           Unlike == {k \in Nat : k \in 1 .. n + 1 /\ q[k] # r[k]}
<1>1. /\ new \in Seq(Pieces) /\ n \in Nat /\ Len(new) = n + 1
      /\ (\A j \in 1 .. n : new[j] = c[j]) /\ new[n + 1] = p
  BY Appended
<1>2. r[1] = <<>> /\ \A j \in 1 .. n : r[j + 1] = Reading(r[j], c[j])
  BY EnclosingDef
<1>3. q[1] = <<>> /\ \A j \in 1 .. Len(new) : q[j + 1] = Reading(q[j], new[j])
  <2> HIDE DEF new
  <2> QED BY <1>1, EnclosingDef
<1> HIDE DEF new, n, r, q
<1>4. ASSUME Unlike # {} PROVE FALSE
  <2>1. PICK k \in Unlike : \A y \in Unlike : k <= y
    BY <1>4, Least
  <2>2. k # 1 /\ k \in 1 .. n + 1 /\ k \in Nat
    BY <1>2, <1>3, <2>1
  <2>3. k - 1 \in 1 .. n /\ k - 1 \in 1 .. Len(new) /\ (k - 1) + 1 = k
    BY <1>1, <2>2
  <2>4. q[k - 1] = r[k - 1]
    <3>1. k - 1 \in Nat /\ k - 1 \in 1 .. n + 1 /\ ~(k <= k - 1)
      BY <1>1, <2>2, <2>3
    <3> QED BY <2>1, <3>1
  <2>5. r[(k - 1) + 1] = Reading(r[k - 1], c[k - 1])
    BY <1>2, <2>3
  <2>6. q[(k - 1) + 1] = Reading(q[k - 1], new[k - 1])
    BY <1>3, <2>3
  <2>7. new[k - 1] = c[k - 1]
    BY <1>1, <2>3
  <2>8. q[k] = r[k]
    BY <2>3, <2>4, <2>5, <2>6, <2>7
  <2> QED BY <2>1, <2>8
<1>5. \A j \in 1 .. n + 1 : q[j] = r[j]
  BY <1>1, <1>4
<1>6. n + 1 \in 1 .. Len(new) /\ n + 1 \in 1 .. n + 1 /\ (n + 1) + 1 = n + 2
  BY <1>1
<1>7. q[n + 2] = Reading(r[n + 1], p)
  BY <1>1, <1>3, <1>5, <1>6
<1> QED BY <1>5, <1>7 DEF new, n, q, r

\* The braces behind a text.
Depth(c) == Enclosing(c)[Len(c) + 1]

LEMMA DepthFacts ==
    /\ Depth(<<>>) = <<>>
    /\ \A c \in Seq(Pieces), p \in Pieces : Depth(Append(c, p)) = Reading(Depth(c), p)
<1>1. Depth(<<>>) = <<>>
  <2>1. <<>> \in Seq(Pieces) /\ Len(<<>>) + 1 = 1
    OBVIOUS
  <2>2. Enclosing(<<>>)[1] = <<>>
    BY <2>1, EnclosingDef
  <2> QED BY <2>1, <2>2 DEF Depth
<1>2. ASSUME NEW c \in Seq(Pieces), NEW p \in Pieces
      PROVE  Depth(Append(c, p)) = Reading(Depth(c), p)
  <2>1. Len(Append(c, p)) + 1 = Len(c) + 2
    OBVIOUS
  <2>2. Enclosing(Append(c, p))[Len(c) + 2] = Reading(Enclosing(c)[Len(c) + 1], p)
    BY EnclosingAppend
  <2> QED BY <2>1, <2>2 DEF Depth
<1> QED BY <1>1, <1>2

LEMMA ReadingIs ==
    /\ \A m, p : p.c = "{" => Reading(m, p) = Append(m, p)
    /\ \A m : Reading(m, End) = Front(m)
    /\ \A m, p : p.c = "case" =>
         Reading(m, p) = Append(Front(m), [Last(m) EXCEPT !.part = p.part])
    /\ \A m, p : p.c = "stmt" => Reading(m, p) = m
<1>1. \A m, p : p.c = "{" => Reading(m, p) = Append(m, p)
  BY Zenon DEF Reading
<1>2. \A m : Reading(m, End) = Front(m)
  <2>1. End.c = "}" /\ "}" # "{"
    BY Zenon DEF End, Piece
  <2> QED BY <2>1, Zenon DEF Reading
<1>3. \A m, p : p.c = "case" =>
         Reading(m, p) = Append(Front(m), [Last(m) EXCEPT !.part = p.part])
  <2>1. "case" # "{" /\ "case" # "}"
    BY Zenon
  <2> QED BY <2>1, Zenon DEF Reading
<1>4. \A m, p : p.c = "stmt" => Reading(m, p) = m
  <2>1. "stmt" # "{" /\ "stmt" # "}" /\ "stmt" # "case"
    BY Zenon
  <2> QED BY <2>1, Zenon DEF Reading
<1> QED BY <1>1, <1>2, <1>3, <1>4

\* The situation and the target with one more brace or construct.
LEMMA SituationIs ==
    ASSUME NEW S, NEW m \in Seq(S), NEW s
    PROVE  s \in Situation(m) <=>
             \E i \in 1 .. Len(m) : /\ s = <<m[i].at, m[i].part>>
                                    /\ \A k \in 1 .. Len(m) : m[k].at = m[i].at => k <= i
<1>1. DOMAIN m = 1 .. Len(m)
  OBVIOUS
<1> QED BY <1>1 DEF Situation

LEMMA SituationAppend ==
    ASSUME NEW S, NEW m \in Seq(S), NEW p \in S, NEW s
    PROVE  s \in Situation(Append(m, p)) <=>
             \/ s = <<p.at, p.part>>
             \/ s \in Situation(m) /\ s[1] # p.at
<1> DEFINE r == Append(m, p)
           n == Len(m)
<1>1. /\ r \in Seq(S) /\ n \in Nat /\ Len(r) = n + 1
      /\ (\A i \in 1 .. n : r[i] = m[i]) /\ r[n + 1] = p
  BY Appended
<1> HIDE DEF r
<1>2. ASSUME s \in Situation(r)
      PROVE  s = <<p.at, p.part>> \/ (s \in Situation(m) /\ s[1] # p.at)
  <2>1. PICK i \in 1 .. n + 1 : /\ s = <<r[i].at, r[i].part>>
                                /\ \A k \in 1 .. n + 1 : r[k].at = r[i].at => k <= i
    BY <1>1, <1>2, SituationIs
  <2>2. CASE i = n + 1
    BY <1>1, <2>1, <2>2
  <2>3. CASE i # n + 1
    <3>1. i \in 1 .. n /\ n + 1 \in 1 .. n + 1 /\ ~(n + 1 <= i)
      BY <1>1, <2>3
    <3>2. s = <<m[i].at, m[i].part>> /\ p.at # m[i].at
      BY <1>1, <2>1, <3>1
    <3>3. \A k \in 1 .. n : m[k].at = m[i].at => k <= i
      BY <1>1, <2>1, <3>1
    <3>4. s \in Situation(m)
      BY <3>1, <3>2, <3>3, SituationIs
    <3> QED BY <3>2, <3>4
  <2> QED BY <2>2, <2>3
<1>3. ASSUME s = <<p.at, p.part>> PROVE s \in Situation(r)
  <2>1. n + 1 \in 1 .. n + 1 /\ \A k \in 1 .. n + 1 : k <= n + 1
    BY <1>1
  <2>2. s = <<r[n + 1].at, r[n + 1].part>>
    BY <1>1, <1>3
  <2> QED BY <1>1, <2>1, <2>2, SituationIs
<1>4. ASSUME s \in Situation(m), s[1] # p.at PROVE s \in Situation(r)
  <2>1. PICK i \in 1 .. n : /\ s = <<m[i].at, m[i].part>>
                            /\ \A k \in 1 .. n : m[k].at = m[i].at => k <= i
    BY <1>4, SituationIs
  <2>2. s = <<r[i].at, r[i].part>> /\ i \in 1 .. n + 1 /\ r[i] = m[i] /\ m[i].at # p.at
    BY <1>1, <1>4, <2>1
  <2>3. ASSUME NEW k \in 1 .. n + 1, r[k].at = r[i].at PROVE k <= i
    <3>1. k # n + 1
      BY <1>1, <2>2, <2>3
    <3>2. k \in 1 .. n /\ r[k] = m[k]
      BY <1>1, <3>1
    <3> QED BY <2>1, <2>2, <2>3, <3>2
  <2> QED BY <1>1, <2>2, <2>3, SituationIs
<1> QED BY <1>2, <1>3, <1>4 DEF r

LEMMA TargetAppend ==
    ASSUME NEW S, NEW m \in Seq(S), NEW p \in S, NEW kinds
    PROVE  /\ p.kind \in kinds => Target(Append(m, p), kinds) = {p.at}
           /\ p.kind \notin kinds => Target(Append(m, p), kinds) = Target(m, kinds)
<1> DEFINE r == Append(m, p)
           n == Len(m)
<1>1. /\ r \in Seq(S) /\ n \in Nat /\ Len(r) = n + 1
      /\ (\A i \in 1 .. n : r[i] = m[i]) /\ r[n + 1] = p
  BY Appended
<1>2. DOMAIN r = 1 .. n + 1 /\ DOMAIN m = 1 .. n
  BY <1>1
<1> HIDE DEF r
<1>3. \A x : x \in Target(r, kinds) <=>
        \E i \in 1 .. n + 1 : /\ x = r[i].at /\ r[i].kind \in kinds
                              /\ \A k \in 1 .. n + 1 : k > i => r[k].kind \notin kinds
  BY <1>2 DEF Target
<1>4. \A x : x \in Target(m, kinds) <=>
        \E i \in 1 .. n : /\ x = m[i].at /\ m[i].kind \in kinds
                          /\ \A k \in 1 .. n : k > i => m[k].kind \notin kinds
  BY <1>2 DEF Target
<1>5. CASE p.kind \in kinds
  <2>1. ASSUME NEW x \in Target(r, kinds) PROVE x = p.at
    <3>1. PICK i \in 1 .. n + 1 : /\ x = r[i].at
                                  /\ \A k \in 1 .. n + 1 : k > i => r[k].kind \notin kinds
      BY <1>3, <2>1
    <3>2. ~(n + 1 > i)
      BY <1>1, <1>5, <3>1
    <3>3. i = n + 1
      BY <1>1, <3>2
    <3> QED BY <1>1, <3>1, <3>3
  <2>2. p.at \in Target(r, kinds)
    <3>1. n + 1 \in 1 .. n + 1 /\ \A k \in 1 .. n + 1 : ~(k > n + 1)
      BY <1>1
    <3> QED BY <1>1, <1>3, <1>5, <3>1
  <2> QED BY <1>5, <2>1, <2>2 DEF r
<1>6. CASE p.kind \notin kinds
  <2>1. ASSUME NEW x \in Target(r, kinds) PROVE x \in Target(m, kinds)
    <3>1. PICK i \in 1 .. n + 1 : /\ x = r[i].at /\ r[i].kind \in kinds
                                  /\ \A k \in 1 .. n + 1 : k > i => r[k].kind \notin kinds
      BY <1>3, <2>1
    <3>2. i # n + 1
      BY <1>1, <1>6, <3>1
    <3>3. i \in 1 .. n /\ r[i] = m[i] /\ \A k \in 1 .. n : k \in 1 .. n + 1 /\ r[k] = m[k]
      BY <1>1, <3>2
    <3> QED BY <1>4, <3>1, <3>3
  <2>2. ASSUME NEW x \in Target(m, kinds) PROVE x \in Target(r, kinds)
    <3>1. PICK i \in 1 .. n : /\ x = m[i].at /\ m[i].kind \in kinds
                              /\ \A k \in 1 .. n : k > i => m[k].kind \notin kinds
      BY <1>4, <2>2
    <3>2. i \in 1 .. n + 1 /\ r[i] = m[i]
      BY <1>1
    <3>3. ASSUME NEW k \in 1 .. n + 1, k > i PROVE r[k].kind \notin kinds
      <4>1. CASE k = n + 1
        BY <1>1, <1>6, <4>1
      <4>2. CASE k # n + 1
        <5>1. k \in 1 .. n /\ r[k] = m[k]
          BY <1>1, <4>2
        <5> QED BY <3>1, <3>3, <5>1
      <4> QED BY <4>1, <4>2
    <3> QED BY <1>3, <3>1, <3>2, <3>3
  <2> QED BY <1>6, <2>1, <2>2 DEF r
<1> QED BY <1>5, <1>6

LEMMA TargetSome ==
    ASSUME NEW S, NEW m \in Seq(S), NEW kinds, NEW i \in 1 .. Len(m), m[i].kind \in kinds
    PROVE  Target(m, kinds) # {}
<1> DEFINE n == Len(m)
           B == {d \in Nat : d < n /\ m[n - d].kind \in kinds}
<1>1. n \in Nat /\ DOMAIN m = 1 .. n /\ i \in 1 .. n
  OBVIOUS
<1> HIDE DEF n
<1>2. n - i \in B
  <2>1. n - i \in Nat /\ n - i < n /\ n - (n - i) = i
    BY <1>1
  <2> QED BY <2>1
<1>3. PICK d \in B : \A e \in B : d <= e
  BY <1>2, Least
<1>4. n - d \in 1 .. n /\ m[n - d].kind \in kinds
  BY <1>1, <1>3
<1>5. ASSUME NEW k \in 1 .. n, k > n - d PROVE m[k].kind \notin kinds
  <2>1. n - k \in Nat /\ n - k < n /\ n - (n - k) = k /\ ~(d <= n - k)
    BY <1>1, <1>3, <1>5
  <2>2. n - k \notin B
    BY <1>3, <2>1
  <2> QED BY <2>1, <2>2
<1>6. m[n - d].at \in Target(m, kinds)
  BY <1>1, <1>4, <1>5 DEF Target
<1> QED BY <1>6

LEMMA TargetNone ==
    ASSUME NEW S, NEW m \in Seq(S), NEW kinds, \A i \in 1 .. Len(m) : m[i].kind \notin kinds
    PROVE  Target(m, kinds) = {}
<1>1. DOMAIN m = 1 .. Len(m)
  OBVIOUS
<1> QED BY <1>1 DEF Target

--------------------------------------------------------------------------------
(* Where an op is, by where the construct around it is.                       *)

\* The construct an op is directly in, as the text has it there.
LEMMA InnerAround ==
    ASSUME Tree, NEW a, a # 0, NEW k, NEW x \in Under(a, k)
    PROVE  /\ Around(a) \in Seq(Entries) /\ Innermost(x) \in Entries
           /\ Innermost(x).at = a /\ Innermost(x).part = k
           /\ Around(x) = Append(Around(a), Innermost(x))
<1> DEFINE n == Len(Around(x))
           e == Innermost(x)
<1>1. /\ x \in 1 .. Here /\ x \in Starts /\ n \in Nat /\ n > 1
      /\ Around(x)[n].at = a /\ Around(x)[n].part = k
      /\ a \in DOMAIN ops /\ a \in 1 .. Here /\ Len(Around(a)) = n - 1
      /\ \A m \in 1 .. n - 1 : Around(a)[m] = Around(x)[m]
  BY Child
<1>2. e = Around(x)[n] /\ Around(x) \in Seq(Entries)
  BY <1>1, Whole, Positions
<1>3. Around(a) \in Seq(Entries)
  BY <1>1, Whole, Positions
<1>4. n \in 2 .. n /\ e \in Entries
  BY <1>1, <1>2
<1>5. Around(x) = Append(Around(a), e)
  <2> DEFINE s == Around(x)
             r == Append(Around(a), e)
  <2>1. /\ r \in Seq(Entries) /\ Len(r) = n /\ r[n] = e
        /\ \A m \in 1 .. n - 1 : r[m] = Around(a)[m]
    <3>1. (n - 1) + 1 = n
      BY <1>1
    <3> QED BY <1>1, <1>3, <1>4, <3>1, Appended
  <2>2. s \in Seq(Entries) /\ Len(s) = n /\ s[n] = e
    BY <1>2
  <2>3. \A m \in 1 .. n : r[m] = s[m]
    BY <1>1, <2>1, <2>2
  <2> HIDE DEF r, s
  <2>4. r = s
    BY <2>1, <2>2, <2>3, SeqEqual
  <2> QED BY <2>4 DEF r, s
<1>6. e.at = a /\ e.part = k
  BY <1>1, <1>2
<1> QED BY <1>3, <1>4, <1>5, <1>6 DEF e

LEMMA InnerKind ==
    ASSUME Tree, NEW a, a # 0, NEW k, NEW x \in Under(a, k)
    PROVE  LET l == Innermost(x).kind IN
           /\ l # "loop"
           /\ l \in Loops <=> Kind(a) \in Loops
           /\ l = "switch {" <=> Kind(a) = "switch {" /\ k > 1
           /\ l = "sizeof a[" <=> Kind(a) = "sizeof a["
<1> DEFINE n == Len(Around(x))
           e == Innermost(x)
<1>1. /\ x \in 1 .. Here /\ x \in Starts /\ n \in Nat /\ n > 1
      /\ Around(x)[n].at = a /\ Around(x)[n].part = k
  BY Child
<1>2. e = Around(x)[n]
  BY <1>1, Whole, Positions
<1>3. e \in Entries
  BY InnerAround
<1>4. n \in 2 .. n
  BY <1>1
<1>6. Became(e.kind, ops[a].kind)
  BY <1>1, <1>2, <1>4, AroundOps
<1>7. /\ e.kind = "switch {" => e.part > 1
      /\ e.kind = "switch" => e.part = 1
  BY <1>1, <1>2, <1>4, Whole DEF Tree, PInv, KindsKept
<1>8. e.part = k /\ Kind(a) = ops[a].kind
  BY <1>1, <1>2 DEF Kind
<1> DEFINE l == e.kind
           h == Kind(a)
<1>9. /\ l = h \/ (l = "a[" /\ h = "a=") \/ (l = "switch" /\ h = "switch {")
      /\ l = "switch {" => k > 1
      /\ l = "switch" => k = 1
  BY <1>6, <1>7, <1>8 DEF Became
<1>10. l # "loop"
  BY <1>3 DEF Entries, Kinds, Opening, Bodies, Values, Objects
<1> HIDE DEF l, h
<1>11. l \in Loops <=> h \in Loops
  BY <1>9 DEF Loops
<1>12. l = "switch {" => h = "switch {" /\ k > 1
  BY <1>9
<1>13. h = "switch {" => l \in {"switch {", "switch"}
  BY <1>9
<1>14. ~(k = 1 /\ k > 1)
  OBVIOUS
<1>15. l = "switch {" <=> h = "switch {" /\ k > 1
  BY <1>9, <1>12, <1>13, <1>14
<1>16. l = "sizeof a[" <=> h = "sizeof a["
  BY <1>9
<1> QED BY <1>10, <1>11, <1>15, <1>16 DEF l, h

Trail(x) == {<<e.at, e.part>> : e \in Range(Within(x))}

LEMMA TrailIs ==
    ASSUME Tree, NEW x \in 1 .. Here, NEW s
    PROVE  s \in Trail(x) <=>
             \E i \in Root(x) .. Len(Around(x)) : s = <<Around(x)[i].at, Around(x)[i].part>>
<1> DEFINE w == Within(x)
           n == Len(Around(x))
<1>1. /\ Root(x) \in 1 .. n /\ n \in Nat
      /\ w \in Seq(Entries) /\ Len(w) = n - Root(x) + 1
      /\ \A m \in 1 .. Len(w) : w[m] = Around(x)[m + Root(x) - 1]
  BY WithinFacts
<1>2. Range(w) = {w[m] : m \in 1 .. Len(w)}
  <2> HIDE DEF w
  <2>1. DOMAIN w = 1 .. Len(w)
    BY <1>1
  <2> QED BY <2>1 DEF Range
<1>3. s \in Trail(x) <=> \E m \in 1 .. Len(w) : s = <<w[m].at, w[m].part>>
  BY <1>2 DEF Trail
<1> HIDE DEF w, n
<1>4. ASSUME NEW m \in 1 .. Len(w), s = <<w[m].at, w[m].part>>
      PROVE  \E i \in Root(x) .. n : s = <<Around(x)[i].at, Around(x)[i].part>>
  <2>1. m + Root(x) - 1 \in Root(x) .. n
    BY <1>1
  <2> QED BY <1>1, <1>4, <2>1
<1>5. ASSUME NEW i \in Root(x) .. n, s = <<Around(x)[i].at, Around(x)[i].part>>
      PROVE  \E m \in 1 .. Len(w) : s = <<w[m].at, w[m].part>>
  <2>1. i - Root(x) + 1 \in 1 .. Len(w) /\ (i - Root(x) + 1) + Root(x) - 1 = i
    BY <1>1
  <2>2. w[i - Root(x) + 1] = Around(x)[i]
    BY <1>1, <2>1
  <2> QED BY <1>5, <2>1, <2>2
<1> QED BY <1>3, <1>4, <1>5 DEF n

\* Where an op is, is where the construct is that it is in, and there.
LEMMA TrailDown ==
    ASSUME Tree, NEW b \in Range(Program), NEW a \in Home(b), NEW k, NEW x \in Under(a, k), NEW s
    PROVE  s \in Trail(x) <=> s = <<a, k>> \/ (a # b /\ s \in Trail(a))
<1> DEFINE n == Len(Around(x))
<1>1. /\ x \in 1 .. Here /\ n \in Nat /\ n > 0 /\ Around(x)[n].at = a /\ Around(x)[n].part = k
      /\ a # 0 => /\ n > 1 /\ a \in 1 .. Here /\ Len(Around(a)) = n - 1
                  /\ \A m \in 1 .. n - 1 : Around(a)[m] = Around(x)[m]
  BY Child
<1>2. x \in OpsOf(b)
  BY ChildBody
<1>3. Root(x) \in 1 .. n /\ Around(x)[Root(x)].at = b
  BY <1>2, InBody
<1>4. n \in 1 .. n /\ Root(x) \in Nat
  BY <1>1, <1>3
<1>5. s \in Trail(x) <=> \E i \in Root(x) .. n : s = <<Around(x)[i].at, Around(x)[i].part>>
  BY <1>1, TrailIs
<1>6. CASE a = b
  <2>1. n = Root(x)
    BY <1>1, <1>3, <1>4, <1>6, Unique, Whole
  <2>2. \A i : i \in Root(x) .. n <=> i = n
    BY <1>4, <2>1
  <2> QED BY <1>1, <1>5, <1>6, <2>2
<1>7. CASE a # b
  <2>1. a \in OpsOf(b)
    BY <1>7 DEF Home
  <2>2. /\ a # 0 /\ a \in 1 .. Here
        /\ Root(a) \in 1 .. Len(Around(a)) /\ Around(a)[Root(a)].at = b
    BY <2>1, InBody
  <2>3. Root(a) \in 1 .. n - 1 /\ Root(a) \in 1 .. n /\ Around(x)[Root(a)].at = b
    BY <1>1, <2>2
  <2>4. Root(a) = Root(x)
    <3>1. Around(x)[Root(a)].at = Around(x)[Root(x)].at /\ ParserTypeOK
      BY <1>3, <2>3, Whole
    <3>2. x \in 1 .. Here /\ Root(a) \in 1 .. Len(Around(x)) /\ Root(x) \in 1 .. Len(Around(x))
      BY <1>1, <1>3, <2>3
    <3> QED BY <3>1, <3>2, Unique
  <2>5. s \in Trail(a) <=> \E i \in Root(x) .. n - 1 : s = <<Around(a)[i].at, Around(a)[i].part>>
    BY <1>1, <2>2, <2>4, TrailIs
  <2>6. \A i : i \in Root(x) .. n <=> i = n \/ i \in Root(x) .. n - 1
    BY <1>1, <1>3, <1>4
  <2>7. \A i \in Root(x) .. n - 1 : Around(a)[i] = Around(x)[i]
    BY <1>1, <1>3, <2>2
  <2> QED BY <1>1, <1>5, <1>7, <2>5, <2>6, <2>7
<1> QED BY <1>6, <1>7

\* The sets of constructs that "<" and ">" leave.
Lefts == {Loops \cup {"loop"} \cup {"switch {"}, Loops \cup {"loop"} \cup {}}

LEMMA LeftsAre ==
    ASSUME NEW left \in Lefts
    PROVE  /\ "main" \notin left /\ "block" \notin left /\ "loop" \in left
           /\ \A l : l \in left <=> l \in Loops \/ l = "loop" \/ (l = "switch {" /\ "switch {" \in left)
<1>1. /\ "main" \notin Loops /\ "block" \notin Loops /\ "switch {" \notin Loops
      /\ "main" # "loop" /\ "block" # "loop" /\ "switch {" # "loop"
      /\ "main" # "switch {" /\ "block" # "switch {"
  BY DEF Loops
<1>2. left = Loops \cup {"loop"} \cup {"switch {"} \/ left = Loops \cup {"loop"} \cup {}
  BY DEF Lefts
<1>3. CASE left = Loops \cup {"loop"} \cup {"switch {"}
  BY <1>1, <1>3
<1>4. CASE left = Loops \cup {"loop"} \cup {}
  BY <1>1, <1>4
<1> QED BY <1>2, <1>3, <1>4

\* A construct is left by a jump that leaves those of a set.
Leaves(a, k, left) == Kind(a) \in Loops \/ (Kind(a) = "switch {" /\ k > 1 /\ "switch {" \in left)

LEMMA TargetDown ==
    ASSUME Tree, NEW a, NEW k, NEW x \in Under(a, k), NEW left \in Lefts
    PROVE  /\ a = 0 => Target(Around(x), left) = {}
           /\ a # 0 /\ Leaves(a, k, left) => Target(Around(x), left) = {a}
           /\ a # 0 /\ ~Leaves(a, k, left) => Target(Around(x), left) = Target(Around(a), left)
<1>1. CASE a = 0
  <2>1. x \in 1 .. Here /\ Len(Around(x)) = 1
    BY <1>1, Child
  <2>2. Around(x) \in Seq(Entries) /\ Around(x)[1].kind = "main"
    BY <2>1, Whole, Positions, AroundOps
  <2>3. "main" \notin left
    BY LeftsAre
  <2>4. \A i \in 1 .. Len(Around(x)) : Around(x)[i].kind \notin left
    BY <2>1, <2>2, <2>3
  <2> QED BY <1>1, <2>2, <2>4, TargetNone
<1>2. CASE a # 0
  <2> DEFINE e == Innermost(x)
  <2>1. Around(x) = Append(Around(a), e) /\ Around(a) \in Seq(Entries) /\ e \in Entries /\ e.at = a
    BY <1>2, InnerAround
  <2>2. e.kind # "loop" /\ (e.kind \in Loops <=> Kind(a) \in Loops)
    BY <1>2, InnerKind
  <2>3. e.kind = "switch {" <=> Kind(a) = "switch {" /\ k > 1
    BY <1>2, InnerKind
  <2> HIDE DEF e
  <2>4. Around(a) \in Seq(Entries) /\ e \in Entries
    BY <2>1
  <2>5. /\ e.kind \in left => Target(Append(Around(a), e), left) = {e.at}
        /\ e.kind \notin left => Target(Append(Around(a), e), left) = Target(Around(a), left)
    BY <2>4, TargetAppend
  <2>6. e.kind \in left <=> e.kind \in Loops \/ (e.kind = "switch {" /\ "switch {" \in left)
    BY <2>2, LeftsAre
  <2>7. e.kind \in left <=> Leaves(a, k, left)
    BY <2>2, <2>3, <2>6 DEF Leaves
  <2> QED BY <1>2, <2>1, <2>5, <2>7
<1> QED BY <1>1, <1>2

LEMMA TargetTop ==
    ASSUME Tree, NEW d \in Definitions, NEW left \in Lefts
    PROVE  Target(Around(d), left) = {}
<1>1. d \in 1 .. Here /\ Len(Around(d)) = 1
  BY Programs
<1>2. Around(d) \in Seq(Entries) /\ Around(d)[1].kind = "main"
  BY <1>1, Whole, Positions, AroundOps
<1>3. "main" \notin left
  BY LeftsAre
<1>4. \A i \in 1 .. Len(Around(d)) : Around(d)[i].kind \notin left
  BY <1>1, <1>2, <1>3
<1> QED BY <1>2, <1>4, TargetNone

--------------------------------------------------------------------------------
(* The braces that are open while an op list is at work.                      *)

Doubled(at, part) ==
    Kind(at) \in {"50", "20", "a[", "a="} \/ (Kind(at) = "switch {" /\ part > 1)
OuterBrace(at) == Brace("block", at, IF Kind(at) = "switch {" THEN 1 ELSE 0)
InnerSort(at, part) ==
    IF Kind(at) \in Loops THEN "loop"
    ELSE IF Kind(at) = "switch {" /\ part > 1 THEN "switch {" ELSE "block"
InnerBrace(at, part) == Brace(InnerSort(at, part), at, part)
Frame(m, at, part) ==
    Append(IF Doubled(at, part) THEN Append(m, OuterBrace(at)) ELSE m, InnerBrace(at, part))
Below(m, n) == \A i \in 1 .. Len(m) : m[i].at <= n

LEMMA BraceFacts ==
    ASSUME NEW at \in Nat, NEW part \in Nat
    PROVE  /\ OuterBrace(at) \in Pieces /\ OuterBrace(at).at = at /\ OuterBrace(at).kind = "block"
           /\ InnerBrace(at, part) \in Pieces
           /\ InnerBrace(at, part).at = at /\ InnerBrace(at, part).part = part
           /\ InnerBrace(at, part).kind = InnerSort(at, part)
<1>1. \A kind, p : /\ Brace(kind, at, p).at = at /\ Brace(kind, at, p).kind = kind
                   /\ Brace(kind, at, p).part = p
  BY DEF Brace, Piece
<1>2. {"block", "loop", "switch {"} \subseteq Sorts
  BY DEF Sorts, Kinds
<1>3. (IF Kind(at) = "switch {" THEN 1 ELSE 0) \in Nat
  OBVIOUS
<1>4. InnerSort(at, part) \in Sorts
  BY <1>2 DEF InnerSort
<1>5. OuterBrace(at) \in Pieces
  BY <1>2, <1>3, Pieced DEF OuterBrace
<1>6. InnerBrace(at, part) \in Pieces
  BY <1>4, Pieced DEF InnerBrace
<1> QED BY <1>1, <1>5, <1>6 DEF OuterBrace, InnerBrace

LEMMA BelowAppend ==
    ASSUME NEW m \in Seq(Pieces), NEW p \in Pieces, NEW n \in Nat, Below(m, n), p.at = n
    PROVE  Below(Append(m, p), n)
<1>1. /\ Len(Append(m, p)) = Len(m) + 1 /\ Len(m) \in Nat
      /\ \A i \in 1 .. Len(m) : Append(m, p)[i] = m[i]
      /\ Append(m, p)[Len(m) + 1] = p
  BY Appended
<1>2. ASSUME NEW i \in 1 .. Len(m) + 1 PROVE Append(m, p)[i].at <= n
  <2>1. CASE i = Len(m) + 1
    BY <1>1, <2>1
  <2>2. CASE i # Len(m) + 1
    <3>1. i \in 1 .. Len(m)
      BY <1>1, <2>2
    <3> QED BY <1>1, <3>1 DEF Below
  <2> QED BY <2>1, <2>2
<1> QED BY <1>1, <1>2 DEF Below

LEMMA BelowSituation ==
    ASSUME NEW m \in Seq(Pieces), NEW n \in Nat, NEW o \in Nat, Below(m, n), n < o
    PROVE  Below(m, o) /\ \A s \in Situation(m) : s[1] # o
<1>1. \A i \in 1 .. Len(m) : m[i].at \in Nat
  <2>1. \A i \in 1 .. Len(m) : m[i] \in Pieces
    OBVIOUS
  <2> QED BY <2>1 DEF Pieces
<1>2. \A i \in 1 .. Len(m) : m[i].at <= n
  BY DEF Below
<1>3. Below(m, o)
  BY <1>1, <1>2 DEF Below
<1>4. ASSUME NEW s \in Situation(m) PROVE s[1] # o
  <2>1. PICK i \in 1 .. Len(m) : s = <<m[i].at, m[i].part>>
    BY SituationIs
  <2>2. s[1] = m[i].at
    BY <2>1
  <2> QED BY <1>1, <1>2, <2>2
<1> QED BY <1>3, <1>4

\* What a frame adds to the braces around it.
LEMMA FrameFacts ==
    ASSUME NEW m \in Seq(Pieces), NEW at \in Nat, NEW part \in Nat, Below(m, at),
           \A s \in Situation(m) : s[1] # at
    PROVE  /\ Frame(m, at, part) \in Seq(Pieces) /\ Below(Frame(m, at, part), at)
           /\ \A s : s \in Situation(Frame(m, at, part)) <=> s = <<at, part>> \/ s \in Situation(m)
           /\ \A left \in Lefts :
                /\ Leaves(at, part, left) => Target(Frame(m, at, part), left) = {at}
                /\ ~Leaves(at, part, left) => Target(Frame(m, at, part), left) = Target(m, left)
<1> DEFINE p == InnerBrace(at, part)
           q == OuterBrace(at)
           n == IF Doubled(at, part) THEN Append(m, q) ELSE m
<1>1. /\ p \in Pieces /\ q \in Pieces /\ p.at = at /\ q.at = at /\ p.part = part
      /\ q.kind = "block" /\ p.kind = InnerSort(at, part)
  <2>1. q \in Pieces /\ q.at = at /\ q.kind = "block"
    BY BraceFacts
  <2>2. p \in Pieces /\ p.at = at /\ p.part = part /\ p.kind = InnerSort(at, part)
    BY BraceFacts
  <2> HIDE DEF p, q
  <2> QED BY <2>1, <2>2
<1>2. Frame(m, at, part) = Append(n, p)
  BY DEF Frame
<1> HIDE DEF p, q
<1>3. n \in Seq(Pieces) /\ Below(n, at)
  <2>1. Append(m, q) \in Seq(Pieces)
    BY <1>1, Appended
  <2>2. Below(Append(m, q), at)
    BY <1>1, BelowAppend
  <2> QED BY <2>1, <2>2
<1>4. \A s : s \in Situation(n) /\ s[1] # at <=> s \in Situation(m)
  <2>1. \A s : s \in Situation(Append(m, q)) <=> s = <<at, q.part>> \/ (s \in Situation(m) /\ s[1] # at)
    BY <1>1, SituationAppend
  <2>2. \A s : s = <<at, q.part>> => s[1] = at
    OBVIOUS
  <2>3. CASE Doubled(at, part)
    <3>1. n = Append(m, q)
      BY <2>3
    <3> HIDE DEF n
    <3> QED BY <2>1, <2>2, <3>1
  <2>4. CASE ~Doubled(at, part)
    <3>1. n = m
      BY <2>4
    <3> HIDE DEF n
    <3> QED BY <3>1
  <2> QED BY <2>3, <2>4
<1>5. ASSUME NEW left \in Lefts PROVE Target(n, left) = Target(m, left)
  <2>1. "block" \notin left
    BY LeftsAre
  <2>2. q.kind \notin left => Target(Append(m, q), left) = Target(m, left)
    BY <1>1, TargetAppend
  <2> QED BY <1>1, <2>1, <2>2
<1> HIDE DEF n
<1>6. Append(n, p) \in Seq(Pieces) /\ Below(Append(n, p), at)
  <2>1. Append(n, p) \in Seq(Pieces)
    BY <1>1, <1>3, Appended
  <2>2. Below(Append(n, p), at)
    BY <1>1, <1>3, BelowAppend
  <2> QED BY <2>1, <2>2
<1>7. \A s : s \in Situation(Append(n, p)) <=> s = <<at, part>> \/ s \in Situation(m)
  <2>1. \A s : s \in Situation(Append(n, p)) <=> s = <<p.at, p.part>> \/ (s \in Situation(n) /\ s[1] # p.at)
    BY <1>1, <1>3, SituationAppend
  <2> QED BY <1>1, <1>4, <2>1
<1>8. ASSUME NEW left \in Lefts
      PROVE  /\ Leaves(at, part, left) => Target(Append(n, p), left) = {at}
             /\ ~Leaves(at, part, left) => Target(Append(n, p), left) = Target(m, left)
  <2>1. /\ p.kind \in left => Target(Append(n, p), left) = {p.at}
        /\ p.kind \notin left => Target(Append(n, p), left) = Target(n, left)
    BY <1>1, <1>3, TargetAppend
  <2>2. "block" \notin left /\ "loop" \in left
    BY LeftsAre
  <2>3. InnerSort(at, part) \in left <=> Leaves(at, part, left)
    BY <2>2, Zenon DEF InnerSort, Leaves
  <2> QED BY <1>1, <1>5, <2>1, <2>3
<1> QED BY <1>2, <1>6, <1>7, <1>8

\* The braces say where the ops of a list are.
Agrees(at, part, m) ==
    \A x \in Under(at, part) :
        /\ Situation(m) = Trail(x)
        /\ \A left \in Lefts : Target(m, left) = Target(Around(x), left)

LEMMA NothingYet ==
    /\ <<>> \in Seq(Pieces) /\ Situation(<<>>) = {} /\ \A n : Below(<<>>, n)
    /\ \A left : Target(<<>>, left) = {}
<1>1. <<>> \in Seq(Pieces) /\ Len(<<>>) = 0 /\ DOMAIN <<>> = {}
  OBVIOUS
<1> QED BY <1>1 DEF Situation, Target, Below

LEMMA AgreesRoot ==
    ASSUME Tree, NEW b \in Range(Program)
    PROVE  /\ Frame(<<>>, b, 1) \in Seq(Pieces) /\ Below(Frame(<<>>, b, 1), b)
           /\ Agrees(b, 1, Frame(<<>>, b, 1))
<1> DEFINE m == Frame(<<>>, b, 1)
<1>1. b \in Nat /\ b \in Home(b) /\ (b = 0 \/ b \in Definitions)
  BY Programs, TreeLists DEF Home
<1>2. /\ m \in Seq(Pieces) /\ Below(m, b)
      /\ \A s : s \in Situation(m) <=> s = <<b, 1>>
      /\ \A left \in Lefts : ~Leaves(b, 1, left) => Target(m, left) = {}
  <2> DEFINE o == <<>>
  <2>1. /\ o \in Seq(Pieces) /\ Below(o, b) /\ Situation(o) = {}
        /\ \A left : Target(o, left) = {}
    BY NothingYet
  <2>2. m = Frame(o, b, 1) /\ 1 \in Nat
    OBVIOUS
  <2> HIDE DEF o, m
  <2> QED BY <1>1, <2>1, <2>2, FrameFacts
<1>3. \A left : ~Leaves(b, 1, left)
  <2>1. b = 0 => Kind(b) = "main"
    BY DEF Kind
  <2>2. b \in Definitions => Kind(b) = "/1" \/ b = 0
    BY Programs DEF Kind
  <2> QED BY <1>1, <2>1, <2>2 DEF Loops, Leaves
<1> HIDE DEF m
<1>4. ASSUME NEW x \in Under(b, 1)
      PROVE  Situation(m) = Trail(x) /\ \A left \in Lefts : Target(m, left) = Target(Around(x), left)
  <2>1. \A s : s \in Trail(x) <=> s = <<b, 1>>
    BY <1>1, TrailDown
  <2>2. Situation(m) = Trail(x)
    BY <1>2, <2>1
  <2>3. ASSUME NEW left \in Lefts PROVE Target(m, left) = Target(Around(x), left)
    <3>1. Target(m, left) = {}
      BY <1>2, <1>3
    <3>2. b = 0 => Target(Around(x), left) = {}
      BY TargetDown
    <3>3. b # 0 => Target(Around(x), left) = Target(Around(b), left)
      BY <1>3, TargetDown
    <3>4. b \in Definitions => Target(Around(b), left) = {}
      BY TargetTop
    <3> QED BY <1>1, <3>1, <3>2, <3>3, <3>4
  <2> QED BY <2>2, <2>3
<1> QED BY <1>2, <1>4 DEF Agrees, m

LEMMA AgreesDown ==
    ASSUME Tree, NEW b \in Range(Program), NEW a \in Home(b), NEW k, NEW x \in Under(a, k),
           NEW m \in Seq(Pieces), Below(m, a), Agrees(a, k, m), NEW l \in Nat
    PROVE  /\ Frame(m, x, l) \in Seq(Pieces) /\ Below(Frame(m, x, l), x)
           /\ Agrees(x, l, Frame(m, x, l))
<1>1. x \in OpsOf(b) /\ a \in Nat /\ a < x /\ x \in Nat /\ x # 0
  <2>1. x \in OpsOf(b)
    BY ChildBody
  <2>2. x \in 1 .. Here /\ a \in Nat /\ a < x
    BY Child
  <2> QED BY <2>1, <2>2
<1>2. x # b /\ x \in Home(b)
  <2>1. b < x /\ b \in Nat
    BY <1>1, InBody
  <2> QED BY <1>1, <2>1 DEF Home
<1>3. Below(m, x) /\ \A s \in Situation(m) : s[1] # x
  BY <1>1, BelowSituation
<1> DEFINE n == Frame(m, x, l)
<1>4. /\ n \in Seq(Pieces) /\ Below(n, x)
      /\ \A s : s \in Situation(n) <=> s = <<x, l>> \/ s \in Situation(m)
      /\ \A left \in Lefts :
           /\ Leaves(x, l, left) => Target(n, left) = {x}
           /\ ~Leaves(x, l, left) => Target(n, left) = Target(m, left)
  BY <1>1, <1>3, FrameFacts
<1> HIDE DEF n
<1>5. Situation(m) = Trail(x) /\ \A left \in Lefts : Target(m, left) = Target(Around(x), left)
  BY DEF Agrees
<1>6. ASSUME NEW y \in Under(x, l)
      PROVE  Situation(n) = Trail(y) /\ \A left \in Lefts : Target(n, left) = Target(Around(y), left)
  <2>1. \A s : s \in Trail(y) <=> s = <<x, l>> \/ s \in Trail(x)
    BY <1>2, TrailDown
  <2>2. Situation(n) = Trail(y)
    BY <1>4, <1>5, <2>1
  <2>3. ASSUME NEW left \in Lefts PROVE Target(n, left) = Target(Around(y), left)
    <3>1. /\ Leaves(x, l, left) => Target(Around(y), left) = {x}
          /\ ~Leaves(x, l, left) => Target(Around(y), left) = Target(Around(x), left)
      BY <1>1, TargetDown
    <3> QED BY <1>4, <1>5, <3>1
  <2> QED BY <2>2, <2>3
<1> QED BY <1>4, <1>6 DEF Agrees, n

--------------------------------------------------------------------------------
(* The ops that have op lists.                                               *)

\* A switch is complete with its groups only.
NoSwitch == \A p \in DOMAIN ops : ops[p].kind # "switch"

LEMMA CloseKind ==
    ASSUME NoSwitch, Close, Top.kind # "switch"
    PROVE  NoSwitch'
<1>1. Record(Top.at, Op(Top.kind, Top.labels, Top.lists))
  BY DEF Close
<1>2. /\ DOMAIN ops' = DOMAIN ops \cup {Top.at}
      /\ ops'[Top.at] = Op(Top.kind, Top.labels, Top.lists)
      /\ \A p \in DOMAIN ops : p # Top.at => ops'[p] = ops[p]
  BY <1>1, Recorded
<1>3. Op(Top.kind, Top.labels, Top.lists).kind # "switch"
  BY DEF Op
<1> QED BY <1>2, <1>3 DEF NoSwitch

LEMMA NoSwitchStepping == ASSUME NoSwitch, [ParserNext]_parserVars PROVE NoSwitch'
<1>0. ASSUME ops' = ops PROVE NoSwitch'
  BY <1>0 DEF NoSwitch
<1>1. ASSUME NEW t \in Tokens, PlainOp(t) PROVE NoSwitch'
  <2>1. Record(Here, Op(t, <<>>, <<>>)) /\ (t \in Plain \/ t = "/1")
    BY <1>1 DEF PlainOp
  <2>2. /\ DOMAIN ops' = DOMAIN ops \cup {Here} /\ ops'[Here] = Op(t, <<>>, <<>>)
        /\ \A p \in DOMAIN ops : p # Here => ops'[p] = ops[p]
    BY <2>1, Recorded
  <2>3. Op(t, <<>>, <<>>).kind # "switch"
    BY <2>1 DEF Op, Plain
  <2> QED BY <2>2, <2>3 DEF NoSwitch
<1>2. ASSUME NEW t \in Tokens, EndConstruct(t) PROVE NoSwitch'
  <2>1. Read(t) /\ Close /\ Fits(t)
    BY <1>2 DEF EndConstruct, Read
  <2>2. Top.kind # "switch"
    <3>1. CASE t = ")"
      <4>1. Top.kind = "("
        BY <2>1, <3>1 DEF Fits
      <4> QED BY <4>1
    <3>2. CASE t = "]"
      <4>1. Top.kind \in Objects
        BY <2>1, <3>2 DEF Fits
      <4> QED BY <4>1 DEF Objects
    <3>4. CASE t = "]()"
      BY <2>1, <3>4 DEF Fits
    <3>3. CASE t \notin {")", "]", "]()"}
      <4>1. t \in Grouping
        BY <1>2, <3>3 DEF EndConstruct, Grouping
      <4>2. t \in Grouping => Top.kind = "switch {"
        BY <2>1 DEF Fits, Grouping
      <4> QED BY <4>1, <4>2
    <3> QED BY <3>1, <3>2, <3>3, <3>4
  <2> QED BY <2>1, <2>2, CloseKind
<1>3. CASE Semicolon
  <2>1. CASE Top.kind \in Bodies \cup Values
    <3>1. Close /\ Top.kind # "switch"
      BY <1>3, <2>1 DEF Semicolon, Bodies, Values
    <3> QED BY <3>1, CloseKind
  <2>2. CASE Top.kind \notin Bodies \cup Values
    BY <1>0, <1>3, <2>2 DEF Semicolon
  <2> QED BY <2>1, <2>2
<1>4. CASE CloseAtEnd
  <2>1. CASE Top.kind \in Bodies
    <3>1. Close /\ Top.kind # "switch"
      BY <1>4, <2>1 DEF CloseAtEnd, Bodies
    <3> QED BY <3>1, CloseKind
  <2>2. CASE Top.kind \notin Bodies
    BY <1>0, <1>4, <2>2 DEF CloseAtEnd
  <2> QED BY <2>1, <2>2
<1>5. ASSUME NEW t \in Tokens, Begin(t) \/ EndIndex(t) \/ CaseLabel(t) \/ Mismatch(t) PROVE NoSwitch'
  BY <1>0, <1>5 DEF Begin, EndIndex, CaseLabel, Mismatch
<1>6. CASE Else \/ OpenSwitch \/ EndOfText
  BY <1>0, <1>6 DEF Else, OpenSwitch, EndOfText
<1>7. CASE UNCHANGED parserVars
  BY <1>0, <1>7 DEF parserVars
<1>8. ParserNext =>
         \/ \E t \in Tokens : \/ PlainOp(t) \/ Begin(t) \/ EndConstruct(t) \/ EndIndex(t)
                              \/ CaseLabel(t) \/ Mismatch(t)
         \/ Else \/ Semicolon \/ OpenSwitch \/ EndOfText \/ CloseAtEnd
  BY DEF ParserNext
<1> QED BY <1>1, <1>2, <1>3, <1>4, <1>5, <1>6, <1>7, <1>8

\* Ops with op lists, and how many.
Single == {"main", "/1", "30", "(", "50", "int a="}
Several == {"20", "a[", "a="}

LEMMA KindShape ==
    ASSUME Tree, NoSwitch, NEW a \in Nodes, Subs(a) # <<>>
    PROVE  /\ Kind(a) \in Single \cup Several \cup {"switch {", "sizeof a["}
           /\ Kind(a) \in Single => Len(Subs(a)) = 1
           /\ Kind(a) = "switch {" => a # 0 /\ Len(Subs(a)) = Len(ops[a].labels) + 1
<1>1. CASE a = 0
  <2>1. Kind(a) = "main" /\ Subs(a) = open[1].lists
    BY <1>1 DEF Kind, Subs
  <2>2. Len(Subs(a)) = 1
    BY <2>1, Whole
  <2> QED BY <2>1, <2>2 DEF Single
<1>2. CASE a # 0
  <2>1. a \in DOMAIN ops
    BY <1>2 DEF Nodes
  <2>2. Became(text[a], ops[a].kind) /\ Subs(a) = ops[a].subs /\ Kind(a) = ops[a].kind
    BY <2>1, KindText
  <2>3. ~Childless(a)
    BY <2>1, <2>2, Whole DEF Tree, PInv, KindsKept
  <2>4. a \in Starts
    BY <2>1, Whole
  <2>5. text[a] \in Opening
    BY <2>3, <2>4 DEF Childless, Starts
  <2>6. ops[a].kind # "switch"
    BY <2>1 DEF NoSwitch
  <2>7. Shaped(ops[a].kind, ops[a].labels, ops[a].subs)
    BY <2>1, <2>2, Whole DEF ParserTypeOK
  <2> DEFINE k == Kind(a)
             n == Len(Subs(a))
  <2>8. /\ k # "switch" /\ (text[a] = k \/ k \in {"a=", "switch {"})
        /\ k = "switch {" => n = Len(ops[a].labels) + 1
        /\ k \notin Objects \cup {"20", "a=", "switch {"} => n = 1
    BY <2>2, <2>6, <2>7 DEF Became, Shaped
  <2> HIDE DEF k, n
  <2>9. k \in Single \cup Several \cup {"switch {", "sizeof a["}
    BY <2>5, <2>8 DEF Single, Several, Opening, Bodies, Values, Objects
  <2>10. k \in Single => n = 1
    BY <2>8 DEF Single, Objects
  <2> QED BY <1>2, <2>8, <2>9, <2>10 DEF k, n
<1> QED BY <1>1, <1>2

--------------------------------------------------------------------------------
(* What a text says of the ops it was made from.                              *)

Carried(x) == text[x] \in Plain \cup {"/1"} /\ HasCode(x)
Fit(m, x) ==
    /\ Situation(m) = Trail(x)
    /\ \A left \in Lefts : Target(m, left) = Target(Around(x), left)

\* Its statements are those of a set of ops, where these are and in their order.
Stated(V, t) ==
    /\ \A j \in 1 .. Len(t) : t[j].c = "stmt" =>
         /\ t[j].at \in V /\ Carried(t[j].at) /\ t[j].kind = text[t[j].at]
         /\ Fit(Enclosing(t)[j], t[j].at)
    /\ \A x \in V : Carried(x) => \E j \in 1 .. Len(t) : t[j].c = "stmt" /\ t[j].at = x
Ordered(t) ==
    \A i, j \in 1 .. Len(t) : t[i].c = "stmt" /\ t[j].c = "stmt" /\ i < j => t[i].at < t[j].at

\* Its case labels are those of a set of groups.
Grouped(D, t) ==
    /\ \A j \in 1 .. Len(t) : t[j].c = "case" =>
         <<t[j].at, t[j].part - 1>> \in D /\ t[j].kind = ops[t[j].at].labels[t[j].part - 1]
    /\ \A g \in D : \E j \in 1 .. Len(t) : t[j].c = "case" /\ t[j].at = g[1] /\ t[j].part = g[2] + 1

Faithful(V, D, t) == Stated(V, t) /\ Ordered(t) /\ Grouped(D, t)

LEMMA FaithfulNone ==
    <<>> \in Seq(Pieces) /\ Faithful({}, {}, <<>>)
<1>1. <<>> \in Seq(Pieces) /\ 1 .. Len(<<>>) = {}
  OBVIOUS
<1> QED BY <1>1 DEF Faithful, Stated, Ordered, Grouped

\* One more piece.
LEMMA StatedSame ==
    ASSUME NEW V, NEW t \in Seq(Pieces), NEW p \in Pieces, p.c # "stmt", Stated(V, t)
    PROVE  Stated(V, Append(t, p))
<1> DEFINE r == Append(t, p)
           n == Len(t)
<1>1. /\ n \in Nat /\ Len(r) = n + 1 /\ (\A i \in 1 .. n : r[i] = t[i]) /\ r[n + 1] = p
  BY Appended
<1>2. \A j \in 1 .. n + 1 : Enclosing(r)[j] = Enclosing(t)[j]
  BY EnclosingAppend
<1> HIDE DEF r
<1>3. ASSUME NEW j \in 1 .. n + 1, r[j].c = "stmt"
      PROVE  /\ r[j].at \in V /\ Carried(r[j].at) /\ r[j].kind = text[r[j].at]
             /\ Fit(Enclosing(r)[j], r[j].at)
  <2>1. j # n + 1
    BY <1>1, <1>3
  <2>2. j \in 1 .. n /\ r[j] = t[j] /\ Enclosing(r)[j] = Enclosing(t)[j]
    BY <1>1, <1>2, <2>1
  <2> QED BY <1>3, <2>2 DEF Stated
<1>4. ASSUME NEW x \in V, Carried(x)
      PROVE  \E j \in 1 .. n + 1 : r[j].c = "stmt" /\ r[j].at = x
  <2>1. PICK j \in 1 .. n : t[j].c = "stmt" /\ t[j].at = x
    BY <1>4 DEF Stated
  <2>2. j \in 1 .. n + 1 /\ r[j] = t[j]
    BY <1>1
  <2> QED BY <2>1, <2>2
<1> QED BY <1>1, <1>3, <1>4 DEF Stated, r

LEMMA StatedMore ==
    ASSUME NEW V, NEW t \in Seq(Pieces), NEW p \in Pieces, p.c = "stmt", Stated(V, t),
           NEW x, p.at = x, p.kind = text[x], Carried(x), Fit(Depth(t), x)
    PROVE  Stated(V \cup {x}, Append(t, p))
<1> DEFINE r == Append(t, p)
           n == Len(t)
<1>1. /\ n \in Nat /\ Len(r) = n + 1 /\ (\A i \in 1 .. n : r[i] = t[i]) /\ r[n + 1] = p
  BY Appended
<1>2. \A j \in 1 .. n + 1 : Enclosing(r)[j] = Enclosing(t)[j]
  BY EnclosingAppend
<1> HIDE DEF r
<1>3. ASSUME NEW j \in 1 .. n + 1, r[j].c = "stmt"
      PROVE  /\ r[j].at \in V \cup {x} /\ Carried(r[j].at) /\ r[j].kind = text[r[j].at]
             /\ Fit(Enclosing(r)[j], r[j].at)
  <2>1. CASE j = n + 1
    <3>1. r[j] = p /\ Enclosing(r)[j] = Depth(t)
      BY <1>1, <1>2, <2>1 DEF Depth
    <3> QED BY <3>1
  <2>2. CASE j # n + 1
    <3>1. j \in 1 .. n /\ r[j] = t[j] /\ Enclosing(r)[j] = Enclosing(t)[j]
      BY <1>1, <1>2, <2>2
    <3> QED BY <1>3, <3>1 DEF Stated
  <2> QED BY <2>1, <2>2
<1>4. ASSUME NEW y \in V \cup {x}, Carried(y)
      PROVE  \E j \in 1 .. n + 1 : r[j].c = "stmt" /\ r[j].at = y
  <2>1. CASE y = x
    <3>1. n + 1 \in 1 .. n + 1
      BY <1>1
    <3> QED BY <1>1, <2>1, <3>1
  <2>2. CASE y \in V
    <3>1. PICK j \in 1 .. n : t[j].c = "stmt" /\ t[j].at = y
      BY <1>4, <2>2 DEF Stated
    <3>2. j \in 1 .. n + 1 /\ r[j] = t[j]
      BY <1>1
    <3> QED BY <3>1, <3>2
  <2> QED BY <2>1, <2>2
<1> QED BY <1>1, <1>3, <1>4 DEF Stated, r

LEMMA OrderedMore ==
    ASSUME NEW V, NEW t \in Seq(Pieces), NEW p \in Pieces, Stated(V, t), Ordered(t),
           p.c = "stmt" => \A y \in V : y < p.at
    PROVE  Ordered(Append(t, p))
<1> DEFINE r == Append(t, p)
           n == Len(t)
<1>1. /\ n \in Nat /\ Len(r) = n + 1 /\ (\A i \in 1 .. n : r[i] = t[i]) /\ r[n + 1] = p
  BY Appended
<1> HIDE DEF r
<1>2. ASSUME NEW i \in 1 .. n + 1, NEW j \in 1 .. n + 1, r[i].c = "stmt", r[j].c = "stmt", i < j
      PROVE  r[i].at < r[j].at
  <2>1. i \in 1 .. n /\ r[i] = t[i] /\ t[i].c = "stmt"
    BY <1>1, <1>2
  <2>2. CASE j = n + 1
    <3>1. r[j] = p /\ t[i].at \in V
      BY <1>1, <2>1, <2>2 DEF Stated
    <3> QED BY <1>2, <2>1, <3>1
  <2>3. CASE j # n + 1
    <3>1. j \in 1 .. n /\ r[j] = t[j]
      BY <1>1, <2>3
    <3> QED BY <1>2, <2>1, <3>1 DEF Ordered
  <2> QED BY <2>2, <2>3
<1> QED BY <1>1, <1>2 DEF Ordered, r

LEMMA GroupedSame ==
    ASSUME NEW D, NEW t \in Seq(Pieces), NEW p \in Pieces, p.c # "case", Grouped(D, t)
    PROVE  Grouped(D, Append(t, p))
<1> DEFINE r == Append(t, p)
           n == Len(t)
<1>1. /\ n \in Nat /\ Len(r) = n + 1 /\ (\A i \in 1 .. n : r[i] = t[i]) /\ r[n + 1] = p
  BY Appended
<1> HIDE DEF r
<1>2. ASSUME NEW j \in 1 .. n + 1, r[j].c = "case"
      PROVE  <<r[j].at, r[j].part - 1>> \in D /\ r[j].kind = ops[r[j].at].labels[r[j].part - 1]
  <2>1. j # n + 1
    BY <1>1, <1>2
  <2>2. j \in 1 .. n /\ r[j] = t[j]
    BY <1>1, <2>1
  <2> QED BY <1>2, <2>2 DEF Grouped
<1>3. ASSUME NEW g \in D
      PROVE  \E j \in 1 .. n + 1 : r[j].c = "case" /\ r[j].at = g[1] /\ r[j].part = g[2] + 1
  <2>1. PICK j \in 1 .. n : t[j].c = "case" /\ t[j].at = g[1] /\ t[j].part = g[2] + 1
    BY DEF Grouped
  <2>2. j \in 1 .. n + 1 /\ r[j] = t[j]
    BY <1>1
  <2> QED BY <2>1, <2>2
<1> QED BY <1>1, <1>2, <1>3 DEF Grouped, r

LEMMA GroupedMore ==
    ASSUME NEW D, NEW t \in Seq(Pieces), NEW p \in Pieces, p.c = "case", Grouped(D, t),
           NEW q, NEW k \in Nat, p.at = q, p.part = k + 1, p.kind = ops[q].labels[k]
    PROVE  Grouped(D \cup {<<q, k>>}, Append(t, p))
<1> DEFINE r == Append(t, p)
           n == Len(t)
<1>1. /\ n \in Nat /\ Len(r) = n + 1 /\ (\A i \in 1 .. n : r[i] = t[i]) /\ r[n + 1] = p
  BY Appended
<1>0. p.part - 1 = k
  OBVIOUS
<1> HIDE DEF r
<1>2. ASSUME NEW j \in 1 .. n + 1, r[j].c = "case"
      PROVE  /\ <<r[j].at, r[j].part - 1>> \in D \cup {<<q, k>>}
             /\ r[j].kind = ops[r[j].at].labels[r[j].part - 1]
  <2>1. CASE j = n + 1
    <3>1. r[j] = p
      BY <1>1, <2>1
    <3> QED BY <1>0, <3>1
  <2>2. CASE j # n + 1
    <3>1. j \in 1 .. n /\ r[j] = t[j]
      BY <1>1, <2>2
    <3> QED BY <1>2, <3>1 DEF Grouped
  <2> QED BY <2>1, <2>2
<1>3. ASSUME NEW g \in D \cup {<<q, k>>}
      PROVE  \E j \in 1 .. n + 1 : r[j].c = "case" /\ r[j].at = g[1] /\ r[j].part = g[2] + 1
  <2>1. CASE g = <<q, k>>
    <3>1. n + 1 \in 1 .. n + 1 /\ g[1] = q /\ g[2] = k
      BY <1>1, <2>1
    <3> QED BY <1>1, <3>1
  <2>2. CASE g \in D
    <3>1. PICK j \in 1 .. n : t[j].c = "case" /\ t[j].at = g[1] /\ t[j].part = g[2] + 1
      BY <2>2 DEF Grouped
    <3>2. j \in 1 .. n + 1 /\ r[j] = t[j]
      BY <1>1
    <3> QED BY <3>1, <3>2
  <2> QED BY <2>1, <2>2
<1> QED BY <1>1, <1>2, <1>3 DEF Grouped, r

LEMMA FaithfulBrace ==
    ASSUME NEW V, NEW D, NEW t \in Seq(Pieces), Faithful(V, D, t), NEW p \in Pieces,
           p.c # "stmt", p.c # "case"
    PROVE  Append(t, p) \in Seq(Pieces) /\ Faithful(V, D, Append(t, p))
<1>1. Stated(V, t) /\ Ordered(t) /\ Grouped(D, t)
  BY DEF Faithful
<1>2. Append(t, p) \in Seq(Pieces)
  BY Appended
<1>3. Stated(V, Append(t, p))
  BY <1>1, StatedSame
<1>4. Ordered(Append(t, p))
  BY <1>1, OrderedMore
<1>5. Grouped(D, Append(t, p))
  BY <1>1, GroupedSame
<1> QED BY <1>2, <1>3, <1>4, <1>5 DEF Faithful

LEMMA FaithfulStmt ==
    ASSUME NEW V, NEW D, NEW t \in Seq(Pieces), Faithful(V, D, t), NEW p \in Pieces,
           p.c = "stmt", NEW x, p.at = x, p.kind = text[x], Carried(x), Fit(Depth(t), x),
           \A y \in V : y < x
    PROVE  Append(t, p) \in Seq(Pieces) /\ Faithful(V \cup {x}, D, Append(t, p))
<1>1. Stated(V, t) /\ Ordered(t) /\ Grouped(D, t) /\ p.c # "case"
  BY DEF Faithful
<1>2. Append(t, p) \in Seq(Pieces)
  BY Appended
<1>3. Stated(V \cup {x}, Append(t, p))
  BY <1>1, StatedMore
<1>4. Ordered(Append(t, p))
  BY <1>1, OrderedMore
<1>5. Grouped(D, Append(t, p))
  BY <1>1, GroupedSame
<1> QED BY <1>2, <1>3, <1>4, <1>5 DEF Faithful

LEMMA FaithfulCase ==
    ASSUME NEW V, NEW D, NEW t \in Seq(Pieces), Faithful(V, D, t), NEW p \in Pieces,
           p.c = "case", NEW q, NEW k \in Nat, p.at = q, p.part = k + 1, p.kind = ops[q].labels[k]
    PROVE  Append(t, p) \in Seq(Pieces) /\ Faithful(V, D \cup {<<q, k>>}, Append(t, p))
<1>1. Stated(V, t) /\ Ordered(t) /\ Grouped(D, t) /\ p.c # "stmt"
  BY DEF Faithful
<1>2. Append(t, p) \in Seq(Pieces)
  BY Appended
<1>3. Stated(V, Append(t, p))
  BY <1>1, StatedSame
<1>4. Ordered(Append(t, p))
  BY <1>1, OrderedMore
<1>5. Grouped(D \cup {<<q, k>>}, Append(t, p))
  BY <1>1, GroupedMore
<1> QED BY <1>2, <1>3, <1>4, <1>5 DEF Faithful

\* Ops without a statement.
LEMMA FaithfulWider ==
    ASSUME NEW V, NEW W, NEW D, NEW t, Faithful(V, D, t), V \subseteq W,
           \A x \in W \ V : ~Carried(x)
    PROVE  Faithful(W, D, t)
<1>1. Stated(V, t) /\ Ordered(t) /\ Grouped(D, t)
  BY DEF Faithful
<1>2. Stated(W, t)
  BY <1>1 DEF Stated
<1> QED BY <1>1, <1>2 DEF Faithful

--------------------------------------------------------------------------------
(* The texts around an op's lists, piece after piece.                          *)

Two(p, q) == <<p, q>>
Join(t, s) == t \o s

LEMMA Joins ==
    ASSUME NEW S, NEW t \in Seq(S), NEW p \in S
    PROVE  Join(t, <<>>) = t /\ Join(t, <<p>>) = Append(t, p)
<1>1. t \o <<>> = t
  OBVIOUS
<1>2. t \o <<p>> = Append(t, p)
  OBVIOUS
<1> QED BY <1>1, <1>2 DEF Join

LEMMA JoinTwo ==
    ASSUME NEW S, NEW t \in Seq(S), NEW x1 \in S, NEW x2 \in S
    PROVE  Join(t, Two(x1, x2)) = Append(Append(t, x1), x2)
<1>1. t \o <<x1, x2>> = Append(Append(t, x1), x2)
  OBVIOUS
<1> QED BY <1>1 DEF Two, Join

LEMMA JoinJoin ==
    ASSUME NEW S, NEW t \in Seq(S), NEW r \in Seq(S), NEW s \in Seq(S)
    PROVE  Join(t, Join(r, s)) = Join(Join(t, r), s)
<1>1. t \o (r \o s) = (t \o r) \o s
  OBVIOUS
<1> QED BY <1>1 DEF Join

Added(t, p) == Append(t, p)
One(p) == <<p>>
None == <<>>

LEMMA JoinTwoAdded ==
    ASSUME NEW S, NEW t \in Seq(S), NEW x1 \in S, NEW x2 \in S
    PROVE  Join(t, Two(x1, x2)) = Added(Added(t, x1), x2)
BY JoinTwo DEF Added

LEMMA JoinNone ==
    ASSUME NEW S, NEW t \in Seq(S)
    PROVE  Join(t, None) = t
<1>1. t \o <<>> = t
  OBVIOUS
<1> QED BY <1>1 DEF None, Join

LEMMA JoinAdded ==
    ASSUME NEW S, NEW t \in Seq(S), NEW r \in Seq(S), NEW p \in S
    PROVE  Join(t, Added(r, p)) = Added(Join(t, r), p)
<1>1. t \o Append(r, p) = Append(t \o r, p)
  OBVIOUS
<1> QED BY <1>1 DEF Join, Added

LEMMA Taken ==
    ASSUME NEW S, NEW t \in Seq(S), NEW p \in S
    PROVE  Front(Append(t, p)) = t /\ Last(Append(t, p)) = p
<1> DEFINE r == Append(t, p)
<1>1. /\ r \in Seq(S) /\ r # <<>> /\ Len(r) = Len(t) + 1 /\ Len(t) \in Nat
      /\ (\A i \in 1 .. Len(t) : r[i] = t[i]) /\ r[Len(t) + 1] = p
  BY Appended
<1> HIDE DEF r
<1>2. /\ Front(r) \in Seq(S) /\ Len(Front(r)) = Len(t)
      /\ \A i \in 1 .. Len(t) : Front(r)[i] = r[i]
      /\ Last(r) = p
  <2>1. /\ Front(r) \in Seq(S) /\ Len(Front(r)) = Len(r) - 1
        /\ \A i \in 1 .. Len(r) - 1 : Front(r)[i] = r[i]
        /\ Last(r) = r[Len(r)]
    BY <1>1, Ended
  <2>2. Len(r) - 1 = Len(t)
    BY <1>1
  <2> QED BY <1>1, <2>1, <2>2
<1>3. Front(r) = t
  BY <1>1, <1>2, SeqEqual
<1> QED BY <1>2, <1>3 DEF r

\* A piece that opens a brace.
Opens(p) == p.c = "{"

LEMMA OpensQuiet ==
    /\ \A p : Opens(p) => p.c # "stmt" /\ p.c # "case"
    /\ End.c # "stmt" /\ End.c # "case" /\ End \in Pieces
<1>1. \A p : Opens(p) => p.c # "stmt" /\ p.c # "case"
  <2>1. "stmt" # "{" /\ "case" # "{"
    BY Zenon
  <2> QED BY <2>1, Zenon DEF Opens
<1>2. End.c # "stmt" /\ End.c # "case"
  <2>1. End.c = "}" /\ "}" # "stmt" /\ "}" # "case"
    BY Zenon DEF End, Piece
  <2> QED BY <2>1, Zenon
<1> QED BY <1>1, <1>2, Pieced

LEMMA ReadingOpens == \A m, p : Opens(p) => Reading(m, p) = Append(m, p)
BY ReadingIs, Zenon DEF Opens

LEMMA BraceOpens ==
    ASSUME NEW at \in Nat, NEW part \in Nat
    PROVE  /\ OuterBrace(at) \in Pieces /\ InnerBrace(at, part) \in Pieces
           /\ Opens(OuterBrace(at)) /\ Opens(InnerBrace(at, part))
<1>1. OuterBrace(at) \in Pieces /\ InnerBrace(at, part) \in Pieces
  BY BraceFacts
<1>2. \A kind, p : Opens(Brace(kind, at, p))
  BY Zenon DEF Opens, Brace, Piece
<1> QED BY <1>1, <1>2 DEF OuterBrace, InnerBrace

LEMMA FrameSeq ==
    ASSUME NEW t \in Seq(Pieces), NEW at \in Nat, NEW part \in Nat
    PROVE  Frame(t, at, part) \in Seq(Pieces)
<1>1. OuterBrace(at) \in Pieces /\ InnerBrace(at, part) \in Pieces
  BY BraceOpens
<1> QED BY <1>1, Appended DEF Frame

\* A text that opens a frame.
LEMMA DepthFrame ==
    ASSUME NEW t \in Seq(Pieces), NEW at \in Nat, NEW part \in Nat
    PROVE  Depth(Frame(t, at, part)) = Frame(Depth(t), at, part)
<1> DEFINE p == InnerBrace(at, part)
           q == OuterBrace(at)
<1>1. p \in Pieces /\ q \in Pieces /\ Opens(p) /\ Opens(q)
  BY BraceOpens
<1>2. \A m : Frame(m, at, part) = Append(IF Doubled(at, part) THEN Append(m, q) ELSE m, p)
  BY DEF Frame
<1> HIDE DEF p, q
<1>3. Append(t, q) \in Seq(Pieces)
  BY <1>1, Appended
<1>4. Depth(Append(t, q)) = Append(Depth(t), q)
  BY <1>1, DepthFacts, ReadingOpens
<1>5. Depth(Append(t, p)) = Append(Depth(t), p)
  BY <1>1, DepthFacts, ReadingOpens
<1>6. Depth(Append(Append(t, q), p)) = Append(Append(Depth(t), q), p)
  <2>1. Depth(Append(Append(t, q), p)) = Append(Depth(Append(t, q)), p)
    BY <1>1, <1>3, DepthFacts, ReadingOpens
  <2> QED BY <1>4, <2>1
<1> QED BY <1>2, <1>5, <1>6

LEMMA FaithfulFrame ==
    ASSUME NEW V, NEW D, NEW t \in Seq(Pieces), Faithful(V, D, t), NEW at \in Nat, NEW part \in Nat
    PROVE  Faithful(V, D, Frame(t, at, part))
<1> DEFINE p == InnerBrace(at, part)
           q == OuterBrace(at)
<1>1. p \in Pieces /\ q \in Pieces /\ Opens(p) /\ Opens(q)
  BY BraceOpens
<1>2. Frame(t, at, part) = Append(IF Doubled(at, part) THEN Append(t, q) ELSE t, p)
  BY DEF Frame
<1> HIDE DEF p, q
<1>3. p.c # "stmt" /\ p.c # "case" /\ q.c # "stmt" /\ q.c # "case"
  BY <1>1, OpensQuiet
<1>4. Append(t, q) \in Seq(Pieces) /\ Faithful(V, D, Append(t, q))
  BY <1>1, <1>3, FaithfulBrace
<1>5. Faithful(V, D, Append(t, p))
  BY <1>1, <1>3, FaithfulBrace
<1>6. Faithful(V, D, Append(Append(t, q), p))
  BY <1>1, <1>3, <1>4, FaithfulBrace
<1> QED BY <1>2, <1>5, <1>6

\* The kinds of braces that go with an op.
LEMMA BracesAre ==
    /\ \A a : Kind(a) = "30" \/ Kind(a) = "(" => ~Doubled(a, 1) /\ InnerBrace(a, 1) = Brace("loop", a, 1)
    /\ \A a : Kind(a) = "50" => /\ Doubled(a, 1) /\ OuterBrace(a) = Brace("block", a, 0)
                                /\ InnerBrace(a, 1) = Brace("loop", a, 1)
    /\ \A a, k : Kind(a) \in Several => /\ Doubled(a, k) /\ OuterBrace(a) = Brace("block", a, 0)
                                        /\ InnerBrace(a, k) = Brace("block", a, k)
    /\ \A a : Kind(a) = "int a=" \/ Kind(a) = "main" \/ Kind(a) = "/1" =>
                 ~Doubled(a, 1) /\ InnerBrace(a, 1) = Brace("block", a, 1)
    /\ \A a : Kind(a) = "switch {" => /\ ~Doubled(a, 1) /\ OuterBrace(a) = Brace("block", a, 1)
                                      /\ InnerBrace(a, 1) = Brace("block", a, 1)
    /\ \A a, k : Kind(a) = "switch {" /\ k > 1 =>
                 Doubled(a, k) /\ InnerBrace(a, k) = Brace("switch {", a, k)
<1>1. ~(1 > 1)
  OBVIOUS
<1>2. ASSUME NEW a, Kind(a) = "30" \/ Kind(a) = "("
      PROVE  ~Doubled(a, 1) /\ InnerBrace(a, 1) = Brace("loop", a, 1)
  <2>1. Kind(a) \in Loops /\ Kind(a) \notin {"50", "20", "a[", "a="} /\ Kind(a) # "switch {"
    BY <1>2 DEF Loops
  <2> QED BY <2>1 DEF Doubled, InnerBrace, InnerSort
<1>3. ASSUME NEW a, Kind(a) = "50"
      PROVE  /\ Doubled(a, 1) /\ OuterBrace(a) = Brace("block", a, 0)
             /\ InnerBrace(a, 1) = Brace("loop", a, 1)
  <2>1. Kind(a) \in Loops /\ Kind(a) \in {"50", "20", "a[", "a="} /\ Kind(a) # "switch {"
    BY <1>3 DEF Loops
  <2> QED BY <2>1 DEF Doubled, InnerBrace, InnerSort, OuterBrace
<1>4. ASSUME NEW a, NEW k, Kind(a) \in Several
      PROVE  /\ Doubled(a, k) /\ OuterBrace(a) = Brace("block", a, 0)
             /\ InnerBrace(a, k) = Brace("block", a, k)
  <2>1. Kind(a) \notin Loops /\ Kind(a) \in {"50", "20", "a[", "a="} /\ Kind(a) # "switch {"
    BY <1>4 DEF Loops, Several
  <2> QED BY <2>1 DEF Doubled, InnerBrace, InnerSort, OuterBrace
<1>5. ASSUME NEW a, Kind(a) = "int a=" \/ Kind(a) = "main" \/ Kind(a) = "/1"
      PROVE  ~Doubled(a, 1) /\ InnerBrace(a, 1) = Brace("block", a, 1)
  <2>1. Kind(a) \notin Loops /\ Kind(a) \notin {"50", "20", "a[", "a="} /\ Kind(a) # "switch {"
    BY <1>5 DEF Loops
  <2> QED BY <2>1 DEF Doubled, InnerBrace, InnerSort
<1>6. ASSUME NEW a, Kind(a) = "switch {"
      PROVE  /\ ~Doubled(a, 1) /\ OuterBrace(a) = Brace("block", a, 1)
             /\ InnerBrace(a, 1) = Brace("block", a, 1)
             /\ \A k : k > 1 => Doubled(a, k) /\ InnerBrace(a, k) = Brace("switch {", a, k)
  <2>1. Kind(a) \notin Loops /\ Kind(a) \notin {"50", "20", "a[", "a="}
    BY <1>6 DEF Loops
  <2> QED BY <1>1, <1>6, <2>1 DEF Doubled, InnerBrace, InnerSort, OuterBrace
<1> QED BY <1>2, <1>3, <1>4, <1>5, <1>6

LEMMA FrameJoin ==
    ASSUME NEW x \in Nat, NEW t \in Seq(Pieces)
    PROVE  /\ Doubled(x, 1) => Frame(t, x, 1) = Join(t, Two(OuterBrace(x), InnerBrace(x, 1)))
           /\ ~Doubled(x, 1) => Frame(t, x, 1) = Join(t, <<InnerBrace(x, 1)>>)
<1> DEFINE p == InnerBrace(x, 1)
           q == OuterBrace(x)
<1>1. p \in Pieces /\ q \in Pieces
  BY BraceFacts
<1>2. Frame(t, x, 1) = IF Doubled(x, 1) THEN Append(Append(t, q), p) ELSE Append(t, p)
  BY DEF Frame
<1> HIDE DEF p, q
<1>3. Join(t, <<p>>) = Append(t, p)
  BY <1>1, Joins
<1>4. Join(t, Two(q, p)) = Append(Append(t, q), p)
  BY <1>1, JoinTwo
<1> QED BY <1>2, <1>3, <1>4 DEF p, q

LEMMA OpenerIs ==
    ASSUME NEW x \in Nat, NEW t \in Seq(Pieces),
           Kind(x) \in (Single \ {"main", "/1"}) \cup Several \cup {"switch {"}
    PROVE  Join(t, Opener(x)) = Frame(t, x, 1)
<1> DEFINE p == InnerBrace(x, 1)
           q == OuterBrace(x)
<1>4. Opener(x) = IF Doubled(x, 1) THEN <<q, p>> ELSE <<p>>
  <2>1. CASE Kind(x) = "30" \/ Kind(x) = "("
    <3>1. Opener(x) = <<Brace("loop", x, 1)>>
      BY <2>1 DEF Opener
    <3> QED BY <2>1, <3>1, BracesAre
  <2>2. CASE Kind(x) = "50"
    <3>1. Opener(x) = <<Brace("block", x, 0), Brace("loop", x, 1)>>
      BY <2>2 DEF Opener
    <3> QED BY <2>2, <3>1, BracesAre
  <2>3. CASE Kind(x) \in Several
    <3>1. Opener(x) = <<Brace("block", x, 0), Brace("block", x, 1)>>
      BY <2>3 DEF Opener, Several
    <3> QED BY <2>3, <3>1, BracesAre
  <2>4. CASE Kind(x) = "int a="
    <3>1. Opener(x) = <<Brace("block", x, 1)>>
      BY <2>4 DEF Opener
    <3> QED BY <2>4, <3>1, BracesAre
  <2>5. CASE Kind(x) = "switch {"
    <3>1. Opener(x) = <<Brace("block", x, 1)>>
      BY <2>5 DEF Opener, ScrutineeFirst
    <3> QED BY <2>5, <3>1, BracesAre
  <2> QED BY <2>1, <2>2, <2>3, <2>4, <2>5 DEF Single
<1> HIDE DEF p, q
<1>5. Opener(x) = IF Doubled(x, 1) THEN Two(q, p) ELSE <<p>>
  BY <1>4 DEF Two
<1> QED BY <1>5, FrameJoin DEF p, q

--------------------------------------------------------------------------------
SwitchBrace(a, k) == Brace("switch {", a, k)
CaseOf(a, k) == Piece("case", ops[a].labels[k], a, k + 1)

LEMMA SwitchBraces ==
    /\ \A a, k : IsSwitch(a) /\ k > 1 => Doubled(a, k) /\ InnerBrace(a, k) = SwitchBrace(a, k)
    /\ \A a : IsSwitch(a) => ~Doubled(a, 1) /\ InnerBrace(a, 1) = OuterBrace(a)
    /\ \A a, k : Opens(SwitchBrace(a, k))
    /\ \A a, k, j : [SwitchBrace(a, k) EXCEPT !.part = j] = SwitchBrace(a, j)
    /\ \A a, k \in Nat : SwitchBrace(a, k) \in Pieces
<1>1. \A a, k : IsSwitch(a) /\ k > 1 => Doubled(a, k) /\ InnerBrace(a, k) = SwitchBrace(a, k)
  BY BracesAre, Zenon DEF IsSwitch, SwitchBrace
<1>2. \A a : IsSwitch(a) => ~Doubled(a, 1) /\ InnerBrace(a, 1) = OuterBrace(a)
  <2> TAKE a
  <2> HAVE IsSwitch(a)
  <2> QED BY BracesAre, Zenon DEF IsSwitch
<1>3. \A a, k : Opens(SwitchBrace(a, k))
  BY Zenon DEF Opens, SwitchBrace, Brace, Piece
<1>4. \A a, k, j : [SwitchBrace(a, k) EXCEPT !.part = j] = SwitchBrace(a, j)
  <2>1. \A c, kind, a, k, j : [Piece(c, kind, a, k) EXCEPT !.part = j] = Piece(c, kind, a, j)
    BY DEF Piece
  <2> QED BY <2>1, Zenon DEF SwitchBrace, Brace
<1>5. \A a, k \in Nat : SwitchBrace(a, k) \in Pieces
  <2>1. "switch {" \in Sorts
    BY DEF Sorts, Kinds, Opening, Labels, Plain
  <2> QED BY <2>1, Pieced DEF SwitchBrace
<1> QED BY <1>1, <1>2, <1>3, <1>4, <1>5

LEMMA CasePiece ==
    ASSUME Tree, NEW a, NEW k, IsCase(a, k)
    PROVE  LET p == CaseOf(a, k) IN
           /\ p \in Pieces /\ p.c = "case" /\ p.at = a /\ p.part = k + 1 /\ k \in Nat
           /\ p.kind = ops[a].labels[k] /\ a \in Nat
           /\ k >= 1 /\ k + 1 > 1 /\ k + 1 \in Nat
<1>1. a \in Nat /\ ops[a].labels \in Seq(Labels)
  <2>1. a \in Nodes /\ a # 0
    BY Whole DEF Nodes, IsCase
  <2> QED BY <2>1, NodeKinds
<1>a. a \in DOMAIN ops /\ k \in DOMAIN ops[a].labels
  BY DEF IsCase
<1>2. k \in Nat /\ k + 1 \in Nat /\ ops[a].labels[k] \in Labels
  BY <1>1, <1>a
<1>3. ops[a].labels[k] \in Sorts
  BY <1>2 DEF Sorts
<1>4. "case" \in Signs
  BY DEF Signs
<1>5. CaseOf(a, k) \in Pieces
  BY <1>1, <1>2, <1>3, <1>4, Pieced DEF CaseOf
<1>6. k >= 1
  BY <1>1, <1>a
<1> QED BY <1>1, <1>2, <1>5, <1>6 DEF CaseOf, Piece

\* A text that comes to its next list.
LEMMA BetweenIs ==
    ASSUME NEW a \in Nat, NEW k \in Nat, NEW t \in Seq(Pieces)
    PROVE  /\ Kind(a) \in Several => Between(a, k) = Two(End, InnerBrace(a, k + 1))
           /\ IsSwitch(a) /\ k = 1 => Between(a, k) = Added(One(SwitchBrace(a, 1)), CaseOf(a, k))
           /\ IsSwitch(a) /\ k # 1 => Between(a, k) = Added(None, CaseOf(a, k))
<1>1. ASSUME Kind(a) \in Several PROVE Between(a, k) = Two(End, InnerBrace(a, k + 1))
  <2>1. Kind(a) # "switch {"
    BY <1>1 DEF Several
  <2>2. Between(a, k) = <<End, Brace("block", a, k + 1)>>
    BY <2>1 DEF Between
  <2>3. InnerBrace(a, k + 1) = Brace("block", a, k + 1)
    BY <1>1, BracesAre
  <2> QED BY <2>2, <2>3 DEF Two
<1>2. ASSUME IsSwitch(a)
      PROVE  Between(a, k) = Added(Switch(a, k), CaseOf(a, k))
  BY <1>2, Zenon DEF Between, IsSwitch, CaseOf, Added
<1>3. Switch(a, 1) = <<SwitchBrace(a, 1)>> /\ (k # 1 => Switch(a, k) = <<>>)
  BY DEF Switch, SwitchBrace
<1> QED BY <1>1, <1>2, <1>3 DEF One, None

\* Reading the end of a brace, and a label of the innermost one.
LEMMA DepthEnd ==
    ASSUME NEW t \in Seq(Pieces), NEW m \in Seq(Pieces), NEW p \in Pieces, Depth(t) = Append(m, p)
    PROVE  Append(t, End) \in Seq(Pieces) /\ Depth(Append(t, End)) = m
<1>1. End \in Pieces
  BY Pieced
<1>2. Append(t, End) \in Seq(Pieces) /\ Depth(Append(t, End)) = Reading(Depth(t), End)
  BY <1>1, DepthFacts, Appended
<1>3. Reading(Depth(t), End) = Front(Append(m, p))
  BY ReadingIs
<1>4. Front(Append(m, p)) = m
  BY Taken
<1> QED BY <1>2, <1>3, <1>4

LabelTo(p, j) == p.c = "case" /\ p.part = j
LEMMA DepthCase ==
    ASSUME NEW t \in Seq(Pieces), NEW m \in Seq(Pieces), NEW a \in Nat, NEW k \in Nat, NEW j \in Nat,
           Depth(t) = Added(m, SwitchBrace(a, k)), NEW p \in Pieces, LabelTo(p, j)
    PROVE  /\ Added(t, p) \in Seq(Pieces)
           /\ Depth(Added(t, p)) = Added(m, SwitchBrace(a, j))
<1> DEFINE q == SwitchBrace(a, k)
<1>1. Append(t, p) \in Seq(Pieces) /\ Depth(Append(t, p)) = Reading(Depth(t), p)
  BY DepthFacts, Appended
<1>2. q \in Pieces /\ [q EXCEPT !.part = j] = SwitchBrace(a, j)
  BY SwitchBraces
<1> HIDE DEF q
<1>3. Reading(Depth(t), p) = Append(Front(Depth(t)), [Last(Depth(t)) EXCEPT !.part = j])
  BY ReadingIs DEF LabelTo
<1>4. Front(Append(m, q)) = m /\ Last(Append(m, q)) = q
  BY <1>2, Taken
<1>5. Depth(t) = Append(m, q)
  BY DEF q, Added
<1> QED BY <1>1, <1>2, <1>3, <1>4, <1>5 DEF Added

\* The braces of an op's list.
LEMMA FrameIs ==
    ASSUME NEW m \in Seq(Pieces), NEW a \in Nat, NEW k \in Nat
    PROVE  /\ Doubled(a, k) => Frame(m, a, k) = Append(Append(m, OuterBrace(a)), InnerBrace(a, k))
           /\ ~Doubled(a, k) => Frame(m, a, k) = Append(m, InnerBrace(a, k))
           /\ OuterBrace(a) \in Pieces /\ InnerBrace(a, k) \in Pieces
           /\ Append(m, OuterBrace(a)) \in Seq(Pieces) /\ Append(m, InnerBrace(a, k)) \in Seq(Pieces)
<1>1. OuterBrace(a) \in Pieces /\ InnerBrace(a, k) \in Pieces
  BY BraceFacts
<1> QED BY <1>1, Appended DEF Frame

--------------------------------------------------------------------------------
\* More pieces that are braces.
LEMMA QuietEnd ==
    ASSUME NEW V, NEW D, NEW t \in Seq(Pieces), Faithful(V, D, t)
    PROVE  Append(t, End) \in Seq(Pieces) /\ Faithful(V, D, Append(t, End))
<1>1. End \in Pieces
  BY Pieced
<1>2. End.c # "stmt" /\ End.c # "case"
  BY Zenon DEF End, Piece
<1> QED BY <1>1, <1>2, FaithfulBrace

LEMMA QuietOpen ==
    ASSUME NEW V, NEW D, NEW t \in Seq(Pieces), Faithful(V, D, t), NEW p \in Pieces, Opens(p)
    PROVE  /\ Append(t, p) \in Seq(Pieces) /\ Faithful(V, D, Append(t, p))
           /\ Depth(Append(t, p)) = Append(Depth(t), p)
<1>1. p.c # "stmt" /\ p.c # "case"
  BY OpensQuiet
<1>2. Append(t, p) \in Seq(Pieces) /\ Faithful(V, D, Append(t, p))
  BY <1>1, FaithfulBrace
<1>3. Depth(Append(t, p)) = Append(Depth(t), p)
  BY DepthFacts, ReadingOpens
<1> QED BY <1>2, <1>3

LEMMA BetweenSeveral ==
    ASSUME NEW a \in Nat, NEW k \in Nat, Kind(a) \in Several, NEW t \in Seq(Pieces),
           NEW m \in Seq(Pieces), Depth(t) = Frame(m, a, k), NEW V, NEW D, Faithful(V, D, t)
    PROVE  LET r == Join(t, Between(a, k)) IN
           r \in Seq(Pieces) /\ Depth(r) = Frame(m, a, k + 1) /\ Faithful(V, D, r)
<1> DEFINE p == InnerBrace(a, k)
           q == InnerBrace(a, k + 1)
           o == OuterBrace(a)
           r == Join(t, Between(a, k))
<1>1. Doubled(a, k) /\ Doubled(a, k + 1)
  BY BracesAre
<1>2. /\ Frame(m, a, k) = Append(Append(m, o), p) /\ Frame(m, a, k + 1) = Append(Append(m, o), q)
      /\ p \in Pieces /\ q \in Pieces /\ Append(m, o) \in Seq(Pieces)
  BY <1>1, FrameIs
<1>3. Opens(q)
  BY BraceOpens
<1>4. Between(a, k) = Two(End, q)
  BY BetweenIs
<1> HIDE DEF p, q, o
<1>5. End \in Pieces
  BY Pieced
<1>6. r = Append(Append(t, End), q)
  BY <1>2, <1>4, <1>5, JoinTwo
<1>7. Append(t, End) \in Seq(Pieces) /\ Depth(Append(t, End)) = Append(m, o)
  BY <1>2, DepthEnd
<1>8. Faithful(V, D, Append(t, End))
  BY QuietEnd
<1>9. /\ Append(Append(t, End), q) \in Seq(Pieces) /\ Faithful(V, D, Append(Append(t, End), q))
      /\ Depth(Append(Append(t, End), q)) = Append(Depth(Append(t, End)), q)
  BY <1>2, <1>3, <1>7, <1>8, QuietOpen
<1> HIDE DEF r
<1> QED BY <1>2, <1>6, <1>7, <1>9 DEF r

LEMMA BetweenSwitch ==
    ASSUME Tree, NEW a, IsSwitch(a), NEW k, IsCase(a, k),
           NEW t \in Seq(Pieces), NEW m \in Seq(Pieces), Depth(t) = Frame(m, a, k),
           NEW V, NEW D, Faithful(V, D, t)
    PROVE  LET r == Join(t, Between(a, k)) IN
           /\ r \in Seq(Pieces) /\ Depth(r) = Frame(m, a, k + 1)
           /\ Faithful(V, D \cup {<<a, k>>}, r)
<1> DEFINE p == CaseOf(a, k)
           o == OuterBrace(a)
           n == Append(m, o)
           r == Join(t, Between(a, k))
<1>1. /\ p \in Pieces /\ p.c = "case" /\ p.at = a /\ p.part = k + 1 /\ k \in Nat /\ a \in Nat
      /\ p.kind = ops[a].labels[k]
  BY CasePiece
<1>0. p \in Pieces /\ LabelTo(p, k + 1)
  BY <1>1 DEF LabelTo
<1>2. k >= 1 /\ k + 1 > 1 /\ k + 1 \in Nat
  BY CasePiece
<1>3. n \in Seq(Pieces) /\ o \in Pieces
  BY <1>1, FrameIs
<1>4. Frame(m, a, k + 1) = Append(n, SwitchBrace(a, k + 1))
  <2>1. Doubled(a, k + 1) /\ InnerBrace(a, k + 1) = SwitchBrace(a, k + 1)
    BY <1>2, SwitchBraces
  <2> QED BY <1>1, <1>2, <2>1, FrameIs
<1>5. \E s \in Seq(Pieces) : /\ r = Append(s, p) /\ Depth(s) = Append(n, SwitchBrace(a, k))
                             /\ Faithful(V, D, s)
  <2>1. CASE k = 1
    <3> DEFINE q == SwitchBrace(a, 1)
               s == Append(t, q)
    <3>1. Frame(m, a, 1) = n
      <4>1. ~Doubled(a, 1)
        BY SwitchBraces
      <4>2. InnerBrace(a, 1) = OuterBrace(a)
        BY SwitchBraces
      <4>3. Frame(m, a, 1) = Append(m, InnerBrace(a, 1))
        BY <1>1, <4>1, FrameIs
      <4> QED BY <4>2, <4>3
    <3>2. q \in Pieces /\ Opens(q)
      BY <1>1, SwitchBraces
    <3>3. Between(a, k) = Added(One(q), p)
      BY <1>1, <2>1, BetweenIs
    <3> HIDE DEF p, n, o, q
    <3>4. One(q) \in Seq(Pieces) /\ Join(t, One(q)) = s
      BY <3>2, OneTwo, Joins DEF One
    <3>7. One(q) \in Seq(Pieces)
      BY <3>4
    <3>5. Join(t, Added(One(q), p)) = Added(Join(t, One(q)), p)
      BY <1>0, <3>7, JoinAdded
    <3>6. s \in Seq(Pieces) /\ Faithful(V, D, s) /\ Depth(s) = Append(Depth(t), q)
      BY <3>2, QuietOpen
    <3> QED BY <2>1, <3>1, <3>3, <3>4, <3>5, <3>6 DEF q, Added
  <2>2. CASE k # 1
    <3>1. Frame(m, a, k) = Append(n, SwitchBrace(a, k))
      <4>1. k > 1
        BY <1>1, <1>2, <2>2
      <4>2. Doubled(a, k) /\ InnerBrace(a, k) = SwitchBrace(a, k)
        BY <4>1, SwitchBraces
      <4>3. Frame(m, a, k) = Append(Append(m, OuterBrace(a)), InnerBrace(a, k))
        BY <1>1, <4>2, FrameIs
      <4> QED BY <4>2, <4>3
    <3>3. Between(a, k) = Added(None, p)
      BY <1>1, <2>2, BetweenIs
    <3> HIDE DEF p, n, o
    <3>4. None \in Seq(Pieces) /\ Join(t, None) = t
      BY <1>1, NothingYet, Joins DEF None
    <3>5. Join(t, Added(None, p)) = Added(Join(t, None), p)
      BY <1>0, <3>4, JoinAdded
    <3> QED BY <3>1, <3>3, <3>4, <3>5 DEF Added
  <2> QED BY <2>1, <2>2
<1> HIDE DEF p, n, o, r
<1>6. PICK s \in Seq(Pieces) : /\ r = Append(s, p) /\ Depth(s) = Append(n, SwitchBrace(a, k))
                               /\ Faithful(V, D, s)
  BY <1>5
<1>7. r \in Seq(Pieces) /\ Depth(r) = Frame(m, a, k + 1)
  <2>1. k \in Nat /\ a \in Nat
    BY <1>1
  <2>2. Depth(s) = Added(n, SwitchBrace(a, k))
    BY <1>6 DEF Added
  <2>3. r = Added(s, p)
    BY <1>6 DEF Added
  <2>4. Frame(m, a, k + 1) = Added(n, SwitchBrace(a, k + 1))
    BY <1>4 DEF Added
  <2>5. n \in Seq(Pieces)
    BY <1>3
  <2>6. k + 1 \in Nat
    BY <1>2
  <2>7. Added(s, p) \in Seq(Pieces) /\ Depth(Added(s, p)) = Added(n, SwitchBrace(a, k + 1))
    BY <1>0, <2>1, <2>2, <2>5, <2>6, DepthCase
  <2> QED BY <2>3, <2>4, <2>7
<1>8. Faithful(V, D \cup {<<a, k>>}, Append(s, p))
  BY <1>1, <1>6, FaithfulCase
<1> QED BY <1>6, <1>7, <1>8 DEF r

--------------------------------------------------------------------------------
\* The end of a construct.
Plainly == {"30", "(", "int a=", "/1", "main"}

LEMMA CloserIs ==
    ASSUME NEW a, NEW k \in Nat
    PROVE  /\ Kind(a) \in Plainly => ~Doubled(a, k) /\ Closer(a, k) = One(End)
           /\ Kind(a) \in Several \cup {"50"} => Doubled(a, k) /\ Closer(a, k) = Two(End, End)
           /\ IsSwitch(a) /\ k = 1 => Closer(a, k) = Join(One(SwitchBrace(a, 1)), Two(End, End))
           /\ IsSwitch(a) /\ k # 1 => Closer(a, k) = Join(None, Two(End, End))
<1>1. ASSUME Kind(a) \in Plainly PROVE ~Doubled(a, k) /\ Closer(a, k) = One(End)
  <2>1. Kind(a) \in {"30", "(", "int a=", "/1", "main"}
    BY <1>1 DEF Plainly
  <2>2. Closer(a, k) = <<End>>
    BY <2>1, Zenon DEF Closer
  <2>3. Kind(a) \notin {"50", "20", "a[", "a="} /\ Kind(a) # "switch {"
    BY <2>1
  <2> QED BY <2>2, <2>3 DEF One, Doubled
<1>2. ASSUME Kind(a) \in Several \cup {"50"}
      PROVE  Doubled(a, k) /\ Closer(a, k) = Two(End, End)
  <2>1. /\ Kind(a) \notin {"30", "(", "int a=", "/1", "main"} /\ Kind(a) # "switch {"
        /\ Kind(a) \in {"50", "20", "a[", "a="}
    BY <1>2 DEF Several
  <2>2. Closer(a, k) = <<End, End>>
    BY <2>1, Zenon DEF Closer
  <2> QED BY <2>1, <2>2 DEF Two, Doubled
<1>3. ASSUME IsSwitch(a)
      PROVE  Closer(a, k) = Join(Switch(a, k), Two(End, End))
  <2>1. /\ Kind(a) \notin {"30", "(", "int a=", "/1", "main"} /\ Kind(a) = "switch {"
    BY <1>3 DEF IsSwitch
  <2> QED BY <2>1, Zenon DEF Closer, Join, Two
<1>4. Switch(a, 1) = One(SwitchBrace(a, 1)) /\ (k # 1 => Switch(a, k) = None)
  BY DEF Switch, SwitchBrace, One, None
<1> QED BY <1>1, <1>2, <1>3, <1>4

\* Two braces end.
LEMMA TwoEnds ==
    ASSUME NEW t \in Seq(Pieces), NEW m \in Seq(Pieces), NEW p \in Pieces, NEW q \in Pieces,
           Depth(t) = Added(Added(m, p), q), NEW V, NEW D, Faithful(V, D, t)
    PROVE  LET r == Join(t, Two(End, End)) IN
           r \in Seq(Pieces) /\ Depth(r) = m /\ Faithful(V, D, r)
<1> DEFINE s == Append(t, End)
<1>1. End \in Pieces /\ Append(m, p) \in Seq(Pieces)
  BY Pieced, Appended
<1>2. s \in Seq(Pieces) /\ Depth(s) = Append(m, p)
  <2>1. Depth(t) = Append(Append(m, p), q)
    BY DEF Added
  <2> QED BY <1>1, <2>1, DepthEnd
<1>3. Faithful(V, D, s)
  BY QuietEnd
<1>4. Join(t, Two(End, End)) = Append(s, End)
  <2>1. Join(t, Two(End, End)) = Added(Added(t, End), End)
    BY <1>1, JoinTwoAdded
  <2> QED BY <2>1 DEF Added
<1> HIDE DEF s
<1>5. Append(s, End) \in Seq(Pieces) /\ Depth(Append(s, End)) = m
  BY <1>2, DepthEnd
<1>6. Faithful(V, D, Append(s, End))
  BY <1>2, <1>3, QuietEnd
<1> QED BY <1>4, <1>5, <1>6

LEMMA CloserDown ==
    ASSUME NEW a \in Nat, NEW k \in Nat,
           Kind(a) \in Plainly \cup Several \cup {"50"} \/ IsSwitch(a), k >= 1,
           NEW t \in Seq(Pieces), NEW m \in Seq(Pieces), Depth(t) = Frame(m, a, k),
           NEW V, NEW D, Faithful(V, D, t)
    PROVE  LET r == Join(t, Closer(a, k)) IN
           r \in Seq(Pieces) /\ Depth(r) = m /\ Faithful(V, D, r)
<1> DEFINE p == InnerBrace(a, k)
           o == OuterBrace(a)
           n == Append(m, o)
           r == Join(t, Closer(a, k))
<1>1. p \in Pieces /\ o \in Pieces /\ n \in Seq(Pieces)
  BY FrameIs
<1>2. /\ Doubled(a, k) => Frame(m, a, k) = Append(Append(m, o), p)
      /\ ~Doubled(a, k) => Frame(m, a, k) = Append(m, p)
  BY FrameIs
<1>3. CASE Kind(a) \in Plainly
  <2>1. ~Doubled(a, k) /\ Closer(a, k) = One(End)
    BY <1>3, CloserIs
  <2> HIDE DEF p, n, o
  <2>2. End \in Pieces
    BY Pieced
  <2>3. Join(t, One(End)) = Append(t, End)
    BY <2>2, Joins DEF One
  <2>4. Append(t, End) \in Seq(Pieces) /\ Depth(Append(t, End)) = m
    BY <1>1, <1>2, <2>1, DepthEnd
  <2>5. Faithful(V, D, Append(t, End))
    BY QuietEnd
  <2> QED BY <2>1, <2>3, <2>4, <2>5
<1>4. CASE Kind(a) \in Several \cup {"50"}
  <2>1. Doubled(a, k) /\ Closer(a, k) = Two(End, End)
    BY <1>4, CloserIs
  <2> HIDE DEF p, o
  <2>2. Depth(t) = Added(Added(m, o), p)
    BY <1>2, <2>1 DEF Added
  <2> QED BY <1>1, <2>1, <2>2, TwoEnds
<1>5. CASE IsSwitch(a) /\ k # 1
  <2>1. k > 1
    BY <1>5
  <2>2. Doubled(a, k) /\ Closer(a, k) = Join(None, Two(End, End))
    BY <1>5, <2>1, CloserIs, SwitchBraces
  <2> HIDE DEF p, o
  <2>3. Depth(t) = Added(Added(m, o), p)
    BY <1>2, <2>2 DEF Added
  <2>4. End \in Pieces
    BY Pieced
  <2>5. Join(None, Two(End, End)) = Two(End, End)
    BY <2>4 DEF Join, None, Two
  <2> QED BY <1>1, <2>2, <2>3, <2>5, TwoEnds
<1>6. CASE IsSwitch(a) /\ k = 1
  <2> DEFINE q == SwitchBrace(a, 1)
             s == Append(t, q)
  <2>1. Closer(a, k) = Join(One(q), Two(End, End))
    BY <1>6, CloserIs
  <2>2. Frame(m, a, 1) = n
    <3>1. ~Doubled(a, 1)
      BY <1>6, SwitchBraces
    <3>2. InnerBrace(a, 1) = OuterBrace(a)
      BY <1>6, SwitchBraces
    <3>3. Frame(m, a, 1) = Append(m, InnerBrace(a, 1))
      BY <3>1, FrameIs
    <3> QED BY <3>2, <3>3
  <2>3. q \in Pieces /\ Opens(q)
    BY SwitchBraces
  <2> HIDE DEF q
  <2>4. s \in Seq(Pieces) /\ Faithful(V, D, s) /\ Depth(s) = Append(Depth(t), q)
    BY <2>3, QuietOpen
  <2>5. Depth(s) = Added(Added(m, o), q)
    BY <1>6, <2>2, <2>4 DEF Added
  <2> HIDE DEF s, p, o, n
  <2>6. LET u == Join(s, Two(End, End)) IN u \in Seq(Pieces) /\ Depth(u) = m /\ Faithful(V, D, u)
    BY <1>1, <2>3, <2>4, <2>5, TwoEnds
  <2>7. One(q) \in Seq(Pieces) /\ Join(t, One(q)) = s
    BY <2>3, OneTwo, Joins DEF One, s
  <2>8. Two(End, End) \in Seq(Pieces)
    BY Pieced, OneTwo DEF Two
  <2>9. One(q) \in Seq(Pieces)
    BY <2>7
  <2>10. Join(t, Join(One(q), Two(End, End))) = Join(Join(t, One(q)), Two(End, End))
    BY <2>8, <2>9, JoinJoin
  <2> QED BY <2>1, <2>6, <2>7, <2>10
<1> QED BY <1>3, <1>4, <1>5, <1>6

--------------------------------------------------------------------------------
(* The braces of the activations, each list's in those of the one around it.   *)
Stacked(c, m) ==
    /\ m[0] = <<>>
    /\ \A i \in 1 .. Len(c) :
         /\ m[i] \in Seq(Pieces) /\ m[i] = Frame(m[i - 1], c[i].at, c[i].part)
         /\ Below(m[i], c[i].at) /\ Agrees(c[i].at, c[i].part, m[i])

\* Constructs whose ops have code, one inside the other.
Coding(a) == a # 0 => HasCode(a) /\ Kind(a) # "sizeof a["
Rising(c) ==
    \A i \in 1 .. Len(c) : Coding(c[i].at) /\ \A j \in 1 .. Len(c) : j < i => c[j].at < c[i].at

\* The case groups whose label is written.
Divided(q, k) == IsSwitch(q) /\ HasCode(q) /\ IsCase(q, k)
Reached(c, q, k) == \A i \in 1 .. Len(c) : c[i].at = q => k < c[i].part
Done(V, c) == {g \in Nat \X Nat : g[1] \in V /\ Divided(g[1], g[2]) /\ Reached(c, g[1], g[2])}

Braced(c, t) == Rising(c) /\ \E m : Stacked(c, m) /\ Depth(t) = m[Len(c)]
NestAt(b, c, t) ==
    /\ Braced(c, t)
    /\ Faithful(Visited(b, Last(c)), Done(Visited(b, Last(c)), c), t)

\* Fewer activations, or the same at work elsewhere in their lists.
Alike(c, d, n) == \A i \in 1 .. n : d[i].at = c[i].at /\ d[i].part = c[i].part

LEMMA StackLess ==
    ASSUME NEW c \in Seq(Emits), NEW d \in Seq(Emits), NEW m, NEW n, NEW o, n = Len(c), o = Len(d),
           n \in Nat, o \in Nat, o <= n, Stacked(c, m), Alike(c, d, o)
    PROVE  Stacked(d, m)
<1>1. m[0] = <<>>
  BY DEF Stacked
<1>2. ASSUME NEW i \in 1 .. Len(d)
      PROVE  /\ m[i] \in Seq(Pieces) /\ m[i] = Frame(m[i - 1], d[i].at, d[i].part)
             /\ Below(m[i], d[i].at) /\ Agrees(d[i].at, d[i].part, m[i])
  <2>1. i \in 1 .. Len(c) /\ d[i].at = c[i].at /\ d[i].part = c[i].part
    BY DEF Alike
  <2>2. /\ m[i] \in Seq(Pieces) /\ m[i] = Frame(m[i - 1], c[i].at, c[i].part)
        /\ Below(m[i], c[i].at) /\ Agrees(c[i].at, c[i].part, m[i])
    BY <2>1 DEF Stacked
  <2> QED BY <2>1, <2>2
<1> QED BY <1>1, <1>2 DEF Stacked

\* The last of a stack.
LEMMA StackTop ==
    ASSUME NEW c \in Seq(Emits), NEW m, NEW n, n = Len(c), n \in Nat, n > 0, Stacked(c, m)
    PROVE  /\ m[n] \in Seq(Pieces) /\ m[n] = Frame(m[n - 1], c[n].at, c[n].part)
           /\ Below(m[n], c[n].at) /\ Agrees(c[n].at, c[n].part, m[n])
           /\ m[n - 1] \in Seq(Pieces)
<1>1. m[0] = <<>>
  BY DEF Stacked
<1>2. \A i \in 1 .. n :
        /\ m[i] \in Seq(Pieces) /\ m[i] = Frame(m[i - 1], c[i].at, c[i].part)
        /\ Below(m[i], c[i].at) /\ Agrees(c[i].at, c[i].part, m[i])
  BY DEF Stacked
<1>3. m[n - 1] \in Seq(Pieces)
  <2>1. CASE n = 1
    <3>1. m[0] \in Seq(Pieces)
      BY <1>1, NothingYet
    <3> QED BY <2>1, <3>1
  <2>2. CASE n # 1
    <3>1. n - 1 \in 1 .. n
      BY <2>2
    <3> QED BY <1>2, <3>1
  <2> QED BY <2>1, <2>2
<1>4. n \in 1 .. n
  OBVIOUS
<1> QED BY <1>2, <1>3, <1>4

\* One more activation.
LEMMA StackMore ==
    ASSUME NEW c \in Seq(Emits), NEW d \in Seq(Emits), NEW m, NEW n, n = Len(c), n \in Nat, Len(d) = n + 1, Stacked(c, m),
           Alike(c, d, n), NEW new, NEW at, NEW part, d[n + 1].at = at, d[n + 1].part = part,
           new = Frame(m[n], at, part), new \in Seq(Pieces), Below(new, at), Agrees(at, part, new)
    PROVE  \E r : Stacked(d, r) /\ r[Len(d)] = new
<1> DEFINE r == [i \in 0 .. n + 1 |-> IF i = n + 1 THEN new ELSE m[i]]
<1>1. r[n + 1] = new /\ \A i \in 0 .. n : r[i] = m[i]
  OBVIOUS
<1> HIDE DEF r
<1>2. r[0] = <<>>
  BY <1>1 DEF Stacked
<1>3. ASSUME NEW i \in 1 .. n + 1
      PROVE  /\ r[i] \in Seq(Pieces) /\ r[i] = Frame(r[i - 1], d[i].at, d[i].part)
             /\ Below(r[i], d[i].at) /\ Agrees(d[i].at, d[i].part, r[i])
  <2>1. CASE i = n + 1
    <3>1. r[i] = new /\ r[i - 1] = m[n] /\ d[i].at = at /\ d[i].part = part
      BY <1>1, <2>1
    <3> QED BY <3>1
  <2>2. CASE i # n + 1
    <3>1. i \in 1 .. Len(c) /\ d[i].at = c[i].at /\ d[i].part = c[i].part
      BY <2>2 DEF Alike
    <3>2. r[i] = m[i] /\ r[i - 1] = m[i - 1]
      BY <1>1, <2>2
    <3>3. /\ m[i] \in Seq(Pieces) /\ m[i] = Frame(m[i - 1], c[i].at, c[i].part)
          /\ Below(m[i], c[i].at) /\ Agrees(c[i].at, c[i].part, m[i])
      BY <3>1 DEF Stacked
    <3> QED BY <3>1, <3>2, <3>3
  <2> QED BY <2>1, <2>2
<1>4. Stacked(d, r)
  BY <1>2, <1>3 DEF Stacked
<1> QED BY <1>1, <1>4

\* The first activation.
LEMMA StackStart ==
    ASSUME Tree, NEW b \in Range(Program), NEW d \in Seq(Emits), Len(d) = 1, d[1].at = b, d[1].part = 1
    PROVE  \E r : Stacked(d, r) /\ r[Len(d)] = Frame(<<>>, b, 1)
<1> DEFINE new == Frame(<<>>, b, 1)
           r == [i \in 0 .. 1 |-> IF i = 1 THEN new ELSE <<>>]
<1>1. new \in Seq(Pieces) /\ Below(new, b) /\ Agrees(b, 1, new)
  BY AgreesRoot
<1>2. new = Frame(<<>>, b, 1)
  OBVIOUS
<1> HIDE DEF new
<1>3. r[1] = new /\ r[0] = <<>>
  OBVIOUS
<1> HIDE DEF r
<1>4. ASSUME NEW i \in 1 .. 1
      PROVE  /\ r[i] \in Seq(Pieces) /\ r[i] = Frame(r[i - 1], d[i].at, d[i].part)
             /\ Below(r[i], d[i].at) /\ Agrees(d[i].at, d[i].part, r[i])
  <2>1. i = 1 /\ i - 1 = 0
    OBVIOUS
  <2> QED BY <1>1, <1>2, <1>3, <2>1
<1>5. Stacked(d, r)
  BY <1>3, <1>4 DEF Stacked
<1> QED BY <1>2, <1>3, <1>5

--------------------------------------------------------------------------------
\* Ops that have code.
LEMMA CodingDown ==
    ASSUME Tree, NEW a, NEW k, NEW x \in Under(a, k), Coding(a)
    PROVE  HasCode(x)
<1> DEFINE kinds == {"sizeof a["}
<1>1. "main" \notin kinds
  OBVIOUS
<1>2. CASE a = 0
  BY <1>1, <1>2, EnclosedBy DEF HasCode
<1>3. CASE a # 0
  <2>1. ~Enclosed(a, kinds) /\ Kind(a) # "sizeof a["
    BY <1>3 DEF Coding, HasCode
  <2>2. Innermost(x).kind # "sizeof a["
    BY <1>3, <2>1, InnerKind
  <2>3. Innermost(x).kind \notin kinds
    BY <2>2
  <2>4. ~Enclosed(x, kinds)
    BY <1>1, <2>1, <2>3, EnclosedBy
  <2> QED BY <2>4 DEF HasCode
<1> QED BY <1>2, <1>3

IsSizeof(a) == Kind(a) = "sizeof a["

LEMMA NoCodeInside ==
    ASSUME Tree, NEW x \in DOMAIN ops, IsSizeof(x), NEW p \in 1 .. Here, Inside(x, p)
    PROVE  ~HasCode(p)
<1> DEFINE n == Len(Around(p))
<1>0. n \in Nat
  BY WithinFacts
<1>1. PICK i \in 1 .. n : Around(p)[i].at = x
  BY DEF Inside
<1>2. x # 0 /\ ops[x].kind = "sizeof a["
  BY Whole, KindText DEF IsSizeof
<1>3. Around(p)[1].at = 0 /\ x # 0
  BY <1>2, AroundOps
<1>4. i \in 2 .. n
  <2> HIDE DEF n
  <2> QED BY <1>0, <1>1, <1>3
<1>5. Became(Around(p)[i].kind, ops[x].kind)
  BY <1>1, <1>4, AroundOps
<1>6. Around(p)[i].kind = "sizeof a["
  BY <1>2, <1>5 DEF Became
<1>7. Around(p)[i].kind \in {"sizeof a["}
  BY <1>6
<1>8. Enclosed(p, {"sizeof a["})
  BY <1>1, <1>7, EnclosedRange
<1> QED BY <1>8 DEF HasCode

LEMMA RisingLess ==
    ASSUME NEW c \in Seq(Emits), NEW d \in Seq(Emits), NEW n, NEW o, n = Len(c), o = Len(d), n \in Nat, o \in Nat, o <= n,
           Rising(c), Alike(c, d, o)
    PROVE  Rising(d)
<1>1. \A i \in 1 .. n : Coding(c[i].at) /\ \A j \in 1 .. n : j < i => c[j].at < c[i].at
  BY DEF Rising
<1>2. \A i \in 1 .. o : d[i].at = c[i].at /\ i \in 1 .. n
  BY DEF Alike
<1>3. \A i \in 1 .. o : Coding(d[i].at) /\ \A j \in 1 .. o : j < i => d[j].at < d[i].at
  BY <1>1, <1>2
<1> QED BY <1>3 DEF Rising

LEMMA RisingMore ==
    ASSUME NEW c \in Seq(Emits), NEW d \in Seq(Emits), NEW n, n = Len(c), n \in Nat, n > 0, Len(d) = n + 1, Rising(c), Alike(c, d, n),
           \A i \in 1 .. n : c[i].at \in Nat,
           NEW x \in Nat, d[n + 1].at = x, c[n].at < x, Coding(x)
    PROVE  Rising(d)
<1>1. \A i \in 1 .. n : Coding(c[i].at) /\ \A j \in 1 .. n : j < i => c[j].at < c[i].at
  BY DEF Rising
<1>2. \A i \in 1 .. n : d[i].at = c[i].at /\ d[i].at < x
  <2>1. ASSUME NEW i \in 1 .. n PROVE c[i].at < x
    <3>1. n \in 1 .. n /\ (i = n \/ i < n)
      OBVIOUS
    <3>2. c[i].at \in Nat /\ c[n].at \in Nat
      BY <3>1
    <3> QED BY <1>1, <3>1, <3>2
  <2> QED BY <2>1 DEF Alike
<1>3. ASSUME NEW i \in 1 .. n + 1
      PROVE  Coding(d[i].at) /\ \A j \in 1 .. n + 1 : j < i => d[j].at < d[i].at
  <2>1. CASE i = n + 1
    <3>1. \A j \in 1 .. n + 1 : j < i => j \in 1 .. n
      BY <2>1
    <3> QED BY <1>2, <2>1, <3>1
  <2>2. CASE i # n + 1
    <3>1. i \in 1 .. n /\ \A j \in 1 .. n + 1 : j < i => j \in 1 .. n
      BY <2>2
    <3> QED BY <1>1, <1>2, <3>1
  <2> QED BY <2>1, <2>2
<1> QED BY <1>3 DEF Rising

LEMMA RisingStart ==
    ASSUME NEW d \in Seq(Emits), Len(d) = 1, NEW b, d[1].at = b, Coding(b)
    PROVE  Rising(d)
<1>1. \A i \in 1 .. 1 : i = 1 /\ \A j \in 1 .. 1 : ~(j < i)
  OBVIOUS
<1> QED BY <1>1 DEF Rising

LEMMA BodyCoding ==
    ASSUME Tree, NEW b \in Range(Program)
    PROVE  Coding(b)
<1>1. CASE b = 0
  BY <1>1 DEF Coding
<1>2. CASE b # 0
  <2>1. b \in DOMAIN ops /\ ops[b].kind = "/1" /\ Len(Around(b)) = 1 /\ b \in 1 .. Here
    BY <1>2, Programs
  <2>2. Kind(b) = "/1"
    BY <2>1, KindText
  <2>3. Around(b)[1].kind = "main"
    BY <2>1, AroundOps
  <2>4. \A i \in 1 .. Len(Around(b)) : Around(b)[i].kind \notin {"sizeof a["}
    <3>1. \A i \in 1 .. 1 : i = 1
      OBVIOUS
    <3>2. \A i \in 1 .. Len(Around(b)) : i = 1
      BY <2>1, <3>1, Zenon
    <3>3. Around(b)[1].kind \notin {"sizeof a["}
      BY <2>3
    <3> QED BY <3>2, <3>3, Zenon
  <2>5. ~Enclosed(b, {"sizeof a["})
    BY <2>1, <2>4, EnclosedRange
  <2> QED BY <2>2, <2>5 DEF Coding, HasCode
<1> QED BY <1>1, <1>2

--------------------------------------------------------------------------------
\* The groups whose label is written, step by step.
LEMMA DoneIs ==
    ASSUME NEW V, NEW c \in Seq(Emits), NEW q, NEW k
    PROVE  <<q, k>> \in Done(V, c) <=>
             q \in Nat /\ k \in Nat /\ q \in V /\ Divided(q, k) /\ Reached(c, q, k)
BY DEF Done

LEMMA DoneEqual ==
    ASSUME NEW V, NEW c \in Seq(Emits), NEW W, NEW d,
           \A q, k \in Nat : q \in V /\ Divided(q, k) /\ Reached(c, q, k)
                               <=> q \in W /\ Divided(q, k) /\ Reached(d, q, k)
    PROVE  Done(V, c) = Done(W, d)
BY DEF Done

LEMMA ReachedSame ==
    ASSUME NEW c \in Seq(Emits), NEW d \in Seq(Emits), NEW n, n = Len(c), n = Len(d), Alike(c, d, n), NEW q, NEW k
    PROVE  Reached(d, q, k) <=> Reached(c, q, k)
BY DEF Reached, Alike

\* Past ops that start no group.
LEMMA DoneWider ==
    ASSUME NEW V, NEW W, NEW c \in Seq(Emits), NEW d \in Seq(Emits), NEW n, n = Len(c), n = Len(d), Alike(c, d, n),
           V \subseteq W, \A x \in W \ V : \A k : ~Divided(x, k)
    PROVE  Done(W, d) = Done(V, c)
<1>1. ASSUME NEW q \in Nat, NEW k \in Nat
      PROVE  q \in W /\ Divided(q, k) /\ Reached(d, q, k)
               <=> q \in V /\ Divided(q, k) /\ Reached(c, q, k)
  <2>1. Reached(d, q, k) <=> Reached(c, q, k)
    BY ReachedSame
  <2>2. Divided(q, k) => (q \in W <=> q \in V)
    OBVIOUS
  <2> QED BY <2>1, <2>2
<1> QED BY <1>1, DoneEqual

\* Ops without op lists are statements.
LEMMA LeafOp ==
    ASSUME Tree, NEW x \in DOMAIN ops
    PROVE  /\ ops[x].subs = <<>> => /\ text[x] \in Plain \cup {"/1"} /\ Kind(x) = text[x]
                                    /\ ~IsSwitch(x)
           /\ ops[x].subs # <<>> /\ x \notin Definitions => text[x] \notin Plain \cup {"/1"}
<1>1. Became(text[x], ops[x].kind) /\ (ops[x].subs = <<>> <=> Childless(x))
  BY Whole DEF Tree, PInv, KindsKept
<1>2. Kind(x) = ops[x].kind
  BY KindText
<1>3. ASSUME Childless(x)
      PROVE  text[x] \in Plain \cup {"/1"} /\ Kind(x) = text[x] /\ ~IsSwitch(x)
  <2>1. text[x] \in Plain \cup {"/1"}
    BY <1>3 DEF Childless
  <2>2. text[x] \notin {"a[", "switch", "switch {"}
    BY <2>1 DEF Plain
  <2>3. Kind(x) = text[x]
    BY <1>1, <1>2, <2>2, Zenon DEF Became
  <2> QED BY <2>1, <2>2, <2>3, Zenon DEF IsSwitch
<1>4. ASSUME ~Childless(x), x \notin Definitions
      PROVE  text[x] \notin Plain \cup {"/1"}
  BY <1>4 DEF Childless
<1> QED BY <1>1, <1>3, <1>4

LEMMA CaseAt ==
    ASSUME Tree, NEW q, NEW k, Divided(q, k)
    PROVE  k \in Nat /\ k >= 1 /\ q \in Nat /\ k < Len(Subs(q))
<1>1. IsCase(q, k) /\ IsSwitch(q)
  BY DEF Divided
<1>2. k \in Nat /\ k >= 1 /\ q \in Nat
  BY <1>1, CasePiece
<1>3. q \in Nodes /\ q # 0 /\ k \in DOMAIN ops[q].labels /\ q \in DOMAIN ops
  BY <1>1, Whole DEF IsCase, Nodes
<1>4. ops[q].subs # <<>> /\ Subs(q) = ops[q].subs
  BY <1>1, <1>3, LeafOp, KindText
<1>5. ops[q].labels \in Seq(Labels) /\ Len(Subs(q)) = Len(ops[q].labels) + 1
  BY <1>1, <1>3, <1>4, NodeKinds DEF IsSwitch
<1>6. k <= Len(ops[q].labels) /\ Len(ops[q].labels) \in Nat
  BY <1>3, <1>5
<1> QED BY <1>2, <1>5, <1>6

\* An op is entered.
LEMMA DoneEnter ==
    ASSUME Tree, NEW V, NEW c \in Seq(Emits), NEW d \in Seq(Emits), NEW n, n = Len(c), n \in Nat, Len(d) = n + 1, Alike(c, d, n),
           NEW x, x \notin V, d[n + 1].at = x, d[n + 1].part = 1
    PROVE  Done(V \cup {x}, d) = Done(V, c)
<1>1. ASSUME NEW q \in Nat, NEW k \in Nat
      PROVE  q \in V \cup {x} /\ Divided(q, k) /\ Reached(d, q, k)
               <=> q \in V /\ Divided(q, k) /\ Reached(c, q, k)
  <2>1. n + 1 \in 1 .. n + 1 /\ \A i \in 1 .. n : i \in 1 .. n + 1
    OBVIOUS
  <2>2. ASSUME q = x, Divided(q, k) PROVE ~Reached(d, q, k)
    <3>1. k >= 1
      BY <2>2, CaseAt
    <3>2. ~(k < d[n + 1].part)
      BY <3>1
    <3> QED BY <2>1, <2>2, <3>2 DEF Reached
  <2>3. ASSUME q # x PROVE Reached(d, q, k) <=> Reached(c, q, k)
    <3>1. \A i \in 1 .. n + 1 : d[i].at = q => i \in 1 .. n
      BY <2>3
    <3> QED BY <2>1, <3>1 DEF Reached, Alike
  <2> QED BY <2>2, <2>3
<1> QED BY <1>1, DoneEqual

\* A construct is done.
LEMMA DonePop ==
    ASSUME Tree, NEW V, NEW c \in Seq(Emits), NEW d \in Seq(Emits), NEW n, n = Len(c), n \in Nat, n > 0, Len(d) = n - 1,
           Alike(c, d, n - 1), c[n].part = Len(Subs(c[n].at))
    PROVE  Done(V, d) = Done(V, c)
<1>1. n \in 1 .. n /\ \A i \in 1 .. n : i = n \/ i \in 1 .. n - 1
  OBVIOUS
<1>2. ASSUME NEW q \in Nat, NEW k \in Nat, Divided(q, k)
      PROVE  Reached(d, q, k) <=> Reached(c, q, k)
  <2>1. c[n].at = q => k < c[n].part
    BY <1>2, CaseAt
  <2>2. \A i \in 1 .. n - 1 : d[i].at = c[i].at /\ d[i].part = c[i].part /\ i \in 1 .. n
    BY DEF Alike
  <2> QED BY <1>1, <2>1, <2>2 DEF Reached
<1>3. \A q, k \in Nat : q \in V /\ Divided(q, k) /\ Reached(d, q, k)
                          <=> q \in V /\ Divided(q, k) /\ Reached(c, q, k)
  BY <1>2
<1> QED BY <1>3, DoneEqual

--------------------------------------------------------------------------------
\* What a text says, with the activations that make it.
LEMMA NestFacts ==
    ASSUME Tree, NEW b \in Range(Program), NEW c \in Seq(Emits), c # <<>>, Chain(b, c),
           NEW t, NestAt(b, c, t), NEW n, n = Len(c), NEW f, f = Last(c)
    PROVE  /\ n \in Nat /\ n > 0 /\ f = c[n] /\ f \in Emits /\ AtWork(b, f)
           /\ \A i \in 1 .. n : c[i].at \in Nat
           /\ Rising(c) /\ Coding(f.at) /\ f.at \in Nat /\ f.at \in Home(b)
           /\ Faithful(Visited(b, f), Done(Visited(b, f), c), t)
           /\ Depth(t) \in Seq(Pieces) /\ Below(Depth(t), f.at) /\ Agrees(f.at, f.part, Depth(t))
<1>1. n \in Nat /\ n > 0 /\ f = c[n] /\ f \in Emits
  <2>1. /\ Len(c) \in Nat /\ Len(c) > 0 /\ Last(c) = c[Len(c)]
    BY Ended
  <2> QED BY <2>1
<1>2. \A i \in 1 .. n : AtWork(b, c[i])
  BY DEF Chain
<1>3. \A i \in 1 .. n : c[i].at \in Nat
  BY <1>2, WorkFacts
<1>4. n \in 1 .. n
  BY <1>1
<1>5. AtWork(b, f) /\ f.at \in Nat /\ f.at \in Home(b)
  <2>1. AtWork(b, f)
    BY <1>1, <1>2, <1>4
  <2> QED BY <2>1, WorkFacts DEF AtWork
<1>6. Rising(c) /\ Faithful(Visited(b, f), Done(Visited(b, f), c), t)
  BY DEF NestAt, Braced
<1>7. Coding(f.at)
  BY <1>1, <1>4, <1>6 DEF Rising
<1>8. PICK m : Stacked(c, m) /\ Depth(t) = m[n]
  BY DEF NestAt, Braced
<1>9. m[n] \in Seq(Pieces) /\ Below(m[n], c[n].at) /\ Agrees(c[n].at, c[n].part, m[n])
  BY <1>1, <1>8, StackTop
<1> QED BY <1>1, <1>3, <1>5, <1>6, <1>7, <1>8, <1>9

\* An item of the list at work.
LEMMA NestItem ==
    ASSUME Tree, NEW b \in Range(Program), NEW c \in Seq(Emits), c # <<>>, Chain(b, c),
           NEW t, NestAt(b, c, t), NEW f, f = Last(c), f.next <= Len(List(f)),
           NEW x, x = List(f)[f.next]
    PROVE  /\ x \in Under(f.at, f.part) /\ x \in OpsOf(b) /\ x \in DOMAIN ops /\ x \in Nat /\ f.at < x
           /\ x \notin Definitions /\ HasCode(x) /\ Fit(Depth(t), x)
           /\ x \notin Visited(b, f) /\ \A y \in Visited(b, f) : y < x
<1>1. /\ AtWork(b, f) /\ Coding(f.at) /\ Agrees(f.at, f.part, Depth(t))
  BY NestFacts
<1>2. x \in Under(f.at, f.part) /\ x \in OpsOf(b) /\ x \in DOMAIN ops /\ x \in Nat
      /\ x \notin Visited(b, f)
  BY <1>1, NotYet
<1>3. f.at < x /\ x \notin Definitions
  BY <1>2, Child
<1>4. HasCode(x)
  BY <1>1, <1>2, CodingDown
<1>5. Fit(Depth(t), x)
  BY <1>1, <1>2 DEF Agrees, Fit
<1>6. \A y \in Visited(b, f) : y < x
  BY <1>1, PastItem DEF Visited
<1> QED BY <1>2, <1>3, <1>4, <1>5, <1>6

--------------------------------------------------------------------------------
Stmt(x) == Piece("stmt", Kind(x), x, 0)

LEMMA StmtIs ==
    ASSUME Tree, NEW x \in DOMAIN ops, ops[x].subs = <<>>
    PROVE  /\ Opener(x) = One(Stmt(x)) /\ Stmt(x) \in Pieces
           /\ Stmt(x).c = "stmt" /\ Stmt(x).at = x /\ Stmt(x).kind = text[x]
<1>1. text[x] \in Plain \cup {"/1"} /\ Kind(x) = text[x]
  BY LeafOp
<1>2. Kind(x) \notin {"30", "(", "50", "20", "a[", "a=", "int a=", "switch {", "sizeof a["}
  BY <1>1 DEF Plain
<1>3. Opener(x) = One(Stmt(x))
  BY <1>2, Zenon DEF Opener, One, Stmt
<1>4. Kind(x) \in Sorts /\ x \in Nat
  <2>1. x \in Nodes
    BY DEF Nodes
  <2> QED BY <2>1, NodeKinds
<1>5. Stmt(x) \in Pieces
  <2>1. "stmt" \in Signs /\ 0 \in Nat
    BY DEF Signs
  <2> QED BY <1>4, <2>1, Pieced DEF Stmt
<1> QED BY <1>1, <1>3, <1>5 DEF Stmt, Piece

LEMMA SizeofIs ==
    ASSUME Tree, NEW x \in DOMAIN ops, IsSizeof(x)
    PROVE  Opener(x) = None /\ text[x] \notin Plain \cup {"/1"} /\ ~IsSwitch(x)
<1>1. Kind(x) = "sizeof a[" /\ ops[x].kind = "sizeof a["
  BY KindText DEF IsSizeof
<1>2. Opener(x) = None
  BY <1>1, Zenon DEF Opener, None
<1>3. Became(text[x], ops[x].kind)
  BY KindText
<1>4. text[x] = "sizeof a["
  BY <1>1, <1>3 DEF Became
<1>5. text[x] \notin Plain \cup {"/1"}
  BY <1>4 DEF Plain
<1>6. ~IsSwitch(x)
  BY <1>1, Zenon DEF IsSwitch
<1> QED BY <1>2, <1>5, <1>6

\* The stack goes on as it is.
LEMMA NestSame ==
    ASSUME NEW b, NEW c \in Seq(Emits), NEW t, NestAt(b, c, t), NEW n, n = Len(c), n \in Nat,
           NEW d \in Seq(Emits), n = Len(d), Alike(c, d, n), NEW r, Depth(r) = Depth(t)
    PROVE  Braced(d, r)
<1>0. n <= n
  OBVIOUS
<1>1. Rising(c)
  BY DEF NestAt, Braced
<1>2. Rising(d)
  BY <1>0, <1>1, RisingLess
<1>3. PICK m : Stacked(c, m) /\ Depth(t) = m[n]
  BY DEF NestAt, Braced
<1>4. Stacked(d, m)
  BY <1>0, <1>3, StackLess
<1> QED BY <1>2, <1>3, <1>4 DEF Braced

\* Over a statement.
LEMMA NestLeaf ==
    ASSUME Tree, NEW b \in Range(Program), NEW c \in Seq(Emits), c # <<>>, Chain(b, c),
           NEW t \in Seq(Pieces), NestAt(b, c, t), NEW f, f = Last(c), f.next <= Len(List(f)),
           NEW x, x = List(f)[f.next], ops[x].subs = <<>>,
           NEW n, n = Len(c), NEW d \in Seq(Emits), n = Len(d), Alike(c, d, n),
           NEW g, g = Last(d), g.at = f.at, g.part = f.part, g.next = f.next + 1
    PROVE  NestAt(b, d, Join(t, Opener(x)))
<1> DEFINE p == Stmt(x)
           r == Join(t, Opener(x))
           V == Visited(b, f)
<1>1. /\ n \in Nat /\ AtWork(b, f) /\ Faithful(V, Done(V, c), t)
  BY NestFacts
<1>2. x \in DOMAIN ops /\ HasCode(x) /\ Fit(Depth(t), x) /\ \A y \in V : y < x
  BY NestItem
<1>3. /\ Opener(x) = One(p) /\ p \in Pieces
      /\ p.c = "stmt" /\ p.at = x /\ p.kind = text[x]
  BY <1>2, StmtIs
<1>4. text[x] \in Plain \cup {"/1"} /\ ~IsSwitch(x)
  BY <1>2, LeafOp
<1>5. Carried(x)
  BY <1>2, <1>4 DEF Carried
<1>6. Visited(b, g) = V \cup {x}
  BY <1>1, VisitOver, SMTT(30)
<1> HIDE DEF p, V
<1>7. r = Append(t, p)
  BY <1>3, Joins DEF One
<1>8. Faithful(V \cup {x}, Done(V, c), Append(t, p))
  BY <1>1, <1>2, <1>3, <1>5, FaithfulStmt
<1>9. \A y \in (V \cup {x}) \ V : \A k : ~Divided(y, k)
  BY <1>4 DEF Divided
<1>10. Done(V \cup {x}, d) = Done(V, c)
  <2> DEFINE W == V \cup {x}
  <2>1. V \subseteq W /\ \A y \in W \ V : \A k : ~Divided(y, k)
    BY <1>9
  <2> HIDE DEF W
  <2>2. Done(W, d) = Done(V, c)
    BY <2>1, DoneWider, ZenonT(60)
  <2> QED BY <2>2 DEF W
<1>11. Depth(Append(t, p)) = Depth(t)
  <2>1. Depth(Append(t, p)) = Reading(Depth(t), p)
    BY <1>3, DepthFacts
  <2> QED BY <1>3, <2>1, ReadingIs
<1> HIDE DEF r
<1>12. Depth(r) = Depth(t)
  BY <1>7, <1>11
<1>13. Braced(d, r)
  BY <1>1, <1>12, NestSame
<1>14. Faithful(Visited(b, g), Done(Visited(b, g), d), r)
  BY <1>6, <1>7, <1>8, <1>10
<1>15. NestAt(b, d, r)
  BY <1>13, <1>14 DEF NestAt
<1> QED BY <1>15 DEF r

\* Over the operand of sizeof, which has no code.
LEMMA NestSizeof ==
    ASSUME Tree, NEW b \in Range(Program), NEW c \in Seq(Emits), c # <<>>, Chain(b, c),
           NEW t \in Seq(Pieces), NestAt(b, c, t), NEW f, f = Last(c), f.next <= Len(List(f)),
           NEW x, x = List(f)[f.next], IsSizeof(x),
           NEW n, n = Len(c), NEW d \in Seq(Emits), n = Len(d), Alike(c, d, n),
           NEW g, g = Last(d), g.at = f.at, g.part = f.part, g.next = f.next + 1
    PROVE  NestAt(b, d, Join(t, Opener(x)))
<1> DEFINE r == Join(t, Opener(x))
           V == Visited(b, f)
           W == Visited(b, g)
<1>1. /\ n \in Nat /\ AtWork(b, f) /\ Faithful(V, Done(V, c), t)
  BY NestFacts
<1>2. x \in DOMAIN ops /\ HasCode(x) /\ \A y \in V : y < x
  BY NestItem
<1>3. Opener(x) = None /\ text[x] \notin Plain \cup {"/1"} /\ ~IsSwitch(x)
  BY <1>2, SizeofIs
<1>4. AtWork(b, g) /\ g.next > 1 /\ List(g)[g.next - 1] = x
  BY <1>1, VisitOver
<1>5. \A p \in OpsOf(b) : (p \in V <=> p < x) /\ (p \in W <=> p <= x \/ Inside(x, p))
  <2>1. \A p \in OpsOf(b) : Past(f, p) <=> p < x
    BY <1>1, PastItem
  <2>2. \A p \in OpsOf(b) : Past(g, p) <=> p <= x \/ Inside(x, p)
    BY <1>4, PastAfter
  <2> QED BY <2>1, <2>2 DEF Visited
<1>6. \A p \in OpsOf(b) : p \in Nat /\ p \in 1 .. Here
  BY InBody, Whole
<1>7. x \in Nat
  BY NestItem
<1>8. V \subseteq OpsOf(b) /\ W \subseteq OpsOf(b)
  BY DEF Visited
<1>9. ASSUME NEW p \in W \ V PROVE ~Carried(p) /\ \A k : ~Divided(p, k)
  <2>1. p \in OpsOf(b) /\ (p = x \/ Inside(x, p))
    BY <1>5, <1>6, <1>7, <1>8
  <2>2. CASE p = x
    BY <1>3, <2>2 DEF Carried, Divided
  <2>3. CASE Inside(x, p)
    <3>1. ~HasCode(p)
      BY <1>2, <1>6, <2>1, <2>3, NoCodeInside
    <3> QED BY <3>1 DEF Carried, Divided
  <2> QED BY <2>1, <2>2, <2>3
<1>10. V \subseteq W
  BY <1>5, <1>6, <1>7, <1>8
<1> HIDE DEF V
<1>11. r = t
  BY <1>3, JoinNone
<1>12. Done(W, d) = Done(V, c)
  BY <1>9, <1>10, DoneWider, ZenonT(60)
<1>13. Faithful(W, Done(V, c), t)
  BY <1>1, <1>9, <1>10, FaithfulWider
<1> HIDE DEF r
<1>14. Braced(d, r)
  BY <1>1, <1>11, NestSame
<1>15. NestAt(b, d, r)
  BY <1>11, <1>12, <1>13, <1>14 DEF NestAt
<1> QED BY <1>15 DEF r

--------------------------------------------------------------------------------
Entered(x) == Kind(x) \in (Single \ {"main", "/1"}) \cup Several \cup {"switch {"}

LEMMA EnteredIs ==
    ASSUME Tree, NoSwitch, NEW x \in DOMAIN ops, x \notin Definitions, ops[x].subs # <<>>, ~IsSizeof(x)
    PROVE  Entered(x) /\ text[x] \notin Plain \cup {"/1"}
<1>1. Subs(x) # <<>> /\ x \in Nodes /\ Kind(x) = ops[x].kind /\ Became(text[x], ops[x].kind)
  BY KindText DEF Nodes
<1>2. Kind(x) \in Single \cup Several \cup {"switch {", "sizeof a["}
  BY <1>1, KindShape
<1>3. text[x] \notin Plain \cup {"/1"}
  BY LeafOp
<1>4. ~Childless(x) /\ x \in Starts
  BY Whole DEF Tree, PInv, KindsKept
<1>5. text[x] \in Opening
  BY <1>4 DEF Childless, Starts
<1>6. text[x] # "main" /\ text[x] # "/1"
  BY <1>3, <1>5 DEF Opening, Bodies, Values, Objects
<1>7. Kind(x) # "main" /\ Kind(x) # "/1"
  BY <1>1, <1>6, Zenon DEF Became
<1>8. Kind(x) # "sizeof a["
  BY DEF IsSizeof
<1> DEFINE k == Kind(x)
<1> HIDE DEF k
<1>9. k \in (Single \ {"main", "/1"}) \cup Several \cup {"switch {"}
  BY <1>2, <1>7, <1>8, Zenon DEF k
<1> QED BY <1>3, <1>9 DEF Entered, k

\* What is there when an op is entered.
LEMMA FrameDown ==
    ASSUME Tree, NEW b \in Range(Program), NEW a \in Home(b), NEW k, NEW x \in Under(a, k),
           NEW m \in Seq(Pieces), Below(m, a), Agrees(a, k, m), NEW new, new = Frame(m, x, 1)
    PROVE  Agrees(x, 1, new)
<1>1. 1 \in Nat
  OBVIOUS
<1> QED BY <1>1, AgreesDown

LEMMA EnterDone ==
    ASSUME Tree, NEW V, NEW c \in Seq(Emits), NEW d \in Seq(Emits), NEW n, n = Len(c), n \in Nat, n + 1 = Len(d), Alike(c, d, n),
           NEW x, x \notin V, NEW g, g = d[n + 1], g.at = x, g.part = 1, NEW W, W = V \cup {x}
    PROVE  Done(W, d) = Done(V, c)
<1>1. Len(d) = n + 1 /\ d[n + 1].at = x /\ d[n + 1].part = 1
  OBVIOUS
<1> QED BY <1>1, DoneEnter

LEMMA StackEnter ==
    ASSUME NEW c \in Seq(Emits), NEW d \in Seq(Emits), NEW m, NEW n, n = Len(c), n \in Nat, n + 1 = Len(d), Stacked(c, m),
           Alike(c, d, n), NEW g, g = d[n + 1], NEW x, g.at = x, g.part = 1,
           NEW new, new = Frame(m[n], x, 1), new \in Seq(Pieces), Below(new, x), Agrees(x, 1, new)
    PROVE  \E r : Stacked(d, r) /\ r[Len(d)] = new
<1>1. Len(d) = n + 1 /\ d[n + 1].at = x /\ d[n + 1].part = 1
  OBVIOUS
<1> QED BY <1>1, StackMore

LEMMA StackDown ==
    ASSUME Tree, NEW b \in Range(Program), NEW c \in Seq(Emits), NEW d \in Seq(Emits), NEW n, n = Len(c), n \in Nat,
           n + 1 = Len(d), Alike(c, d, n), NEW m \in Seq(Pieces), NEW s, Stacked(c, s), m = s[n],
           NEW a \in Home(b), NEW k, Below(m, a), Agrees(a, k, m),
           NEW x \in Under(a, k), NEW g, g = d[n + 1], g.at = x, g.part = 1,
           NEW new, new = Frame(m, x, 1)
    PROVE  \E u : Stacked(d, u) /\ u[Len(d)] = new
<1>1. 1 \in Nat
  OBVIOUS
<1>2. new \in Seq(Pieces)
  BY <1>1, AgreesDown
<1>3. Below(new, x)
  BY <1>1, AgreesDown
<1>4. Agrees(x, 1, new)
  BY FrameDown
<1>6. new = Frame(s[n], x, 1)
  OBVIOUS
<1> QED BY <1>2, <1>3, <1>4, <1>6, StackEnter

LEMMA RisingEnter ==
    ASSUME NEW c \in Seq(Emits), NEW d \in Seq(Emits), NEW n, n = Len(c), n \in Nat, n > 0,
           n + 1 = Len(d), Alike(c, d, n), Rising(c), \A i \in 1 .. n : c[i].at \in Nat,
           NEW a, c[n].at = a, NEW x \in Nat, a < x, Coding(x), NEW g, g = d[n + 1], g.at = x
    PROVE  Rising(d)
<1>1. Len(d) = n + 1 /\ d[n + 1].at = x /\ c[n].at < x
  OBVIOUS
<1> QED BY <1>1, RisingMore

LEMMA BracedEnter ==
    ASSUME Tree, NEW b \in Range(Program), NEW c \in Seq(Emits), NEW d \in Seq(Emits), NEW n, n = Len(c), n \in Nat,
           n + 1 = Len(d), Alike(c, d, n), NEW t, Braced(c, t), Depth(t) \in Seq(Pieces),
           NEW a \in Home(b), NEW k, Below(Depth(t), a), Agrees(a, k, Depth(t)),
           NEW x \in Under(a, k), NEW g, g = d[n + 1], g.at = x, g.part = 1, Rising(d),
           NEW r, Depth(r) = Frame(Depth(t), x, 1)
    PROVE  Braced(d, r)
<1> DEFINE m == Depth(t)
           new == Depth(r)
<1> HIDE DEF m, new
<1>1. m \in Seq(Pieces) /\ Below(m, a) /\ Agrees(a, k, m) /\ new = Frame(m, x, 1)
  BY DEF m, new
<1>5. PICK s : Stacked(c, s) /\ m = s[n]
  BY DEF Braced, m
<1>7. \E u : Stacked(d, u) /\ u[Len(d)] = new
  BY <1>1, <1>5, StackDown, SMTT(60)
<1> QED BY <1>7 DEF Braced, new

\* Down into an op.
LEMMA FaithfulEnter ==
    ASSUME Tree, NEW V, NEW c \in Seq(Emits), NEW d \in Seq(Emits), NEW n, n = Len(c), n \in Nat, n + 1 = Len(d), Alike(c, d, n),
           NEW x, x \notin V, NEW g, g = d[n + 1], g.at = x, g.part = 1, NEW W, W = V \cup {x},
           ~Carried(x), NEW r, Faithful(V, Done(V, c), r)
    PROVE  Faithful(W, Done(W, d), r)
<1>1. Done(W, d) = Done(V, c)
  BY EnterDone
<1>2. V \subseteq W /\ \A y \in W \ V : ~Carried(y)
  OBVIOUS
<1>3. Faithful(W, Done(V, c), r)
  BY <1>2, FaithfulWider
<1> QED BY <1>1, <1>3

LEMMA OpenFrame ==
    ASSUME NEW x \in Nat, NEW t \in Seq(Pieces), Entered(x), NEW r, r = Join(t, Opener(x)),
           NEW V, NEW D, Faithful(V, D, t)
    PROVE  Depth(r) = Frame(Depth(t), x, 1) /\ Faithful(V, D, r)
<1>1. r = Frame(t, x, 1)
  BY OpenerIs DEF Entered
<1>2. 1 \in Nat
  OBVIOUS
<1> QED BY <1>1, <1>2, DepthFrame, FaithfulFrame

LEMMA NestEnter ==
    ASSUME Tree, NoSwitch, NEW b \in Range(Program), NEW c \in Seq(Emits), c # <<>>, Chain(b, c),
           NEW t \in Seq(Pieces), NestAt(b, c, t), NEW f, f = Last(c), f.next <= Len(List(f)),
           NEW x, x = List(f)[f.next], ops[x].subs # <<>>, ~IsSizeof(x),
           NEW n, n = Len(c), NEW d \in Seq(Emits), n + 1 = Len(d), Alike(c, d, n),
           NEW g, g = d[n + 1], g = Last(d), g.at = x, g.part = 1, g.next = 1
    PROVE  NestAt(b, d, Join(t, Opener(x)))
<1> DEFINE r == Join(t, Opener(x))
           V == Visited(b, f)
           W == Visited(b, g)
<1>1. /\ n \in Nat /\ n > 0 /\ f = c[n] /\ AtWork(b, f) /\ Faithful(V, Done(V, c), t)
      /\ \A i \in 1 .. n : c[i].at \in Nat
      /\ Rising(c) /\ f.at \in Nat /\ f.at \in Home(b)
      /\ Depth(t) \in Seq(Pieces) /\ Below(Depth(t), f.at) /\ Agrees(f.at, f.part, Depth(t))
  BY NestFacts
<1>2. /\ x \in DOMAIN ops /\ HasCode(x) /\ x \notin V /\ x \in Nat /\ f.at < x
      /\ x \in Under(f.at, f.part) /\ x \notin Definitions
  BY NestItem
<1>3. Entered(x) /\ text[x] \notin Plain \cup {"/1"}
  BY <1>2, EnteredIs
<1>4. ~Carried(x)
  BY <1>3 DEF Carried
<1>5. W = V \cup {x}
  <2>1. AtWork(b, f)
    BY <1>1
  <2> QED BY <2>1, VisitDown, SMTT(30)
<1>6. Coding(x)
  BY <1>2 DEF Coding, IsSizeof
<1>7. Rising(d)
  BY <1>1, <1>2, <1>6, RisingEnter
<1>8. Depth(r) = Frame(Depth(t), x, 1) /\ Faithful(V, Done(V, c), r)
  BY <1>1, <1>2, <1>3, OpenFrame
<1>9. Braced(c, t)
  BY DEF NestAt
<1> HIDE DEF r, V, W
<1>10. Braced(d, r)
  BY <1>1, <1>2, <1>7, <1>8, <1>9, BracedEnter
<1>11. Faithful(W, Done(W, d), r)
  BY <1>1, <1>2, <1>4, <1>5, <1>8, FaithfulEnter
<1>12. Faithful(Visited(b, Last(d)), Done(Visited(b, Last(d)), d), r)
  BY <1>11 DEF W
<1> QED BY <1>10, <1>12 DEF NestAt, r

--------------------------------------------------------------------------------
\* The last activation comes to another list of its construct.
Turned(c, d, n, a, k, l) ==
    /\ n = Len(c) /\ n > 0 /\ n = Len(d) /\ Alike(c, d, n - 1)
    /\ c[n].at = a /\ c[n].part = k /\ d[n].at = a /\ d[n].part = l
Base(m, n) == m[n - 1]
Held(m, a, l) == m \in Seq(Pieces) /\ Below(m, a) /\ Agrees(a, l, m)

LEMMA BracedOn ==
    ASSUME NEW c \in Seq(Emits), NEW d \in Seq(Emits), NEW n \in Nat, NEW at, NEW k, NEW part, Turned(c, d, n, at, k, part),
           NEW m, Stacked(c, m), NEW new, new = Frame(Base(m, n), at, part), Held(new, at, part),
           Rising(d), NEW t, Depth(t) = new
    PROVE  Braced(d, t)
<1>0. /\ n = Len(c) /\ n > 0 /\ n = Len(d) /\ Alike(c, d, n - 1)
      /\ c[n].at = at /\ c[n].part = k /\ d[n].at = at /\ d[n].part = part
  BY DEF Turned
<1>6. new = Frame(m[n - 1], at, part) /\ new \in Seq(Pieces) /\ Below(new, at) /\ Agrees(at, part, new)
  BY DEF Base, Held
<1> DEFINE q == [i \in 0 .. n |-> IF i = n THEN new ELSE m[i]]
<1>1. q[n] = new /\ \A i \in 0 .. n - 1 : q[i] = m[i]
  BY <1>0
<1> HIDE DEF q
<1>2. q[0] = <<>>
  BY <1>0, <1>1 DEF Stacked
<1>3. ASSUME NEW i \in 1 .. n
      PROVE  /\ q[i] \in Seq(Pieces) /\ q[i] = Frame(q[i - 1], d[i].at, d[i].part)
             /\ Below(q[i], d[i].at) /\ Agrees(d[i].at, d[i].part, q[i])
  <2>1. CASE i = n
    <3>1. q[i] = new /\ q[i - 1] = m[n - 1] /\ d[i].at = at /\ d[i].part = part
      BY <1>0, <1>1, <2>1
    <3> QED BY <1>6, <3>1
  <2>2. CASE i # n
    <3>1. i \in 1 .. Len(c) /\ d[i].at = c[i].at /\ d[i].part = c[i].part
      BY <1>0, <2>2 DEF Alike
    <3>2. q[i] = m[i] /\ q[i - 1] = m[i - 1]
      BY <1>0, <1>1, <2>2
    <3>3. /\ m[i] \in Seq(Pieces) /\ m[i] = Frame(m[i - 1], c[i].at, c[i].part)
          /\ Below(m[i], c[i].at) /\ Agrees(c[i].at, c[i].part, m[i])
      BY <3>1 DEF Stacked
    <3> QED BY <3>1, <3>2, <3>3
  <2> QED BY <2>1, <2>2
<1>4. Stacked(d, q)
  BY <1>0, <1>2, <1>3 DEF Stacked
<1>5. Depth(t) = q[Len(d)]
  BY <1>0, <1>1
<1> QED BY <1>4, <1>5 DEF Braced

\* The braces of any list of the construct at work.
LEMMA StackList ==
    ASSUME Tree, NEW b \in Range(Program), NEW c \in Seq(Emits), Chain(b, c), NEW n, n = Len(c), n \in Nat, n > 1,
           NEW s, Stacked(c, s), NEW a, a = c[n].at, NEW l \in Nat, NEW new, new = Frame(s[n - 1], a, l)
    PROVE  new \in Seq(Pieces) /\ Below(new, a) /\ Agrees(a, l, new) /\ s[n - 1] \in Seq(Pieces)
<1> DEFINE p == c[n - 1]
<1>1. AtWork(b, p) /\ p.next > 1 /\ a = List(p)[p.next - 1]
  BY DEF Chain
<1>2. s[n - 1] \in Seq(Pieces) /\ Below(s[n - 1], p.at) /\ Agrees(p.at, p.part, s[n - 1])
  BY DEF Stacked
<1> HIDE DEF p
<1>3. p.at \in Home(b)
  BY <1>1 DEF AtWork
<1>4. a \in Under(p.at, p.part)
  <2>1. p.next - 1 \in 1 .. Len(List(p))
    BY <1>1, WorkFacts
  <2> QED BY <1>1, <2>1, WorkFacts
<1> DEFINE q == s[n - 1]
<1>5. q \in Seq(Pieces) /\ Below(q, p.at) /\ Agrees(p.at, p.part, q) /\ new = Frame(q, a, l)
  BY <1>2
<1> HIDE DEF q
<1>6. new \in Seq(Pieces)
  BY <1>3, <1>4, <1>5, AgreesDown
<1>7. Below(new, a)
  BY <1>3, <1>4, <1>5, AgreesDown
<1>8. Agrees(a, l, new)
  BY <1>3, <1>4, <1>5, AgreesDown
<1> QED BY <1>2, <1>6, <1>7, <1>8

LEMMA RisingSame ==
    ASSUME NEW c \in Seq(Emits), NEW d \in Seq(Emits), NEW n \in Nat, NEW a, NEW k, NEW l, Turned(c, d, n, a, k, l), Rising(c)
    PROVE  Rising(d)
<1>1. n = Len(c) /\ n = Len(d) /\ \A i \in 1 .. n : d[i].at = c[i].at
  BY DEF Alike, Turned
<1> QED BY <1>1 DEF Rising

\* An inner construct is an op of its body.
LEMMA InnerOp ==
    ASSUME Tree, NEW b \in Range(Program), NEW c \in Seq(Emits), Chain(b, c), NEW n, n = Len(c), n \in Nat, n > 1,
           NEW a, a = c[n].at
    PROVE  a \in OpsOf(b) /\ a \in DOMAIN ops /\ a # 0
<1> DEFINE p == c[n - 1]
<1>1. AtWork(b, p) /\ p.next > 1 /\ a = List(p)[p.next - 1]
  BY DEF Chain
<1> HIDE DEF p
<1>2. p.next - 1 \in 1 .. Len(List(p))
  BY <1>1, WorkFacts
<1>3. a \in OpsOf(b)
  BY <1>1, <1>2, WorkFacts
<1> QED BY <1>3, InBody

\* A body has one list.
LEMMA OuterOnce ==
    ASSUME Tree, NEW b \in Range(Program), NEW c \in Seq(Emits), c # <<>>, Chain(b, c), NEW n, n = Len(c), n \in Nat, n > 0,
           NEW f, f = c[n], f.part # Len(Subs(f.at))
    PROVE  n > 1
<1> SUFFICES ASSUME n = 1 PROVE FALSE
  OBVIOUS
<1>3. 1 \in 1 .. Len(c)
  OBVIOUS
<1>1. f.at = b /\ AtWork(b, f)
  BY <1>3 DEF Chain
<1>2. f.part \in 1 .. Len(Subs(f.at)) /\ Len(Subs(b)) = 1
  BY <1>1, WorkFacts, Programs
<1>4. Len(Subs(f.at)) = 1
  BY <1>1, <1>2
<1> DEFINE k == f.part
           o == Len(Subs(f.at))
<1>5. k \in 1 .. o /\ o = 1 /\ k # o
  BY <1>2, <1>4
<1> HIDE DEF k, o
<1> QED BY <1>5

--------------------------------------------------------------------------------
\* What is known of a construct with a further list.
LEMMA OnFacts ==
    ASSUME Tree, NoSwitch, NEW b \in Range(Program), NEW c \in Seq(Emits), c # <<>>, Chain(b, c),
           NEW f, f = Last(c), f.part # Len(Subs(f.at)), NEW n, n = Len(c), n \in Nat, n > 0, f = c[n],
           AtWork(b, f), Coding(f.at), f.next > Len(List(f))
    PROVE  /\ n > 1 /\ f.at \in Visited(b, f) /\ f.part \in Nat /\ f.at \in Nat
           /\ Kind(f.at) \in Several \/ (IsSwitch(f.at) /\ IsCase(f.at, f.part) /\ Divided(f.at, f.part))
<1>1. n > 1
  BY OuterOnce
<1>2. f.at \in OpsOf(b) /\ f.at \in DOMAIN ops /\ f.at # 0
  BY <1>1, InnerOp
<1>3. f.at \in Nat /\ f.part \in 1 .. Len(Subs(f.at)) /\ Len(Subs(f.at)) \in Nat /\ f.at \in Nodes /\ f.part \in Nat
  BY WorkFacts
<1>4. f.at \in Visited(b, f)
  BY <1>2, <1>3 DEF Visited, Past
<1>5. Subs(f.at) # <<>>
  BY <1>3
<1> DEFINE a == f.at
<1> HIDE DEF a
<1>6. HasCode(a) /\ ~IsSizeof(a)
  BY <1>2 DEF Coding, IsSizeof, a
<1>7. Kind(a) \in Single \cup Several \cup {"switch {", "sizeof a["}
  BY <1>3, <1>5, KindShape DEF a
<1>8. ~(Kind(a) \in Single)
  <2> SUFFICES ASSUME Kind(a) \in Single PROVE FALSE
    OBVIOUS
  <2>1. Len(Subs(a)) = 1
    BY <1>3, <1>5, KindShape DEF a
  <2> QED BY <1>3, <2>1 DEF a
<1>9. Kind(a) \in Several \/ IsSwitch(a)
  BY <1>6, <1>7, <1>8 DEF IsSizeof, IsSwitch
<1>10. ASSUME IsSwitch(a) PROVE IsCase(a, f.part)
  <2>1. Len(Subs(a)) = Len(ops[a].labels) + 1
    BY <1>3, <1>5, <1>10, KindShape DEF a, IsSwitch
  <2>2. ops[a].labels \in Seq(Labels)
    BY <1>2, <1>3, NodeKinds DEF a
  <2>3. f.part \in 1 .. Len(ops[a].labels)
    BY <1>3, <2>1, <2>2 DEF a
  <2> QED BY <1>2, <2>2, <2>3 DEF IsCase, a
<1>11. Kind(a) \in Several \/ (IsSwitch(a) /\ IsCase(a, f.part) /\ Divided(a, f.part))
  BY <1>6, <1>9, <1>10 DEF Divided
<1> QED BY <1>1, <1>3, <1>4, <1>11 DEF a

--------------------------------------------------------------------------------
\* The construct at work comes to its next list.
LEMMA DoneTurned ==
    ASSUME Tree, NEW c \in Seq(Emits), NEW d \in Seq(Emits), NEW n \in Nat, NEW a \in Nat, NEW k \in Nat, NEW l, l = k + 1,
           Turned(c, d, n, a, k, l), Rising(c), NEW V, a \in V
    PROVE  /\ Divided(a, k) => Done(V, d) = Done(V, c) \cup {<<a, k>>}
           /\ ~IsSwitch(a) => Done(V, d) = Done(V, c)
<1>0. /\ n = Len(c) /\ n > 0 /\ Len(d) = n /\ Alike(c, d, n - 1)
      /\ c[n].at = a /\ c[n].part = k /\ d[n].at = a /\ d[n].part = k + 1
  BY DEF Turned
<1>7. \A i \in 1 .. n : c[i].at \in Nat
  <2>1. \A i \in 1 .. n : c[i] \in Emits
    BY <1>0
  <2>2. \A f \in Emits : f.at \in Nat
    BY DEF Emits
  <2> QED BY <2>1, <2>2
<1>1. \A i \in 1 .. n : i = n \/ (i \in 1 .. n - 1 /\ c[i].at # a /\ d[i].at = c[i].at /\ d[i].part = c[i].part)
  <2>1. \A i \in 1 .. n : i = n \/ (i \in 1 .. n - 1 /\ i < n)
    OBVIOUS
  <2>2. \A i \in 1 .. n : i < n => c[i].at < c[n].at /\ c[i].at \in Nat
    BY <1>0, <1>7 DEF Rising
  <2>3. \A i \in 1 .. n : i < n => c[i].at # a
    BY <1>0, <2>2
  <2> QED BY <1>0, <2>1, <2>3 DEF Alike
<1>2. n \in 1 .. n
  BY <1>0
<1>3. \A q, j : q # a => (Reached(d, q, j) <=> Reached(c, q, j))
  BY <1>0, <1>1, <1>2 DEF Reached
<1>4. \A j \in Nat : (Reached(d, a, j) <=> j < k + 1) /\ (Reached(c, a, j) <=> j < k)
  BY <1>0, <1>1, <1>2 DEF Reached
<1>5. ASSUME ~IsSwitch(a) PROVE Done(V, d) = Done(V, c)
  <2>1. \A q, j : Divided(q, j) => q # a
    BY <1>5 DEF Divided
  <2>2. \A q, j \in Nat : q \in V /\ Divided(q, j) /\ Reached(d, q, j)
                            <=> q \in V /\ Divided(q, j) /\ Reached(c, q, j)
    BY <1>3, <2>1
  <2> QED BY <2>2, DoneEqual
<1>6. ASSUME Divided(a, k) PROVE Done(V, d) = Done(V, c) \cup {<<a, k>>}
  <2>1. \A q, j \in Nat : <<q, j>> \in Done(V, d) <=> <<q, j>> \in Done(V, c) \/ (q = a /\ j = k)
    <3>1. ASSUME NEW q \in Nat, NEW j \in Nat, q # a
          PROVE  <<q, j>> \in Done(V, d) <=> <<q, j>> \in Done(V, c) \/ (q = a /\ j = k)
      BY <1>3, <3>1, DoneIs
    <3>2. ASSUME NEW j \in Nat
          PROVE  <<a, j>> \in Done(V, d) <=> <<a, j>> \in Done(V, c) \/ j = k
      <4>1. Reached(d, a, j) <=> Reached(c, a, j) \/ j = k
        BY <1>4
      <4>2. <<a, j>> \in Done(V, d) <=> Divided(a, j) /\ Reached(d, a, j)
        BY DoneIs
      <4>3. <<a, j>> \in Done(V, c) <=> Divided(a, j) /\ Reached(c, a, j)
        BY DoneIs
      <4> QED BY <1>6, <4>1, <4>2, <4>3
    <3> QED BY <3>1, <3>2
  <2>2. Done(V, d) \subseteq Nat \X Nat /\ Done(V, c) \subseteq Nat \X Nat
    BY DEF Done
  <2>3. <<a, k>> \in Nat \X Nat
    OBVIOUS
  <2> QED BY <2>1, <2>2, <2>3
<1> QED BY <1>5, <1>6

Parted(a, k) == Kind(a) \in Several \/ (IsSwitch(a) /\ IsCase(a, k) /\ Divided(a, k))

LEMMA TextOn ==
    ASSUME Tree, NEW a \in Nat, NEW k \in Nat, NEW l, l = k + 1, NEW t \in Seq(Pieces), NEW m \in Seq(Pieces), Depth(t) = Frame(m, a, k),
           NEW V, NEW D, NEW E, Faithful(V, D, t), Divided(a, k) => E = D \cup {<<a, k>>}, ~IsSwitch(a) => E = D,
           Parted(a, k), NEW r, r = Join(t, Between(a, k))
    PROVE  r \in Seq(Pieces) /\ Depth(r) = Frame(m, a, l) /\ Faithful(V, E, r)
<1>1. CASE Kind(a) \in Several
  <2>1. ~IsSwitch(a)
    BY <1>1 DEF Several, IsSwitch
  <2>2. r \in Seq(Pieces) /\ Depth(r) = Frame(m, a, k + 1) /\ Faithful(V, D, r)
    BY <1>1, BetweenSeveral
  <2> QED BY <2>1, <2>2
<1>2. CASE IsSwitch(a) /\ IsCase(a, k) /\ Divided(a, k)
  <2>1. r \in Seq(Pieces) /\ Depth(r) = Frame(m, a, k + 1) /\ Faithful(V, D \cup {<<a, k>>}, r)
    BY <1>2, BetweenSwitch
  <2> QED BY <1>2, <2>1
<1> QED BY <1>1, <1>2 DEF Parted

LEMMA StackAt ==
    ASSUME Tree, NEW b \in Range(Program), NEW c \in Seq(Emits), Chain(b, c), NEW n \in Nat, n = Len(c), n > 1,
           NEW t, Braced(c, t), NEW a, NEW k, a = c[n].at, k = c[n].part
    PROVE  \E s : /\ Stacked(c, s) /\ Base(s, n) \in Seq(Pieces) /\ Depth(t) = Frame(Base(s, n), a, k)
                  /\ \A l \in Nat : Held(Frame(Base(s, n), a, l), a, l)
<1>1. PICK s : Stacked(c, s) /\ Depth(t) = s[n]
  BY DEF Braced
<1>2. s[n] = Frame(s[n - 1], c[n].at, c[n].part)
  <2>1. n \in 1 .. Len(c)
    OBVIOUS
  <2> QED BY <1>1, <2>1 DEF Stacked
<1>3. Depth(t) = Frame(Base(s, n), a, k)
  BY <1>1, <1>2 DEF Base
<1>5. 0 \in Nat
  OBVIOUS
<1>6. Base(s, n) \in Seq(Pieces)
  BY <1>1, <1>5, StackList DEF Base
<1>4. ASSUME NEW l \in Nat PROVE Held(Frame(Base(s, n), a, l), a, l)
  BY <1>1, StackList DEF Held, Base
<1> QED BY <1>1, <1>3, <1>4, <1>6

LEMMA NestOn ==
    ASSUME Tree, NoSwitch, NEW b \in Range(Program), NEW c \in Seq(Emits), c # <<>>, Chain(b, c),
           NEW t \in Seq(Pieces), NestAt(b, c, t), NEW f, f = Last(c), f.next > Len(List(f)),
           f.part # Len(Subs(f.at)),
           NEW n, n = Len(c), NEW d \in Seq(Emits), NEW g, g = Last(d), g.next = 1,
           NEW l, l = f.part + 1, g.at = f.at, g.part = l, Turned(c, d, n, f.at, f.part, l)
    PROVE  NestAt(b, d, Join(t, Between(f.at, f.part)))
<1> DEFINE a == f.at
           k == f.part
           r == Join(t, Between(f.at, f.part))
           V == Visited(b, f)
           W == Visited(b, g)
<1>1. /\ n \in Nat /\ n > 0 /\ f = c[n] /\ AtWork(b, f) /\ Faithful(V, Done(V, c), t)
      /\ Rising(c) /\ Coding(a)
  BY NestFacts
<1>2. n > 1 /\ a \in V /\ k \in Nat /\ a \in Nat /\ Parted(a, k)
  BY <1>1, OnFacts DEF Parted
<1>3. W = V
  <2>1. AtWork(b, f)
    BY <1>1
  <2> QED BY <2>1, VisitOn, SMTT(30)
<1>4. Braced(c, t)
  BY DEF NestAt
<1>5. l = k + 1 /\ l \in Nat
  BY <1>2
<1>6. a = c[n].at /\ k = c[n].part /\ Turned(c, d, n, a, k, l)
  BY <1>1
<1>7. r = Join(t, Between(a, k))
  OBVIOUS
<1> HIDE DEF a, k, r, V, W
<1>8. PICK s : /\ Stacked(c, s) /\ Base(s, n) \in Seq(Pieces) /\ Depth(t) = Frame(Base(s, n), a, k)
               /\ \A j \in Nat : Held(Frame(Base(s, n), a, j), a, j)
  BY <1>1, <1>2, <1>4, <1>6, StackAt
<1>9. Rising(d)
  BY <1>1, <1>6, RisingSame
<1>10. Divided(a, k) => Done(V, d) = Done(V, c) \cup {<<a, k>>}
  BY <1>1, <1>2, <1>5, <1>6, DoneTurned, SMTT(30)
<1>14. ~IsSwitch(a) => Done(V, d) = Done(V, c)
  BY <1>1, <1>2, <1>5, <1>6, DoneTurned
<1>11. Depth(r) = Frame(Base(s, n), a, l) /\ Faithful(V, Done(V, d), r)
  <2> DEFINE m == Base(s, n)
             D == Done(V, c)
             E == Done(V, d)
  <2>1. /\ m \in Seq(Pieces) /\ Depth(t) = Frame(m, a, k) /\ Faithful(V, D, t)
        /\ Divided(a, k) => E = D \cup {<<a, k>>}
        /\ ~IsSwitch(a) => E = D
    BY <1>1, <1>8, <1>10, <1>14
  <2> HIDE DEF m, D, E
  <2>3. Faithful(V, E, r)
    BY <1>2, <1>5, <1>7, <2>1, TextOn, SMTT(30)
  <2>2. Depth(r) = Frame(m, a, l)
    BY <1>2, <1>5, <1>7, <2>1, <2>3, TextOn, SMTT(30)
  <2> QED BY <2>2, <2>3 DEF m, E
<1>12. Braced(d, r)
  <2>1. Held(Depth(r), a, l)
    BY <1>5, <1>8, <1>11
  <2> QED BY <1>1, <1>6, <1>8, <1>9, <1>11, <2>1, BracedOn
<1>13. Faithful(Visited(b, Last(d)), Done(Visited(b, Last(d)), d), r)
  BY <1>3, <1>11 DEF W
<1> QED BY <1>12, <1>13 DEF NestAt, r

--------------------------------------------------------------------------------
\* The construct at work is done.
Popped(c, d, n) == n = Len(c) /\ n > 0 /\ Len(d) = n - 1 /\ Alike(c, d, n - 1)

LEMMA DonePopped ==
    ASSUME Tree, NEW V, NEW c \in Seq(Emits), NEW d \in Seq(Emits), NEW n \in Nat, Popped(c, d, n),
           NEW f, f = c[n], f.part = Len(Subs(f.at))
    PROVE  Done(V, d) = Done(V, c)
<1>1. n = Len(c) /\ n > 0 /\ Len(d) = n - 1 /\ Alike(c, d, n - 1) /\ c[n].part = Len(Subs(c[n].at))
  BY DEF Popped
<1> QED BY <1>1, DonePop, SMTT(30)

LEMMA BracedPopped ==
    ASSUME NEW c \in Seq(Emits), NEW d \in Seq(Emits), NEW n \in Nat, Popped(c, d, n),
           NEW s, Stacked(c, s), Rising(c), NEW r, Depth(r) = Base(s, n)
    PROVE  Braced(d, r)
<1>1. n = Len(c) /\ n > 0 /\ Len(d) = n - 1
  BY DEF Popped
<1> DEFINE o == n - 1
<1>2. o = Len(d) /\ o \in Nat /\ o <= n /\ Alike(c, d, o) /\ n = Len(c)
  BY <1>1 DEF Popped
<1>3. Base(s, n) = s[Len(d)]
  BY <1>1 DEF Base
<1> HIDE DEF o
<1>4. Stacked(d, s)
  BY <1>2, StackLess
<1>5. Rising(d)
  BY <1>2, RisingLess
<1> QED BY <1>3, <1>4, <1>5 DEF Braced

LEMMA StackBase ==
    ASSUME NEW c \in Seq(Emits), NEW n \in Nat, n = Len(c), n > 0,
           NEW t, Braced(c, t), NEW a, NEW k, a = c[n].at, k = c[n].part
    PROVE  \E s : /\ Stacked(c, s) /\ Base(s, n) \in Seq(Pieces) /\ Depth(t) = Frame(Base(s, n), a, k)
<1>1. PICK s : Stacked(c, s) /\ Depth(t) = s[n]
  BY DEF Braced
<1>2. s[n] = Frame(s[n - 1], c[n].at, c[n].part)
  <2>1. n \in 1 .. Len(c)
    OBVIOUS
  <2> QED BY <1>1, <2>1 DEF Stacked
<1>3. Depth(t) = Frame(Base(s, n), a, k)
  BY <1>1, <1>2 DEF Base
<1>4. s[n - 1] \in Seq(Pieces)
  <2>1. CASE n = 1
    <3>1. s[0] = <<>>
      BY <1>1 DEF Stacked
    <3>2. <<>> \in Seq(Pieces)
      BY NothingYet
    <3>3. n - 1 = 0
      BY <2>1
    <3> QED BY <3>1, <3>2, <3>3
  <2>2. CASE n # 1
    <3>1. n - 1 \in 1 .. Len(c)
      BY <2>2
    <3> QED BY <1>1, <3>1 DEF Stacked
  <2> QED BY <2>1, <2>2
<1> QED BY <1>1, <1>3, <1>4 DEF Base

LEMMA TextOut ==
    ASSUME Tree, NoSwitch, NEW a \in Nodes, a \in Nat, Coding(a), NEW k \in Nat, k >= 1, Subs(a) # <<>>,
           NEW t \in Seq(Pieces), NEW m \in Seq(Pieces), Depth(t) = Frame(m, a, k),
           NEW V, NEW D, Faithful(V, D, t), NEW r, r = Join(t, Closer(a, k))
    PROVE  r \in Seq(Pieces) /\ Depth(r) = m /\ Faithful(V, D, r)
<1>1. Kind(a) \in Single \cup Several \cup {"switch {", "sizeof a["}
  BY KindShape
<1>2. ~IsSizeof(a)
  <2>1. CASE a = 0
    BY <2>1 DEF IsSizeof, Kind
  <2>2. CASE a # 0
    BY <2>2 DEF IsSizeof, Coding
  <2> QED BY <2>1, <2>2
<1> DEFINE q == Kind(a)
<1>3. q \in Single => q \in Plainly \cup {"50"}
  BY DEF Single, Plainly
<1> HIDE DEF q
<1>4. q \in Plainly \cup Several \cup {"50"} \/ q = "switch {"
  BY <1>1, <1>2, <1>3 DEF IsSizeof, q
<1>5. Kind(a) \in Plainly \cup Several \cup {"50"} \/ IsSwitch(a)
  BY <1>4 DEF q, IsSwitch
<1> QED BY <1>5, CloserDown

--------------------------------------------------------------------------------
\* The end of a construct, in the text and in what it says.
LEMMA NestClosing ==
    ASSUME Tree, NoSwitch, NEW b \in Range(Program), NEW c \in Seq(Emits), c # <<>>, Chain(b, c),
           NEW t \in Seq(Pieces), NestAt(b, c, t), NEW f, f = Last(c), f.part = Len(Subs(f.at)),
           NEW n, n = Len(c), NEW d \in Seq(Emits), Popped(c, d, n),
           NEW r, r = Join(t, Closer(f.at, f.part)), NEW V, V = Visited(b, f)
    PROVE  /\ r \in Seq(Pieces) /\ Faithful(V, Done(V, d), r) /\ n \in Nat /\ n > 0 /\ f = c[n] /\ AtWork(b, f)
           /\ Braced(d, r)
<1> DEFINE a == f.at
           k == f.part
<1>1. /\ n \in Nat /\ n > 0 /\ f = c[n] /\ AtWork(b, f) /\ Faithful(V, Done(V, c), t)
      /\ Rising(c) /\ Coding(a)
  BY NestFacts
<1>2. a \in Nat /\ a \in Nodes /\ k \in Nat /\ k >= 1 /\ Len(Subs(a)) >= 1 /\ k = Len(Subs(a))
  <2>1. AtWork(b, f)
    BY <1>1
  <2>2. /\ f.at \in Nodes /\ f.at \in Nat /\ f.part \in Nat \ {0}
        /\ f.part \in 1 .. Len(Subs(f.at)) /\ Len(Subs(f.at)) \in Nat
    BY <2>1, WorkFacts
  <2> QED BY <2>2
<1>3. Subs(a) # <<>>
  BY <1>2
<1>4. Braced(c, t)
  BY DEF NestAt
<1>5. Done(V, d) = Done(V, c)
  BY <1>1, DonePopped
<1>6. a = c[n].at /\ k = c[n].part /\ r = Join(t, Closer(a, k))
  BY <1>1
<1> HIDE DEF a, k
<1>7. PICK s : Stacked(c, s) /\ Base(s, n) \in Seq(Pieces) /\ Depth(t) = Frame(Base(s, n), a, k)
  BY <1>1, <1>4, <1>6, StackBase
<1> DEFINE m == Base(s, n)
           D == Done(V, c)
<1>8. m \in Seq(Pieces) /\ Depth(t) = Frame(m, a, k) /\ Faithful(V, D, t)
  BY <1>1, <1>7
<1> HIDE DEF m, D
<1>9. r \in Seq(Pieces) /\ Depth(r) = m /\ Faithful(V, D, r)
  BY <1>1, <1>2, <1>3, <1>6, <1>8, TextOut, SMTT(30)
<1>10. Braced(d, r)
  BY <1>1, <1>7, <1>9, BracedPopped DEF m
<1> QED BY <1>1, <1>5, <1>9, <1>10 DEF D

\* An inner construct returns to the one around it.
LEMMA NestReturn ==
    ASSUME Tree, NoSwitch, NEW b \in Range(Program), NEW c \in Seq(Emits), c # <<>>, Chain(b, c),
           NEW t \in Seq(Pieces), NestAt(b, c, t), NEW f, f = Last(c), f.part = Len(Subs(f.at)),
           f.next > Len(List(f)),
           NEW n, n = Len(c), NEW d \in Seq(Emits), Popped(c, d, n), NEW g, g = Last(d), Called(b, f, g),
           NEW r, r = Join(t, Closer(f.at, f.part))
    PROVE  NestAt(b, d, r)
<1> DEFINE V == Visited(b, f)
<1>1. Faithful(V, Done(V, d), r) /\ AtWork(b, f) /\ Braced(d, r)
  BY NestClosing
<1>2. Visited(b, g) = V
  <2>1. AtWork(b, f) /\ AtWork(b, g) /\ g.next > 1 /\ f.at = List(g)[g.next - 1]
    BY <1>1 DEF Called
  <2> QED BY <2>1, VisitUp, SMTT(30)
<1> HIDE DEF V
<1>3. Faithful(Visited(b, Last(d)), Done(Visited(b, Last(d)), d), r)
  BY <1>1, <1>2
<1> QED BY <1>1, <1>3 DEF NestAt

\* What the text of a body says.
AllDone(b) == Done(OpsOf(b), None)
Told(b, t) == t \in Seq(Pieces) /\ Faithful(OpsOf(b), AllDone(b), t)

LEMMA NestEnd ==
    ASSUME Tree, NoSwitch, NEW b \in Range(Program), NEW c \in Seq(Emits), c # <<>>, Chain(b, c),
           NEW t \in Seq(Pieces), NestAt(b, c, t), NEW f, f = Last(c), f.part = Len(Subs(f.at)),
           f.next > Len(List(f)), f.at = b,
           NEW n, n = Len(c), NEW d \in Seq(Emits), Popped(c, d, n), d = None,
           NEW r, r = Join(t, Closer(f.at, f.part))
    PROVE  Told(b, r)
<1> DEFINE V == Visited(b, f)
<1>1. r \in Seq(Pieces) /\ Faithful(V, Done(V, d), r) /\ AtWork(b, f)
  BY NestClosing
<1>2. V = OpsOf(b)
  <2>1. AtWork(b, f)
    BY <1>1
  <2> QED BY <2>1, VisitAll, SMTT(30)
<1> HIDE DEF V
<1>3. Done(V, d) = AllDone(b)
  BY <1>2 DEF AllDone
<1> QED BY <1>1, <1>2, <1>3 DEF Told

\* A body begins.
LEMMA NestStart ==
    ASSUME Tree, NEW b \in Range(Program), NEW f \in Emits, f.at = b, f.part = 1, f.next = 1,
           NEW d \in Seq(Emits), Len(d) = 1, d[1] = f, f = Last(d),
           NEW r, r = Frame(None, b, 1)
    PROVE  r \in Seq(Pieces) /\ NestAt(b, d, r)
<1>1. AtWork(b, f) /\ Visited(b, f) = {}
  BY VisitStart
<1>2. None \in Seq(Pieces) /\ Faithful({}, {}, None)
  BY FaithfulNone DEF None
<1>3. b \in Nat /\ 1 \in Nat
  BY Programs, TreeLists
<1>4. r \in Seq(Pieces) /\ Faithful({}, {}, r) /\ Depth(r) = Frame(Depth(None), b, 1)
  BY <1>2, <1>3, FaithfulFrame, FrameSeq, DepthFrame
<1>5. Depth(None) = <<>>
  BY DepthFacts DEF None
<1>6. \E u : Stacked(d, u) /\ u[Len(d)] = Frame(<<>>, b, 1)
  BY StackStart
<1>7. Rising(d)
  BY BodyCoding, RisingStart
<1>8. Braced(d, r)
  BY <1>4, <1>5, <1>6, <1>7 DEF Braced
<1>9. Done({}, d) = {}
  BY DEF Done
<1>10. Faithful(Visited(b, Last(d)), Done(Visited(b, Last(d)), d), r)
  BY <1>1, <1>4, <1>9
<1> QED BY <1>4, <1>8, <1>10 DEF NestAt

--------------------------------------------------------------------------------
\* The activations after a step, as like those before.
Again(b, f, g) == AtWork(b, g) /\ g.at = f.at
Into(b, f, g) == AtWork(b, g) /\ f.next > 1 /\ g.at = List(f)[f.next - 1]
Redone(b, c, d, g) ==
    /\ d \in Seq(Emits) /\ Len(d) = Len(c) /\ Len(c) \in Nat /\ Len(c) > 0 /\ d # <<>>
    /\ Last(d) = g /\ d[Len(c)] = g /\ Last(c) = c[Len(c)] /\ Chain(b, d)
    /\ Alike(c, d, Len(c) - 1) /\ (g.part = Last(c).part => Alike(c, d, Len(c)))
Pushed(c, d, g) ==
    /\ d \in Seq(Emits) /\ Len(d) = Len(c) + 1 /\ Len(c) \in Nat /\ Len(c) > 0
    /\ Last(d) = g /\ d[Len(c) + 1] = g /\ Alike(c, d, Len(c))

LEMMA AlikeLast ==
    ASSUME NEW b, NEW c \in Seq(Emits), c # <<>>, Chain(b, c),
           NEW g \in Emits, Again(b, Last(c), g), NEW d, d = Append(Front(c), g)
    PROVE  Redone(b, c, d, g)
<1> DEFINE f == Last(c)
<1>0. AtWork(b, g) /\ g.at = f.at
  BY DEF Again
<1>1. /\ d \in Seq(Emits) /\ Len(d) = Len(c) /\ Len(c) \in Nat /\ Len(c) > 0
      /\ d # <<>> /\ Last(d) = g /\ d[Len(c)] = g /\ Chain(b, d)
      /\ \A i \in 1 .. Len(c) - 1 : d[i] = c[i]
  BY <1>0, ChainLast
<1>2. f = c[Len(c)]
  BY Ended
<1>3. Alike(c, d, Len(c) - 1)
  BY <1>1 DEF Alike
<1>4. ASSUME g.part = f.part PROVE Alike(c, d, Len(c))
  <2>1. \A i \in 1 .. Len(c) : i = Len(c) \/ i \in 1 .. Len(c) - 1
    BY <1>1
  <2> QED BY <1>0, <1>1, <1>2, <1>4, <2>1 DEF Alike
<1> QED BY <1>1, <1>2, <1>3, <1>4 DEF Redone

LEMMA AlikePush ==
    ASSUME NEW b, NEW c \in Seq(Emits), c # <<>>, Chain(b, c),
           NEW g \in Emits, Into(b, Last(c), g), NEW d, d = Append(c, g)
    PROVE  Pushed(c, d, g)
<1>0. AtWork(b, g) /\ Last(c).next > 1 /\ g.at = List(Last(c))[Last(c).next - 1]
  BY DEF Into
<1>1. /\ d \in Seq(Emits) /\ Len(d) = Len(c) + 1 /\ Len(c) \in Nat /\ Len(c) > 0
      /\ Last(d) = g /\ d[Len(c) + 1] = g
      /\ \A i \in 1 .. Len(c) : d[i] = c[i]
  BY <1>0, ChainPush
<1>2. Alike(c, d, Len(c))
  BY <1>1 DEF Alike
<1> QED BY <1>1, <1>2 DEF Pushed

LEMMA AlikeOn ==
    ASSUME NEW c, NEW d, NEW e, NEW n, Alike(c, d, n), Alike(d, e, n)
    PROVE  Alike(c, e, n)
BY DEF Alike

\* Over an op, or down into it.
LEMMA NestOp ==
    ASSUME Tree, NoSwitch, NEW b \in Range(Program), NEW c \in Seq(Emits), c # <<>>, Chain(b, c),
           NEW t \in Seq(Pieces), NestAt(b, c, t), NEW f, f = Last(c), f.next <= Len(List(f)),
           NEW x, x = List(f)[f.next], NEW g \in Emits, g.at = f.at, g.part = f.part, g.next = f.next + 1,
           NEW d, d = Append(Front(c), g)
    PROVE  /\ ops[x].subs = <<>> \/ IsSizeof(x) => NestAt(b, d, Join(t, Opener(x)))
           /\ ~(ops[x].subs = <<>> \/ IsSizeof(x)) => NestAt(b, Append(d, Emitting(x)), Join(t, Opener(x)))
<1> DEFINE n == Len(c)
<1>1. AtWork(b, f) /\ f \in Emits /\ n \in Nat
  BY NestFacts
<1>2. AtWork(b, g) /\ g.next > 1 /\ List(g)[g.next - 1] = x
  BY <1>1, VisitOver
<1>8. Again(b, Last(c), g)
  BY <1>2 DEF Again
<1>9. Redone(b, c, d, g)
  BY <1>8, AlikeLast
<1>3. /\ d \in Seq(Emits) /\ Len(d) = n /\ d # <<>> /\ Last(d) = g /\ Chain(b, d) /\ Alike(c, d, n)
  BY <1>9 DEF Redone
<1> HIDE DEF n
<1>4. n = Len(c) /\ n = Len(d) /\ g = Last(d)
  BY <1>3 DEF n
<1>5. ops[x].subs = <<>> => NestAt(b, d, Join(t, Opener(x)))
  BY <1>3, <1>4, NestLeaf
<1>6. IsSizeof(x) => NestAt(b, d, Join(t, Opener(x)))
  BY <1>3, <1>4, NestSizeof
<1>7. ASSUME ops[x].subs # <<>>, ~IsSizeof(x)
      PROVE  NestAt(b, Append(d, Emitting(x)), Join(t, Opener(x)))
  <2> DEFINE h == Emitting(x)
             e == Append(d, h)
  <2>1. x \in DOMAIN ops /\ x \in Nat
    BY NestItem
  <2>2. h \in Emits /\ h.at = x /\ h.part = 1 /\ h.next = 1
    BY <2>1 DEF Emitting, Emits
  <2> HIDE DEF h
  <2>3. AtWork(b, h)
    <3>1. AtWork(b, f)
      BY <1>1
    <3> QED BY <1>7, <2>2, <3>1, VisitDown, SMTT(30)
  <2>4. h.at = List(g)[g.next - 1]
    BY <1>2, <2>2
  <2>5. e = Append(d, h)
    OBVIOUS
  <2> HIDE DEF e
  <2>6. /\ e \in Seq(Emits) /\ Len(e) = Len(d) + 1
        /\ Last(e) = h /\ e[Len(d) + 1] = h /\ Alike(d, e, Len(d))
    <3>1. Into(b, Last(d), h)
      BY <1>2, <1>4, <2>3, <2>4 DEF Into
    <3>2. Pushed(d, e, h)
      BY <1>3, <2>2, <2>5, <3>1, AlikePush
    <3> QED BY <3>2 DEF Pushed
  <2>7. n + 1 = Len(e) /\ h = e[n + 1] /\ h = Last(e) /\ Alike(c, e, n)
    BY <1>3, <1>4, <2>6, AlikeOn
  <2>8. NestAt(b, e, Join(t, Opener(x)))
    BY <1>4, <1>7, <2>2, <2>6, <2>7, NestEnter
  <2> QED BY <2>8 DEF e, h
<1> QED BY <1>5, <1>6, <1>7

--------------------------------------------------------------------------------
\* The next list.
LEMMA NestNext ==
    ASSUME Tree, NoSwitch, NEW b \in Range(Program), NEW c \in Seq(Emits), c # <<>>, Chain(b, c),
           NEW t \in Seq(Pieces), NestAt(b, c, t), NEW f, f = Last(c), f.next > Len(List(f)),
           f.part # Len(Subs(f.at)),
           NEW g \in Emits, g.at = f.at, g.part = f.part + 1, g.next = 1,
           NEW d, d = Append(Front(c), g)
    PROVE  NestAt(b, d, Join(t, Between(f.at, f.part)))
<1> DEFINE n == Len(c)
           l == g.part
<1>1. AtWork(b, f) /\ f \in Emits /\ n \in Nat /\ n > 0 /\ f = c[n]
  BY NestFacts
<1>2. AtWork(b, g)
  BY <1>1, VisitOn
<1>3. Redone(b, c, d, g)
  <2>1. Again(b, Last(c), g)
    BY <1>2 DEF Again
  <2> QED BY <2>1, AlikeLast
<1>4. l = f.part + 1 /\ g.part = l
  OBVIOUS
<1>5. d \in Seq(Emits) /\ g = Last(d)
  BY <1>3 DEF Redone
<1>6. Turned(c, d, n, f.at, f.part, l)
  BY <1>1, <1>3 DEF Turned, Redone
<1> HIDE DEF n, l
<1>7. n = Len(c)
  BY DEF n
<1> QED BY <1>4, <1>5, <1>6, <1>7, NestOn

\* A list is done, and with the first one a body.
LEMMA PopIs ==
    ASSUME NEW b, NEW c \in Seq(Emits), c # <<>>, Chain(b, c), NEW d, d = Front(c)
    PROVE  /\ d \in Seq(Emits) /\ Popped(c, d, Len(c))
           /\ d = <<>> => d = None /\ Last(c).at = b
           /\ d # <<>> => Called(b, Last(c), Last(d))
<1>1. /\ d \in Seq(Emits) /\ Len(d) = Len(c) - 1 /\ Len(c) \in Nat /\ Len(c) > 0
      /\ \A i \in 1 .. Len(d) : d[i] = c[i]
  BY Ended
<1>2. d = <<>> => Last(c).at = b
  BY ChainPop
<1>3. d # <<>> => Called(b, Last(c), Last(d))
  BY ChainPop
<1>4. Popped(c, d, Len(c))
  BY <1>1 DEF Popped, Alike
<1> QED BY <1>1, <1>2, <1>3, <1>4 DEF None

LEMMA NestBack ==
    ASSUME Tree, NoSwitch, NEW b \in Range(Program), NEW c \in Seq(Emits), c # <<>>, Chain(b, c),
           NEW t \in Seq(Pieces), NestAt(b, c, t), NEW f, f = Last(c), f.next > Len(List(f)),
           f.part = Len(Subs(f.at)), NEW d, d = Front(c),
           NEW r, r = Join(t, Closer(f.at, f.part))
    PROVE  (d # <<>> => NestAt(b, d, r)) /\ (d = <<>> => Told(b, r))
<1> DEFINE n == Len(c)
<1>1. /\ d \in Seq(Emits) /\ Popped(c, d, Len(c))
      /\ d = <<>> => d = None /\ Last(c).at = b
      /\ d # <<>> => Called(b, Last(c), Last(d))
  BY PopIs
<1>2. Popped(c, d, n)
  BY <1>1
<1> HIDE DEF n
<1>3. n = Len(c)
  BY DEF n
<1>4. ASSUME d # <<>> PROVE NestAt(b, d, r)
  <2> DEFINE g == Last(d)
  <2>1. Called(b, f, g)
    BY <1>1, <1>4
  <2>2. g = Last(d)
    OBVIOUS
  <2> HIDE DEF g
  <2> QED BY <1>1, <1>2, <1>3, <2>1, <2>2, NestReturn
<1>5. ASSUME d = <<>> PROVE Told(b, r)
  <2>1. d = None /\ f.at = b
    BY <1>1, <1>5 DEF None
  <2> QED BY <1>1, <1>2, <1>3, <2>1, NestEnd
<1> QED BY <1>4, <1>5

\* A body begins.
LEMMA NestBegin ==
    ASSUME Tree, NEW b \in Range(Program)
    PROVE  NestAt(b, <<Emitting(b)>>, <<Brace("block", b, 1)>>)
<1> DEFINE f == Emitting(b)
           d == <<f>>
           r == Frame(None, b, 1)
<1>1. b \in Nat /\ (b = 0 \/ (b \in DOMAIN ops /\ ops[b].kind = "/1"))
  BY Programs, TreeLists
<1>2. f \in Emits /\ f.at = b /\ f.part = 1 /\ f.next = 1
  BY <1>1 DEF Emitting, Emits
<1>3. Kind(b) = "main" \/ Kind(b) = "/1"
  BY <1>1 DEF Kind
<1>4. ~Doubled(b, 1) /\ InnerBrace(b, 1) = Brace("block", b, 1)
  BY <1>3, BracesAre
<1>5. r = Append(<<>>, Brace("block", b, 1))
  BY <1>4 DEF Frame, None
<1>6. Append(<<>>, Brace("block", b, 1)) = <<Brace("block", b, 1)>>
  OBVIOUS
<1> HIDE DEF f
<1>7. d \in Seq(Emits) /\ Len(d) = 1 /\ d[1] = f /\ f = Last(d)
  BY <1>2 DEF Last
<1>8. r = Frame(None, b, 1)
  OBVIOUS
<1> HIDE DEF d, r
<1>9. NestAt(b, d, r)
  BY <1>2, <1>7, <1>8, NestStart
<1> QED BY <1>5, <1>6, <1>9 DEF d, f

--------------------------------------------------------------------------------
(* What a text says stays so while the program does.                           *)
LEMMA StaysFrame ==
    UNCHANGED parserVars =>
        /\ \A a, k, m : Frame(m, a, k)' = Frame(m, a, k)
        /\ \A a : HasCode(a)' <=> HasCode(a)
        /\ \A x : Trail(x)' = Trail(x)
        /\ \A a, k, m : Agrees(a, k, m)' <=> Agrees(a, k, m)
        /\ \A x, m : Fit(m, x)' <=> Fit(m, x)
<1> SUFFICES ASSUME UNCHANGED parserVars
             PROVE  /\ \A a, k, m : Frame(m, a, k)' = Frame(m, a, k)
                    /\ \A a : HasCode(a)' <=> HasCode(a)
                    /\ \A x : Trail(x)' = Trail(x)
                    /\ \A a, k, m : Agrees(a, k, m)' <=> Agrees(a, k, m)
                    /\ \A x, m : Fit(m, x)' <=> Fit(m, x)
  OBVIOUS
<1>1. \A a, k, m : Frame(m, a, k)' = Frame(m, a, k)
  <2>0. \A a : Kind(a)' = Kind(a)
    BY Stays
  <2>1. \A a, k : Doubled(a, k)' <=> Doubled(a, k)
    BY <2>0, Zenon DEF Doubled
  <2>2. \A a : OuterBrace(a)' = OuterBrace(a)
    BY <2>0, Zenon DEF OuterBrace
  <2>3. \A a, k : InnerSort(a, k)' = InnerSort(a, k)
    BY <2>0, Zenon DEF InnerSort
  <2>4. \A a, k : InnerBrace(a, k)' = InnerBrace(a, k)
    BY <2>3, Zenon DEF InnerBrace
  <2> QED BY <2>1, <2>2, <2>4, Zenon DEF Frame
<1>2. \A a : HasCode(a)' <=> HasCode(a)
  BY Stays DEF HasCode
<1>3. \A x : Trail(x)' = Trail(x)
  <2>1. \A x : Within(x)' = Within(x)
    BY Stays DEF Within, Function
  <2> QED BY <2>1 DEF Trail
<1>4. \A a, k, m : Agrees(a, k, m)' <=> Agrees(a, k, m)
  BY <1>3, Stays DEF Agrees
<1>5. \A x, m : Fit(m, x)' <=> Fit(m, x)
  BY <1>3, Stays DEF Fit
<1> QED BY <1>1, <1>2, <1>3, <1>4, <1>5

LEMMA StaysFaithful ==
    UNCHANGED parserVars => \A V, D, t : Faithful(V, D, t)' <=> Faithful(V, D, t)
<1> SUFFICES ASSUME UNCHANGED parserVars
             PROVE  \A V, D, t : Faithful(V, D, t)' <=> Faithful(V, D, t)
  OBVIOUS
<1>1. \A x : Carried(x)' <=> Carried(x)
  BY Stays, StaysFrame DEF Carried
<1>2. \A V, t : Stated(V, t)' <=> Stated(V, t)
  BY <1>1, Stays, StaysFrame DEF Stated
<1>3. \A D, t : Grouped(D, t)' <=> Grouped(D, t)
  BY Stays DEF Grouped
<1> QED BY <1>2, <1>3 DEF Faithful

LEMMA StaysNest ==
    UNCHANGED parserVars =>
        /\ \A b, c, t : NestAt(b, c, t)' <=> NestAt(b, c, t)
        /\ \A b, t : Told(b, t)' <=> Told(b, t)
<1> SUFFICES ASSUME UNCHANGED parserVars
             PROVE  /\ \A b, c, t : NestAt(b, c, t)' <=> NestAt(b, c, t)
                    /\ \A b, t : Told(b, t)' <=> Told(b, t)
  OBVIOUS
<1>1. \A c, m : Stacked(c, m)' <=> Stacked(c, m)
  BY StaysFrame DEF Stacked
<1>2. \A a : Coding(a)' <=> Coding(a)
  BY Stays, StaysFrame DEF Coding
<1>3. \A c : Rising(c)' <=> Rising(c)
  BY <1>2 DEF Rising
<1>4. \A c, t : Braced(c, t)' <=> Braced(c, t)
  BY <1>1, <1>3 DEF Braced
<1>5. \A q, k : Divided(q, k)' <=> Divided(q, k)
  BY Stays, StaysFrame DEF Divided, IsSwitch, IsCase
<1>6. \A V, c : Done(V, c)' = Done(V, c)
  BY <1>5 DEF Done
<1>7. \A b, c, t : NestAt(b, c, t)' <=> NestAt(b, c, t)
  BY <1>4, <1>6, StaysAtWork, StaysFaithful DEF NestAt
<1>8. \A b : AllDone(b)' = AllDone(b)
  BY <1>6, Stays DEF AllDone
<1>9. \A b, t : Told(b, t)' <=> Told(b, t)
  BY <1>8, Stays, StaysFaithful DEF Told
<1> QED BY <1>7, <1>9

(* What all texts say.                                                         *)
TextsTold == \A j \in 1 .. Len(texts) : Told(Program[j], texts[j])
OutTold == phase = "emit" /\ calls # <<>> => NestAt(Program[Len(texts) + 1], calls, out)
NestInv == NoSwitch /\ TextsTold /\ OutTold

--------------------------------------------------------------------------------
LEMMA NoSwitchStays == ASSUME NoSwitch, UNCHANGED parserVars PROVE NoSwitch'
<1>1. [ParserNext]_parserVars
  OBVIOUS
<1> QED BY <1>1, NoSwitchStepping

\* Steps that leave the texts as they are.
LEMMA TextsStay ==
    ASSUME UNCHANGED parserVars, TextsTold, texts' = texts
    PROVE  TextsTold'
<1>1. \A b, t : Told(b, t)' <=> Told(b, t)
  BY StaysNest
<1>2. Program' = Program
  BY Stays
<1> QED BY <1>1, <1>2 DEF TextsTold

LEMMA NestKeeping ==
    ASSUME UNCHANGED parserVars, NestInv, texts' = texts,
           phase' = "emit" /\ calls' # <<>> => NestAt(Program[Len(texts) + 1], calls', out')
    PROVE  NestInv'
<1>1. TextsTold' /\ NoSwitch'
  BY TextsStay, NoSwitchStays DEF NestInv
<1>2. \A b, c, t : NestAt(b, c, t)' <=> NestAt(b, c, t)
  BY StaysNest
<1>3. Program' = Program
  BY Stays
<1>4. OutTold'
  BY <1>2, <1>3 DEF OutTold
<1> QED BY <1>1, <1>4 DEF NestInv

LEMMA QuietNest ==
    ASSUME UNCHANGED parserVars, NestInv, texts' = texts, phase' = phase, calls' = calls, out' = out
    PROVE  NestInv'
<1>1. phase' = "emit" /\ calls' # <<>> => NestAt(Program[Len(texts) + 1], calls', out')
  BY DEF NestInv, OutTold
<1> QED BY <1>1, NestKeeping

LEMMA ParseNest ==
    ASSUME WholeInv, NestInv, ParserNext, UNCHANGED walkVars
    PROVE  NestInv'
<1>1. Fresh
  BY ParsedEnds DEF WholeInv, WalkInv
<1>2. texts' = <<>> /\ phase' = "check"
  BY <1>1 DEF walkVars, Fresh
<1>3. NoSwitch'
  BY NoSwitchStepping DEF NestInv
<1>4. TextsTold' /\ OutTold'
  BY <1>2 DEF TextsTold, OutTold
<1> QED BY <1>3, <1>4 DEF NestInv

LEMMA CheckNest ==
    ASSUME NestInv, CheckBody \/ CheckOp \/ CheckNextList \/ CheckReturn \/ Analysed \/ Emitted
    PROVE  NestInv'
<1>1. UNCHANGED parserVars /\ texts' = texts
  BY DEF CheckBody, CheckOp, CheckNextList, CheckReturn, Analysed, Emitted
<1>2. ~(phase' = "emit" /\ calls' # <<>>)
  BY DEF CheckBody, CheckOp, CheckNextList, CheckReturn, Analysed, Emitted
<1> QED BY <1>1, <1>2, NestKeeping

\* What is known in front of a step of the code generation.
LEMMA NestHere ==
    ASSUME Tree, WholeInv, NestInv, phase = "emit", calls # <<>>, NEW b, b = Program[Len(texts) + 1]
    PROVE  /\ NoSwitch /\ b \in Range(Program) /\ calls \in Seq(Emits) /\ Chain(b, calls)
           /\ out \in Seq(Pieces) /\ NestAt(b, calls, out) /\ Current \in Emits
           /\ texts \in Seq(Seq(Pieces))
<1>1. Parsed
  BY DEF Tree
<1>2. /\ calls \in Seq(Emits) /\ EmitAt(calls, Len(texts)) /\ out \in Seq(Pieces)
      /\ texts \in Seq(Seq(Pieces)) /\ Len(texts) \in 0 .. Len(Program)
  BY <1>1, EmitFacts DEF WholeInv
<1>3. b \in Range(Program) /\ Chain(b, calls) /\ Current \in Emits
  BY <1>2, EmitAtFacts DEF Current
<1>4. NoSwitch /\ NestAt(b, calls, out)
  BY DEF NestInv, OutTold
<1> QED BY <1>2, <1>3, <1>4

LEMMA EmitBodyNest ==
    ASSUME Tree, WholeInv, NestInv, EmitBody
    PROVE  NestInv'
<1>1. /\ phase = "emit" /\ Len(texts) < Len(Program) /\ UNCHANGED parserVars /\ texts' = texts
      /\ calls' = <<Emitting(Program[Len(texts) + 1])>>
      /\ out' = <<Brace("block", Program[Len(texts) + 1], 1)>>
  BY DEF EmitBody
<1>2. Program[Len(texts) + 1] \in Range(Program)
  <2>1. Len(texts) \in 0 .. Len(Program)
    BY <1>1, EmitFacts DEF WholeInv, Tree
  <2> QED BY <1>1, <2>1, BodyAt
<1>3. NestAt(Program[Len(texts) + 1], calls', out')
  BY <1>1, <1>2, NestBegin
<1> QED BY <1>1, <1>3, NestKeeping

--------------------------------------------------------------------------------
LEMMA EmitOpNest ==
    ASSUME Tree, WholeInv, NestInv, EmitOp
    PROVE  NestInv'
<1> DEFINE b == Program[Len(texts) + 1]
           f == Current
           x == Item
           g == [f EXCEPT !.next = @ + 1]
           d == Append(Callers, g)
<1>1. /\ phase = "emit" /\ AtItem /\ out' = out \o Opener(Item)
      /\ calls' = IF ops[Item].subs = <<>> \/ Kind(Item) = "sizeof a["
                  THEN Advanced ELSE Append(Advanced, Emitting(Item))
      /\ UNCHANGED <<parserVars, phase, faulty, seen, checked, texts>>
  BY DEF EmitOp
<1>2. calls # <<>> /\ f = Last(calls) /\ f.next <= Len(List(f)) /\ x = List(f)[f.next]
  BY <1>1 DEF AtItem, Current, Item
<1>3. /\ NoSwitch /\ b \in Range(Program) /\ calls \in Seq(Emits) /\ Chain(b, calls)
      /\ out \in Seq(Pieces) /\ NestAt(b, calls, out) /\ f \in Emits
  BY <1>1, <1>2, NestHere
<1>4. g \in Emits /\ g.at = f.at /\ g.part = f.part /\ g.next = f.next + 1
  BY <1>3, EmitFrame
<1>5. d = Append(Front(calls), g) /\ d = Advanced /\ x = Item
  BY DEF Callers, Advanced
<1> HIDE DEF b, f, x, g, d
<1>6. /\ ops[x].subs = <<>> \/ IsSizeof(x) => NestAt(b, d, Join(out, Opener(x)))
      /\ ~(ops[x].subs = <<>> \/ IsSizeof(x)) => NestAt(b, Append(d, Emitting(x)), Join(out, Opener(x)))
  BY <1>2, <1>3, <1>4, <1>5, NestOp
<1>7. out' = Join(out, Opener(x))
  BY <1>1, <1>5 DEF Join
<1>8. calls' = IF ops[x].subs = <<>> \/ IsSizeof(x) THEN d ELSE Append(d, Emitting(x))
  BY <1>1, <1>5, Zenon DEF IsSizeof
<1>9. NestAt(b, calls', out')
  <2>1. CASE ops[x].subs = <<>> \/ IsSizeof(x)
    <3>1. calls' = d
      BY <1>8, <2>1
    <3> QED BY <1>6, <1>7, <2>1, <3>1
  <2>2. CASE ~(ops[x].subs = <<>> \/ IsSizeof(x))
    <3>1. calls' = Append(d, Emitting(x))
      BY <1>8, <2>2
    <3> QED BY <1>6, <1>7, <2>2, <3>1
  <2> QED BY <2>1, <2>2
<1> QED BY <1>1, <1>9, NestKeeping DEF b

LEMMA EmitNextNest ==
    ASSUME Tree, WholeInv, NestInv, EmitNextList
    PROVE  NestInv'
<1> DEFINE b == Program[Len(texts) + 1]
           f == Current
           g == [f EXCEPT !.part = @ + 1, !.next = 1]
           d == Append(Callers, g)
<1>1. /\ phase = "emit" /\ AtEnd /\ ~LastList /\ out' = out \o Between(Current.at, Current.part)
      /\ calls' = Onward
      /\ UNCHANGED <<parserVars, phase, faulty, seen, checked, texts>>
  BY DEF EmitNextList
<1>2. calls # <<>> /\ f = Last(calls) /\ f.next > Len(List(f)) /\ f.part # Len(Subs(f.at))
  BY <1>1 DEF AtEnd, Current, LastList
<1>3. /\ NoSwitch /\ b \in Range(Program) /\ calls \in Seq(Emits) /\ Chain(b, calls)
      /\ out \in Seq(Pieces) /\ NestAt(b, calls, out) /\ f \in Emits
  BY <1>1, <1>2, NestHere
<1>4. g \in Emits /\ g.at = f.at /\ g.part = f.part + 1 /\ g.next = 1
  BY <1>3, EmitFrame
<1>5. d = Append(Front(calls), g) /\ d = Onward /\ out' = Join(out, Between(f.at, f.part))
  BY <1>1 DEF Callers, Onward, Join
<1> HIDE DEF b, f, g, d
<1>6. NestAt(b, d, Join(out, Between(f.at, f.part)))
  BY <1>2, <1>3, <1>4, <1>5, NestNext
<1>7. NestAt(b, calls', out')
  BY <1>1, <1>5, <1>6
<1> QED BY <1>1, <1>7, NestKeeping DEF b

LEMMA EmitReturnNest ==
    ASSUME Tree, WholeInv, NestInv, EmitReturn
    PROVE  NestInv'
<1> DEFINE b == Program[Len(texts) + 1]
           f == Current
           d == Callers
           r == out \o Closer(Current.at, Current.part)
<1>1. /\ phase = "emit" /\ AtEnd /\ LastList /\ calls' = Callers
      /\ Callers = <<>> => out' = <<>> /\ texts' = Append(texts, r)
      /\ Callers # <<>> => out' = r /\ texts' = texts
      /\ UNCHANGED <<parserVars, phase, faulty, seen, checked>>
  BY DEF EmitReturn
<1>2. calls # <<>> /\ f = Last(calls) /\ f.next > Len(List(f)) /\ f.part = Len(Subs(f.at))
  BY <1>1 DEF AtEnd, Current, LastList
<1>3. /\ NoSwitch /\ b \in Range(Program) /\ calls \in Seq(Emits) /\ Chain(b, calls)
      /\ out \in Seq(Pieces) /\ NestAt(b, calls, out) /\ texts \in Seq(Seq(Pieces))
  BY <1>1, <1>2, NestHere
<1>4. d = Front(calls) /\ r = Join(out, Closer(f.at, f.part)) /\ d = Callers
  BY DEF Callers, Join
<1> HIDE DEF f, d, r, b
<1>5. (d # <<>> => NestAt(b, d, r)) /\ (d = <<>> => Told(b, r))
  BY <1>2, <1>3, <1>4, NestBack
<1>6. CASE d # <<>>
  <2>1. NestAt(b, calls', out') /\ texts' = texts
    BY <1>1, <1>4, <1>5, <1>6
  <2> QED BY <1>1, <2>1, NestKeeping DEF b
<1>7. CASE d = <<>>
  <2>1. texts' = Append(texts, r) /\ calls' = <<>> /\ Told(b, r)
    BY <1>1, <1>4, <1>5, <1>7
  <2>2. Len(texts') = Len(texts) + 1 /\ Len(texts) \in Nat /\ texts'[Len(texts) + 1] = r
        /\ \A j \in 1 .. Len(texts) : texts'[j] = texts[j]
    <3> DEFINE P == Seq(Pieces)
    <3>1. texts \in Seq(P)
      BY <1>3
    <3>2. r \in P
      BY <2>1 DEF Told
    <3> HIDE DEF P
    <3> QED BY <2>1, <3>1, <3>2
  <2>3. \A j \in 1 .. Len(texts') : Told(Program[j], texts'[j])
    <3>1. \A j \in 1 .. Len(texts') : j = Len(texts) + 1 \/ j \in 1 .. Len(texts)
      BY <2>2
    <3>2. Told(Program[Len(texts) + 1], r)
      BY <2>1 DEF b
    <3> QED BY <2>2, <3>1, <3>2 DEF NestInv, TextsTold
  <2>4. \A e, t : Told(e, t)' <=> Told(e, t)
    BY <1>1, StaysNest
  <2>5. Program' = Program
    BY <1>1, Stays
  <2>6. TextsTold'
    BY <2>3, <2>4, <2>5 DEF TextsTold
  <2>7. NoSwitch'
    BY <1>1, NoSwitchStays DEF NestInv
  <2>8. OutTold'
    BY <2>1 DEF OutTold
  <2> QED BY <2>6, <2>7, <2>8 DEF NestInv
<1> QED BY <1>6, <1>7

LEMMA NestStepping ==
    ASSUME WholeInv, NestInv, [Next]_vars
    PROVE  NestInv'
<1>1. CASE Parse
  BY <1>1, ParseNest DEF Parse
<1>2. CASE UNCHANGED vars
  BY <1>2, QuietNest DEF vars, walkVars
<1>3. CASE CheckBody \/ CheckOp \/ CheckNextList \/ CheckReturn \/ Analysed \/ Emitted
  BY <1>3, CheckNest
<1>4. CASE EmitBody \/ EmitOp \/ EmitNextList \/ EmitReturn
  <2>1. phase = "emit"
    BY <1>4 DEF EmitBody, EmitOp, EmitNextList, EmitReturn
  <2>2. Tree
    BY <2>1 DEF WholeInv, WalkInv, Fresh, Tree
  <2> QED BY <1>4, <2>2, EmitBodyNest, EmitOpNest, EmitNextNest, EmitReturnNest
<1> QED BY <1>1, <1>2, <1>3, <1>4 DEF Next

\* What the code generation has written tells what it has visited: the text of
\* each function before, all of its operations, and the text under work, those in
\* front of the walk, inside the braces of the activations that are still open.
THEOREM BlocksTextsTold == Spec => [](WholeInv /\ NestInv)
<1>1. Init => WholeInv /\ NestInv
  <2> SUFFICES ASSUME Init PROVE WholeInv /\ NestInv
    OBVIOUS
  <2>1. ops = <<>> \/ DOMAIN ops = {}
    BY DEF Init, ParserInit
  <2>2. NoSwitch
    BY <2>1 DEF NoSwitch
  <2>3. TextsTold /\ OutTold
    BY DEF Init, TextsTold, OutTold
  <2> QED BY <2>2, <2>3, BlocksStarting DEF NestInv
<1>2. WholeInv /\ NestInv /\ [Next]_vars => (WholeInv /\ NestInv)'
  BY BlocksStepping, NestStepping
<1> QED BY <1>1, <1>2, PTL DEF Spec

--------------------------------------------------------------------------------
(* Case labels are where their switches are.                                  *)

\* A label is in the body, and has code, with the switch.
LEMMA LabelBody ==
    ASSUME Tree, NEW j \in DOMAIN text, text[j] \in Labels,
           NEW q, q = Innermost(j).at, NEW b
    PROVE  /\ Within(j)[1].at = b <=> q \in OpsOf(b)
           /\ HasCode(j) <=> HasCode(q)
<1> DEFINE n == Len(Around(j))
           k == Innermost(j).part
<1>1. /\ j \in 1 .. Here /\ n \in 2 .. n /\ n \in Nat /\ n > 1
      /\ q \in DOMAIN ops /\ IsSwitch(q)
      /\ Innermost(j) = Around(j)[n] /\ Switched(Around(j)[n].kind)
  BY LabelOf
<1>2. ParserTypeOK /\ q = Around(j)[n].at
  BY <1>1, Whole
<1>3. /\ q \in 1 .. Here /\ Len(Around(q)) = n - 1
      /\ \A m \in 1 .. n - 1 : Around(q)[m] = Around(j)[m]
  BY <1>1, <1>2, Positions, ZenonT(60)
<1>4. q \in Starts \ Definitions
  <2>1. ASSUME q \in Definitions PROVE FALSE
    <3>1. ops[q].kind = "/1" /\ q # 0
      BY <1>1, <2>1, Programs, Whole
    <3>2. ops[q].kind = "switch {"
      BY <1>1, <3>1 DEF IsSwitch, Kind
    <3> QED BY <3>1, <3>2
  <2> QED BY <1>1, <2>1, Whole
<1> HIDE DEF n
<1>5. Function(j) <=> Function(q)
  <2>1. CASE n = 2
    <3>1. ~Function(q)
      BY <1>3, <2>1 DEF Function
    <3>2. Function(j) <=> q \in Definitions
      BY <1>1, <1>2, <2>1, FunctionAt DEF n
    <3> QED BY <1>4, <3>1, <3>2
  <2>2. CASE n # 2
    <3>1. 2 \in 1 .. n - 1 /\ n > 1 /\ Len(Around(q)) > 1
      BY <1>1, <1>3, <2>2
    <3>2. Around(q)[2] = Around(j)[2]
      BY <1>3, <3>1
    <3> QED BY <3>1, <3>2 DEF Function, n
  <2> QED BY <2>1, <2>2
<1>6. Root(j) = Root(q)
  BY <1>5 DEF Root
<1>7. Within(j)[1] = Within(q)[1]
  <2>1. Within(j)[1] = Around(j)[Root(j)]
    BY <1>1, WithinFacts
  <2>2. Within(q)[1] = Around(q)[Root(q)] /\ Root(q) \in 1 .. Len(Around(q))
    BY <1>3, WithinFacts
  <2> QED BY <1>3, <1>6, <2>1, <2>2
<1>8. Within(j)[1].at = b <=> q \in OpsOf(b)
  BY <1>4, <1>7 DEF OpsOf
<1>9. HasCode(j) <=> HasCode(q)
  <2> DEFINE S == {"sizeof a["}
  <2>1. Enclosed(j, S) <=> \E i \in 1 .. n : Around(j)[i].kind \in S
    BY <1>1, EnclosedRange DEF n
  <2>2. Enclosed(q, S) <=> \E i \in 1 .. n - 1 : Around(q)[i].kind \in S
    <3>1. Enclosed(q, S) <=> \E i \in 1 .. Len(Around(q)) : Around(q)[i].kind \in S
      BY <1>3, EnclosedRange
    <3> QED BY <1>3, <3>1
  <2>3. Around(j)[n].kind \notin S
    BY <1>1, SwitchedKind
  <2> HIDE DEF S
  <2>4. \A i \in 1 .. n : i # n => i \in 1 .. n - 1
    BY <1>1
  <2>5. \A i \in 1 .. n - 1 : i \in 1 .. n
    BY <1>1
  <2>6. Enclosed(j, S) <=> Enclosed(q, S)
    BY <1>3, <2>1, <2>2, <2>3, <2>4, <2>5
  <2> QED BY <2>6 DEF HasCode, S
<1> QED BY <1>8, <1>9

--------------------------------------------------------------------------------
(* The two properties of a text, from what it says.                           *)

\* The statements are those of the ops, each where its op is.
LEMMA ToldStatements ==
    ASSUME NEW b, NEW t, Told(b, t)
    PROVE  {<<t[j].kind, t[j].at, Situation(Enclosing(t)[j])>> : j \in Statements(t)}
             = {<<text[x], x, Trail(x)>> : x \in Coded(b)}
<1> DEFINE E == Enclosing(t)
<1>1. /\ DOMAIN t = 1 .. Len(t)
      /\ \A j \in 1 .. Len(t) : t[j].c = "stmt" =>
           /\ t[j].at \in OpsOf(b) /\ Carried(t[j].at) /\ t[j].kind = text[t[j].at]
           /\ Situation(E[j]) = Trail(t[j].at)
      /\ \A x \in OpsOf(b) : Carried(x) => \E j \in 1 .. Len(t) : t[j].c = "stmt" /\ t[j].at = x
  BY DEF Told, Faithful, Stated, Fit
<1> HIDE DEF E
<1>2. \A x : x \in Coded(b) <=> x \in OpsOf(b) /\ Carried(x)
  BY Zenon DEF Coded, Carried
<1>3. \A j : j \in Statements(t) <=> j \in 1 .. Len(t) /\ t[j].c = "stmt"
  BY <1>1 DEF Statements
<1>4. \A j \in Statements(t) :
        t[j].at \in Coded(b) /\ t[j].kind = text[t[j].at] /\ Situation(E[j]) = Trail(t[j].at)
  BY <1>1, <1>2, <1>3
<1>5. \A x \in Coded(b) : \E j \in Statements(t) : t[j].at = x
  BY <1>1, <1>2, <1>3
<1>6. {<<t[j].kind, t[j].at, Situation(E[j])>> : j \in Statements(t)}
        = {<<text[x], x, Trail(x)>> : x \in Coded(b)}
  <2>1. ASSUME NEW j \in Statements(t)
        PROVE  \E x \in Coded(b) : <<t[j].kind, t[j].at, Situation(E[j])>> = <<text[x], x, Trail(x)>>
    BY <1>4
  <2>2. ASSUME NEW x \in Coded(b)
        PROVE  \E j \in Statements(t) : <<t[j].kind, t[j].at, Situation(E[j])>> = <<text[x], x, Trail(x)>>
    BY <1>4, <1>5
  <2> QED BY <2>1, <2>2
<1> QED BY <1>6 DEF E

\* Its case labels are those of the ops that are switches.
LEMMA ToldLabels ==
    ASSUME Tree, NEW b, NEW t, Told(b, t)
    PROVE  {<<t[j].kind, t[j].at, t[j].part>> : j \in CaseLabels(t)}
             = {<<text[p], Innermost(p).at, Innermost(p).part + 1>> : p \in Cases(b)}
<1>1. /\ DOMAIN t = 1 .. Len(t)
      /\ \A j \in 1 .. Len(t) : t[j].c = "case" =>
           <<t[j].at, t[j].part - 1>> \in AllDone(b) /\ t[j].kind = ops[t[j].at].labels[t[j].part - 1]
      /\ \A g \in AllDone(b) : \E j \in 1 .. Len(t) : t[j].c = "case" /\ t[j].at = g[1] /\ t[j].part = g[2] + 1
      /\ t \in Seq(Pieces)
  BY DEF Told, Faithful, Grouped
<1>2. \A j : j \in CaseLabels(t) <=> j \in 1 .. Len(t) /\ t[j].c = "case"
  BY <1>1 DEF CaseLabels
<1>3. \A j \in 1 .. Len(t) : t[j].part \in Nat /\ t[j].at \in Nat
  <2>1. \A j \in 1 .. Len(t) : t[j] \in Pieces
    BY <1>1
  <2> QED BY <2>1 DEF Pieces
<1>4. ASSUME NEW q, NEW k
      PROVE  <<q, k>> \in AllDone(b) <=> q \in Nat /\ k \in Nat /\ q \in OpsOf(b) /\ Divided(q, k)
  <2>1. Reached(None, q, k)
    BY DEF Reached, None
  <2> QED BY <2>1 DEF AllDone, Done
<1>5. ASSUME NEW j \in CaseLabels(t)
      PROVE  \E p \in Cases(b) :
               <<t[j].kind, t[j].at, t[j].part>> = <<text[p], Innermost(p).at, Innermost(p).part + 1>>
  <2> DEFINE q == t[j].at
             k == t[j].part - 1
  <2>0. j \in 1 .. Len(t) /\ t[j].c = "case"
    BY <1>2
  <2>1. <<q, k>> \in AllDone(b) /\ t[j].kind = ops[q].labels[k]
    BY <1>1, <2>0
  <2>2. k + 1 = t[j].part
    BY <1>3, <2>0
  <2> HIDE DEF q, k
  <2>3. q \in OpsOf(b) /\ Divided(q, k)
    BY <1>4, <2>1
  <2>4. q \in DOMAIN ops /\ k \in DOMAIN ops[q].labels /\ HasCode(q)
    BY <2>3 DEF Divided, IsCase
  <2>5. Labelled(q, ops[q].labels) /\ ops[q].labels \in Seq(Labels)
    <3>1. LabelsKept /\ status # "error" /\ ParserTypeOK
      BY Whole DEF Tree, PInv
    <3> QED BY <2>4, <3>1 DEF LabelsKept, ParserTypeOK, Ops
  <2>6. PICK p \in DOMAIN text :
          text[p] = ops[q].labels[k] /\ Innermost(p).at = q /\ Innermost(p).part = k
    BY <2>4, <2>5 DEF Labelled
  <2>7. text[p] \in Labels
    BY <2>4, <2>5, <2>6
  <2>8. Within(p)[1].at = b /\ HasCode(p)
    BY <2>3, <2>4, <2>6, <2>7, LabelBody
  <2>9. p \in Cases(b)
    BY <2>7, <2>8 DEF Cases
  <2> QED BY <2>1, <2>2, <2>6, <2>9 DEF q
<1>6. ASSUME NEW p \in Cases(b)
      PROVE  \E j \in CaseLabels(t) :
               <<t[j].kind, t[j].at, t[j].part>> = <<text[p], Innermost(p).at, Innermost(p).part + 1>>
  <2> DEFINE q == Innermost(p).at
             k == Innermost(p).part
  <2>1. p \in DOMAIN text /\ text[p] \in Labels /\ Within(p)[1].at = b /\ HasCode(p)
    BY DEF Cases
  <2>2. IsCase(q, k) /\ IsSwitch(q) /\ text[p] = ops[q].labels[k]
    <3> DEFINE n == Len(Around(p))
    <3>1. n > 1 /\ IsCase(q, k) /\ IsSwitch(q) /\ text[p] = ops[q].labels[k]
      BY <2>1, LabelOf
    <3> QED BY <3>1
  <2>3. q \in OpsOf(b) /\ HasCode(q)
    BY <2>1, LabelBody
  <2>4. q \in Nat /\ k \in Nat
    BY <2>2, CasePiece
  <2> HIDE DEF q, k
  <2>5. <<q, k>> \in AllDone(b)
    BY <1>4, <2>2, <2>3, <2>4 DEF Divided
  <2>6. PICK j \in 1 .. Len(t) : t[j].c = "case" /\ t[j].at = q /\ t[j].part = k + 1
    BY <1>1, <2>5
  <2>7. t[j].part - 1 = k
    BY <2>4, <2>6
  <2>8. t[j].kind = ops[q].labels[k]
    BY <1>1, <2>6, <2>7
  <2>9. j \in CaseLabels(t)
    BY <1>2, <2>6
  <2> QED BY <2>2, <2>6, <2>8, <2>9 DEF q, k
<1> HIDE DEF CaseLabels, Cases
<1> QED BY <1>5, <1>6

--------------------------------------------------------------------------------
\* A text is of a body of a program that is parsed.
LEMMA TextOf ==
    ASSUME WholeInv, NestInv, NEW j \in DOMAIN texts
    PROVE  /\ Tree /\ Walked /\ phase # "check"
           /\ j \in DOMAIN Program /\ Program[j] \in Range(Program) /\ Told(Program[j], texts[j])
           /\ phase = "rejected" <=> Before(Len(Program))
<1>0. PInv /\ PartsKept /\ WalkInv /\ TextsTold
  BY DEF WholeInv, NestInv
<1>1. texts # <<>>
  <2>1. \A s : s = <<>> => DOMAIN s = {}
    OBVIOUS
  <2> QED BY <2>1
<1>2. Parsed
  BY <1>0, <1>1 DEF WalkInv, Fresh
<1>3. Tree /\ Walked
  BY <1>0, <1>2 DEF Tree, WalkInv
<1>4. phase # "check"
  BY <1>1, <1>3 DEF Walked, AtCheck
<1>5. texts \in Seq(Seq(Pieces)) /\ Len(texts) \in 0 .. Len(Program)
  BY <1>0, <1>3, <1>4 DEF WalkInv, Walked, AtEmit, AtRest
<1>6. Len(Program) \in Nat /\ DOMAIN Program = 1 .. Len(Program)
  BY <1>3, Programs
<1>7. j \in 1 .. Len(texts) /\ j \in 1 .. Len(Program)
  BY <1>5, <1>6
<1>8. Told(Program[j], texts[j])
  BY <1>0, <1>7 DEF TextsTold
<1>9. Program[j] \in Range(Program)
  BY <1>6, <1>7 DEF Range
<1> QED BY <1>3, <1>4, <1>6, <1>7, <1>8, <1>9 DEF Walked

LEMMA NestingIs ==
    ASSUME WholeInv, NestInv
    PROVE  NestingKept
<1> SUFFICES ASSUME NEW b \in DOMAIN texts
             PROVE  LET c == texts[b]
                        enclosing == Enclosing(c)
                    IN  /\ {<<c[j].kind, c[j].at, Situation(enclosing[j])>> : j \in Statements(c)}
                             = {<<text[j], j, {<<e.at, e.part>> : e \in Range(Within(j))}>> :
                                  j \in Coded(Program[b])}
                        /\ \A i, j \in Statements(c) : i < j => c[i].at < c[j].at
                        /\ {<<c[j].kind, c[j].at, c[j].part>> : j \in CaseLabels(c)}
                             = {<<text[j], Innermost(j).at, Innermost(j).part + 1>> :
                                  j \in Cases(Program[b])}
  BY DEF NestingKept
<1> DEFINE c == texts[b]
           a == Program[b]
<1>1. Tree /\ Told(a, c)
  BY TextOf
<1> HIDE DEF c, a
<1>2. {<<c[j].kind, c[j].at, Situation(Enclosing(c)[j])>> : j \in Statements(c)}
        = {<<text[j], j, {<<e.at, e.part>> : e \in Range(Within(j))}>> : j \in Coded(a)}
  <2>1. {<<c[j].kind, c[j].at, Situation(Enclosing(c)[j])>> : j \in Statements(c)}
          = {<<text[j], j, Trail(j)>> : j \in Coded(a)}
    BY <1>1, ToldStatements
  <2> QED BY <2>1 DEF Trail
<1>3. \A i, j \in Statements(c) : i < j => c[i].at < c[j].at
  <2>1. DOMAIN c = 1 .. Len(c) /\ Ordered(c)
    BY <1>1 DEF Told, Faithful
  <2> QED BY <2>1 DEF Ordered, Statements
<1>4. {<<c[j].kind, c[j].at, c[j].part>> : j \in CaseLabels(c)}
        = {<<text[j], Innermost(j).at, Innermost(j).part + 1>> : j \in Cases(a)}
  BY <1>1, ToldLabels
<1> QED BY <1>2, <1>3, <1>4 DEF c, a

\* Every operation that has code is in the C text of its function once, in the
\* order of the program and in the part of the constructs it was written in, and
\* every case label of such a switch in front of its own group.
THEOREM BlocksNestingKept == Spec => []NestingKept
<1>1. WholeInv /\ NestInv => NestingKept
  BY NestingIs
<1> QED BY <1>1, BlocksTextsTold, PTL

--------------------------------------------------------------------------------
(* Jumps.  A program that is rejected has no text, so that what is left by a   *)
(* jump is there.                                                            *)

Unsaid == phase = "rejected" => texts = <<>>

LEMMA UnsaidStepping ==
    ASSUME WholeInv, Unsaid, [Next]_vars
    PROVE  Unsaid'
<1>1. CASE phase' = phase /\ texts' = texts
  BY <1>1 DEF Unsaid
<1>2. CASE phase = "emit" /\ phase' # "rejected"
  BY <1>2 DEF Unsaid
<1>3. CASE Analysed
  <2>1. Parsed /\ phase = "check" /\ texts' = texts
    BY <1>3 DEF Analysed
  <2>2. texts = <<>>
    BY <2>1 DEF WholeInv, WalkInv, Walked, AtCheck
  <2> QED BY <2>1, <2>2 DEF Unsaid
<1>4. \/ phase' = phase /\ texts' = texts
      \/ phase = "emit" /\ phase' # "rejected"
      \/ Analysed
  <2>1. CASE Parse \/ UNCHANGED vars
    BY <2>1 DEF Parse, vars, walkVars
  <2>2. CASE CheckBody \/ CheckOp \/ CheckNextList \/ CheckReturn
    BY <2>2 DEF CheckBody, CheckOp, CheckNextList, CheckReturn
  <2>3. CASE EmitBody \/ EmitOp \/ EmitNextList \/ EmitReturn \/ Emitted
    BY <2>3 DEF EmitBody, EmitOp, EmitNextList, EmitReturn, Emitted
  <2> QED BY <2>1, <2>2, <2>3 DEF Next
<1> QED BY <1>1, <1>2, <1>3, <1>4

Left(kind) == Loops \cup {"loop"} \cup IF kind = "<" THEN {"switch {"} ELSE {}
LEMMA LeftIn ==
    /\ \A kind : Left(kind) \in Lefts
    /\ Loops \cup {"switch {"} \subseteq Left("<") /\ Loops \subseteq Left(">")
BY DEF Left, Lefts

LEMMA JumpsAre ==
    ASSUME WholeInv, NestInv, Unsaid
    PROVE  JumpsBind
<1> SUFFICES ASSUME NEW b \in DOMAIN texts, NEW j \in Statements(texts[b]),
                    texts[b][j].kind \in {"<", ">"}
             PROVE  /\ Target(Enclosing(texts[b])[j], Left(texts[b][j].kind)) # {}
                    /\ Target(Enclosing(texts[b])[j], Left(texts[b][j].kind))
                         = Target(Around(texts[b][j].at), Left(texts[b][j].kind))
  BY DEF JumpsBind, Left
<1> DEFINE c == texts[b]
           a == Program[b]
           x == c[j].at
           left == Left(c[j].kind)
<1>1. Tree /\ Told(a, c) /\ b \in DOMAIN Program /\ (phase = "rejected" <=> Before(Len(Program)))
  BY TextOf
<1>2. phase # "rejected"
  <2>1. \A s : s = <<>> => DOMAIN s = {}
    OBVIOUS
  <2> QED BY <2>1 DEF Unsaid
<1>3. Allowed(a)
  BY <1>1, <1>2, RulesAre
<1>4. x \in OpsOf(a) /\ c[j].kind = text[x] /\ Fit(Enclosing(c)[j], x)
  <2>1. DOMAIN c = 1 .. Len(c) /\ Stated(OpsOf(a), c)
    BY <1>1 DEF Told, Faithful
  <2>2. j \in 1 .. Len(c) /\ c[j].c = "stmt"
    BY <2>1 DEF Statements
  <2> QED BY <2>1, <2>2 DEF Stated
<1>5. left \in Lefts
  BY LeftIn
<1>6. Target(Enclosing(c)[j], left) = Target(Around(x), left)
  BY <1>4, <1>5 DEF Fit
<1>7. \E kinds : Enclosed(x, kinds) /\ kinds \subseteq left
  <2>1. CASE c[j].kind = "<"
    BY <1>3, <1>4, <2>1, LeftIn DEF Allowed
  <2>2. CASE c[j].kind = ">"
    BY <1>3, <1>4, <2>2, LeftIn DEF Allowed
  <2> QED BY <2>1, <2>2
<1>8. x \in 1 .. Here
  BY <1>1, <1>4, InBody
<1>9. Around(x) \in Seq(Entries)
  BY <1>1, <1>8, Whole, Positions
<1> HIDE DEF x, left
<1>10. PICK i \in 1 .. Len(Around(x)) : Around(x)[i].kind \in left
  <2>1. PICK kinds : Enclosed(x, kinds) /\ kinds \subseteq left
    BY <1>7
  <2>2. \E i \in 1 .. Len(Around(x)) : Around(x)[i].kind \in kinds
    BY <1>1, <1>8, <2>1, EnclosedRange
  <2> QED BY <2>1, <2>2
<1>11. Target(Around(x), left) # {}
  BY <1>9, <1>10, TargetSome
<1> QED BY <1>6, <1>11 DEF x, left

\* In the C text, "break" and "continue" leave or continue the construct that "<"
\* and ">" are about by the rules of the README, and there is one.
THEOREM BlocksJumpsBind == Spec => []JumpsBind
<1>1. Init => Unsaid
  BY DEF Init, Unsaid
<1>2. WholeInv /\ Unsaid /\ [Next]_vars => Unsaid'
  BY UnsaidStepping
<1>3. WholeInv /\ NestInv /\ Unsaid => JumpsBind
  BY JumpsAre
<1> QED BY <1>1, <1>2, <1>3, BlocksInvariant, BlocksTextsTold, PTL DEF Spec

================================================================================
