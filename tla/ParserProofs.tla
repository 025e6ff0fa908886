---------------------------- MODULE ParserProofs ----------------------------
(***************************************************************************)
(* Proofs about the parser and the syntax tree it builds.  First, who      *)
(* holds the nodes: the calls in progress hold pointers in their           *)
(* variables, nodes hold them as children, and at the end the root holds   *)
(* one; a pointer is only moved.  Then, what the recursive walks of the    *)
(* tree, Postorder and TypeOf, do, and what the parser, which prints the   *)
(* tree, infers its types and frees it, may rely on.                       *)
(***************************************************************************)
EXTENDS Parser, SequenceTheorems, FiniteSetTheorems, Induction

\* The tree without what the nodes say: only the pointers.
Children == [m \in 1 .. Len(heap) |-> heap[m].children]

(***************************************************************************)
(* The place of kind q with the coordinates i and k holds node n: the      *)
(* variable of the i-th call, the k-th child of node i, or the root.       *)
(***************************************************************************)
Holds(calls, children, root, n, q, i, k) ==
  \/ q = "first" /\ k = 0 /\ i \in 1 .. Len(calls) /\ calls[i].first = n
  \/ q = "value" /\ k = 0 /\ i \in 1 .. Len(calls) /\ calls[i].value = n
  \/ /\ q = "child" /\ i \in 1 .. Len(children) /\ k \in 1 .. Len(children[i])
     /\ children[i][k] = n
  \/ q = "root" /\ i = 0 /\ k = 0 /\ root = n

Held(calls, children, root, n) ==
  \E q, i, k : Holds(calls, children, root, n, q, i, k)

HeldOnce(calls, children, root, n) ==
  \A q, i, k, r, j, l :
    /\ Holds(calls, children, root, n, q, i, k)
    /\ Holds(calls, children, root, n, r, j, l)
    => q = r /\ i = j /\ k = l

Sole(calls, children, root, n) ==
  Held(calls, children, root, n) /\ HeldOnce(calls, children, root, n)

\* What the definition of OwnedOnce says of a node follows from Sole.
LEMMA SoleIsOwned ==
  ASSUME NEW n, Sole(frames, Children, ast, n), Len(heap) \in Nat
  PROVE  \E owner \in Owners(n) : Owners(n) = {owner}
<1> DEFINE Place(q, i, k) == CASE q = "child" -> <<q, i, k>>
                               [] q = "root"  -> <<q>>
                               [] OTHER       -> <<q, i>>
<1>1. Len(Children) = Len(heap) /\ \A m \in 1 .. Len(heap) : Children[m] = heap[m].children
  BY DEF Children
<1>2. ASSUME NEW o
      PROVE  o \in Owners(n) <=>
               \/ \E i \in 1 .. Len(frames) : o = <<"first", i>> /\ frames[i].first = n
               \/ \E i \in 1 .. Len(frames) : o = <<"value", i>> /\ frames[i].value = n
               \/ \E m \in 1 .. Len(heap) : \E k \in 1 .. Len(heap[m].children) :
                    o = <<"child", m, k>> /\ heap[m].children[k] = n
               \/ o = <<"root">> /\ ast = n
  BY DEF Owners
<1>3. ASSUME NEW o
      PROVE  o \in Owners(n) <=>
               \E q, i, k : Holds(frames, Children, ast, n, q, i, k) /\ o = Place(q, i, k)
  <2>1. ASSUME o \in Owners(n)
        PROVE  \E q, i, k : Holds(frames, Children, ast, n, q, i, k) /\ o = Place(q, i, k)
    <3>1. CASE \E i \in 1 .. Len(frames) : o = <<"first", i>> /\ frames[i].first = n
      BY <3>1 DEF Holds
    <3>2. CASE \E i \in 1 .. Len(frames) : o = <<"value", i>> /\ frames[i].value = n
      BY <3>2 DEF Holds
    <3>3. CASE \E m \in 1 .. Len(heap) : \E k \in 1 .. Len(heap[m].children) :
                    o = <<"child", m, k>> /\ heap[m].children[k] = n
      BY <3>3, <1>1 DEF Holds
    <3>4. CASE o = <<"root">> /\ ast = n
      BY <3>4 DEF Holds
    <3> QED BY <2>1, <1>2, <3>1, <3>2, <3>3, <3>4
  <2>2. ASSUME NEW q, NEW i, NEW k, Holds(frames, Children, ast, n, q, i, k),
               o = Place(q, i, k)
        PROVE  o \in Owners(n)
    BY <1>1, <1>2, <2>2 DEF Holds
  <2> QED BY <2>1, <2>2
<1>4. PICK q, i, k : Holds(frames, Children, ast, n, q, i, k)
  BY DEF Sole, Held
<1> HIDE DEF Place
<1>5. \A o : o \in Owners(n) <=> o = Place(q, i, k)
  BY <1>3, <1>4 DEF Sole, HeldOnce
<1> QED BY <1>5
-----------------------------------------------------------------------------
(***************************************************************************)
(* The innermost call is over and its caller, or the root, gets the node   *)
(* it returns in place of nothing.                                         *)
(***************************************************************************)
HandsBack(calls, root, calls2, root2, node) ==
  /\ Len(calls) \in Nat /\ root = Null
  /\ \/ Len(calls) = 1 /\ Len(calls2) = 0 /\ root2 = node
     \/ /\ Len(calls) > 1 /\ Len(calls2) = Len(calls) - 1 /\ root2 = Null
        /\ \A i \in 1 .. Len(calls) - 1 : calls2[i].first = calls[i].first
        /\ \A i \in 1 .. Len(calls) - 2 : calls2[i].value = calls[i].value
        /\ calls[Len(calls) - 1].value = Pending
        /\ calls2[Len(calls) - 1].value = node

\* What HandsBack says, told apart by whether there is a caller.
LEMMA HandsBackFacts ==
  ASSUME NEW calls, NEW calls2, NEW root, NEW root2, NEW node,
         HandsBack(calls, root, calls2, root2, node)
  PROVE  /\ Len(calls) \in Nat \ {0} /\ root = Null
         /\ Len(calls) = 1 => Len(calls2) = 0 /\ root2 = node
         /\ Len(calls) # 1 =>
              /\ Len(calls) > 1 /\ Len(calls2) = Len(calls) - 1 /\ root2 = Null
              /\ \A i \in 1 .. Len(calls) - 1 : calls2[i].first = calls[i].first
              /\ \A i \in 1 .. Len(calls) - 2 : calls2[i].value = calls[i].value
              /\ calls[Len(calls) - 1].value = Pending
              /\ calls2[Len(calls) - 1].value = node
<1>1. CASE Len(calls) = 1
  BY <1>1 DEF HandsBack
<1>2. CASE Len(calls) # 1
  BY <1>2 DEF HandsBack
<1> QED BY <1>1, <1>2

\* A call that only had a value hands it to its caller.
LEMMA ValueHandedBack ==
  ASSUME NEW calls, NEW calls2, NEW children, NEW root, NEW root2, NEW node,
         HandsBack(calls, root, calls2, root2, node),
         calls[Len(calls)].first = Null,
         \/ node = calls[Len(calls)].value
         \/ node = Null /\ calls[Len(calls)].value = Pending,
         NEW n \in Nat \ {0}, Sole(calls, children, root, n)
  PROVE  Sole(calls2, children, root2, n)
<1> USE DEF Null, Pending
<1>1. Held(calls2, children, root2, n)
  <2>1. PICK q, i, k : Holds(calls, children, root, n, q, i, k)
    BY DEF Sole, Held
  <2>2. \E r, j, l : Holds(calls2, children, root2, n, r, j, l)
    <3>1. CASE q = "value" /\ i = Len(calls)
      <4>1. node = n
        BY <2>1, <3>1 DEF Holds
      <4>2. \/ Holds(calls2, children, root2, n, "root", 0, 0)
            \/ Holds(calls2, children, root2, n, "value", Len(calls) - 1, 0)
        BY <4>1 DEF Holds, HandsBack
      <4> QED BY <4>2
    <3>2. ASSUME ~(q = "value" /\ i = Len(calls))
          PROVE  Holds(calls2, children, root2, n, q, i, k)
      <4>1. CASE q = "first"
        <5>1. k = 0 /\ i \in 1 .. Len(calls) /\ calls[i].first = n /\ i # Len(calls)
          BY <2>1, <4>1 DEF Holds
        <5>2. Len(calls) # 1 /\ i \in 1 .. Len(calls) - 1
          BY <5>1, HandsBackFacts
        <5>3. i \in 1 .. Len(calls2) /\ calls2[i].first = n
          BY <5>1, <5>2, HandsBackFacts
        <5> QED BY <4>1, <5>1, <5>3 DEF Holds
      <4>2. CASE q = "value"
        <5>1. k = 0 /\ i \in 1 .. Len(calls) /\ calls[i].value = n /\ i # Len(calls)
          BY <2>1, <3>2, <4>2 DEF Holds
        <5>2. Len(calls) # 1 /\ i \in 1 .. Len(calls) - 2
          BY <5>1, HandsBackFacts
        <5>3. i \in 1 .. Len(calls2) /\ calls2[i].value = n
          BY <5>1, <5>2, HandsBackFacts
        <5> QED BY <4>2, <5>1, <5>3 DEF Holds
      <4>3. CASE q = "child"
        BY <2>1, <4>3 DEF Holds
      <4> QED BY <2>1, <4>1, <4>2, <4>3 DEF Holds, HandsBack
    <3> QED BY <3>1, <3>2
  <2> QED BY <2>2 DEF Held
<1>2. HeldOnce(calls2, children, root2, n)
  <2> DEFINE Old(q, i, k) == Holds(calls, children, root, n, q, i, k)
             New2(q, i, k) == Holds(calls2, children, root2, n, q, i, k)
             Got(q, i, k) == \/ q = "root" /\ i = 0 /\ k = 0
                             \/ q = "value" /\ i = Len(calls) - 1 /\ k = 0
  <2>1. ASSUME NEW q, NEW i, NEW k, New2(q, i, k)
        PROVE  \/ Got(q, i, k) /\ Old("value", Len(calls), 0)
               \/ ~Got(q, i, k) /\ Old(q, i, k) /\ ~(q = "value" /\ i = Len(calls))
    <3>1. CASE q = "first"
      BY <2>1, <3>1 DEF Holds, HandsBack
    <3>2. CASE q = "value"
      <4>1. /\ Len(calls) > 1 /\ k = 0 /\ i \in 1 .. Len(calls) - 1
            /\ calls2[i].value = n
        BY <2>1, <3>2 DEF Holds, HandsBack
      <4>2. CASE i = Len(calls) - 1
        <5>1. node = n
          BY <4>1, <4>2 DEF HandsBack
        <5>2. Old("value", Len(calls), 0)
          BY <4>1, <5>1 DEF Holds, HandsBack
        <5> QED BY <3>2, <4>1, <4>2, <5>2
      <4>3. CASE i # Len(calls) - 1
        <5>1. Old(q, i, k)
          BY <3>2, <4>1, <4>3 DEF Holds, HandsBack
        <5> QED BY <3>2, <4>1, <4>3, <5>1 DEF HandsBack
      <4> QED BY <4>2, <4>3
    <3>3. CASE q = "child"
      BY <2>1, <3>3 DEF Holds
    <3>4. CASE q = "root"
      BY <2>1, <3>4 DEF Holds, HandsBack
    <3> QED BY <2>1, <3>1, <3>2, <3>3, <3>4 DEF Holds
  <2>2. \A q, i, k, r, j, l : Got(q, i, k) /\ Got(r, j, l) /\ New2(q, i, k) /\ New2(r, j, l)
          => q = r /\ i = j /\ k = l
    BY DEF Holds, HandsBack
  <2>3. \A q, i, k, r, j, l : Old(q, i, k) /\ Old(r, j, l) => q = r /\ i = j /\ k = l
    BY DEF Sole, HeldOnce
  <2> HIDE DEF Old, New2, Got
  <2>4. \A q, i, k, r, j, l : New2(q, i, k) /\ New2(r, j, l) => q = r /\ i = j /\ k = l
    BY <2>1, <2>2, <2>3
  <2> QED BY <2>4 DEF New2, HeldOnce
<1> QED BY <1>1, <1>2 DEF Sole

\* Nodes other than the one handed back: the innermost call holds them no
\* more, the others go on holding them.
LEMMA CallersKeep ==
  ASSUME NEW calls, NEW calls2, NEW children, NEW children2, NEW root, NEW root2, NEW node,
         HandsBack(calls, root, calls2, root2, node), NEW n \in Nat \ {0}, n # node,
         NEW q, q # "child", NEW i, NEW k
  PROVE  Holds(calls2, children2, root2, n, q, i, k)
           <=> (Holds(calls, children, root, n, q, i, k) /\ i # Len(calls))
<1> USE DEF Null, Pending
<1>1. CASE q = "first"
  <2>1. Holds(calls2, children2, root2, n, q, i, k)
          <=> (k = 0 /\ i \in 1 .. Len(calls2) /\ calls2[i].first = n)
    BY <1>1 DEF Holds
  <2>2. Holds(calls, children, root, n, q, i, k)
          <=> (k = 0 /\ i \in 1 .. Len(calls) /\ calls[i].first = n)
    BY <1>1 DEF Holds
  <2>3. CASE Len(calls) = 1
    BY <2>1, <2>2, <2>3, HandsBackFacts
  <2>4. CASE Len(calls) # 1
    <3>1. /\ Len(calls) \in Nat /\ Len(calls) > 1 /\ Len(calls2) = Len(calls) - 1
          /\ \A j \in 1 .. Len(calls) - 1 : calls2[j].first = calls[j].first
      BY <2>4, HandsBackFacts
    <3> QED BY <2>1, <2>2, <3>1
  <2> QED BY <2>3, <2>4
<1>2. CASE q = "value"
  <2>1. Holds(calls2, children2, root2, n, q, i, k)
          <=> (k = 0 /\ i \in 1 .. Len(calls2) /\ calls2[i].value = n)
    BY <1>2 DEF Holds
  <2>2. Holds(calls, children, root, n, q, i, k)
          <=> (k = 0 /\ i \in 1 .. Len(calls) /\ calls[i].value = n)
    BY <1>2 DEF Holds
  <2>3. CASE Len(calls) = 1
    BY <2>1, <2>2, <2>3 DEF HandsBack
  <2>4. CASE Len(calls) # 1
    <3>1. /\ Len(calls) \in Nat /\ Len(calls) > 1 /\ Len(calls2) = Len(calls) - 1
          /\ \A j \in 1 .. Len(calls) - 2 : calls2[j].value = calls[j].value
          /\ calls[Len(calls) - 1].value = -1
          /\ calls2[Len(calls) - 1].value = node
      BY <2>4 DEF HandsBack
    <3>2. CASE i = Len(calls) - 1
      BY <2>1, <2>2, <3>1, <3>2
    <3>3. CASE i # Len(calls) - 1
      BY <2>1, <2>2, <3>1, <3>3
    <3> QED BY <3>2, <3>3
  <2> QED BY <2>3, <2>4
<1>3. CASE q = "root"
  <2>1. ~Holds(calls, children, root, n, q, i, k)
    BY <1>3 DEF Holds, HandsBack
  <2>2. ~Holds(calls2, children2, root2, n, q, i, k)
    BY <1>3 DEF Holds, HandsBack
  <2> QED BY <2>1, <2>2
<1>4. CASE ~(q = "first" \/ q = "value" \/ q = "root")
  <2>1. ~Holds(calls, children, root, n, q, i, k)
    BY <1>4 DEF Holds
  <2>2. ~Holds(calls2, children2, root2, n, q, i, k)
    BY <1>4 DEF Holds
  <2> QED BY <2>1, <2>2
<1> QED BY <1>1, <1>2, <1>3, <1>4, Zenon

\* A call makes a node of what it has, at the end of the tree.
MakesNode(calls, children, children2) ==
  /\ Len(children) \in Nat /\ Len(children2) = Len(children) + 1
  /\ \A m \in 1 .. Len(children) : children2[m] = children[m]
  /\ \/ /\ calls[Len(calls)].first = Null
        /\ children2[Len(children) + 1] = <<calls[Len(calls)].value>>
     \/ children2[Len(children) + 1] = <<calls[Len(calls)].first, calls[Len(calls)].value>>

\* What the call held is now held by the node ...
LEMMA OperandsMoved ==
  ASSUME NEW calls, NEW calls2, NEW children, NEW children2, NEW root, NEW root2,
         HandsBack(calls, root, calls2, root2, Len(children) + 1),
         MakesNode(calls, children, children2),
         NEW n \in 1 .. Len(children), Sole(calls, children, root, n)
  PROVE  Sole(calls2, children2, root2, n)
<1> DEFINE L == Len(calls)
           H == Len(children)
           Old(q, i, k) == Holds(calls, children, root, n, q, i, k)
           New2(q, i, k) == Holds(calls2, children2, root2, n, q, i, k)
           Operand(q, i, k) == q \in {"first", "value"} /\ i = L /\ k = 0
           Child(q, i, k) == q = "child" /\ i = H + 1
<1>1. /\ L \in Nat \ {0} /\ H \in Nat /\ n \in Nat \ {0} /\ n # H + 1 /\ root # n
      /\ Len(children2) = H + 1
      /\ \A m \in 1 .. H : children2[m] = children[m]
  BY HandsBackFacts DEF MakesNode, Null
<1>2. \A q, i, k : Operand(q, i, k) =>
        (Old(q, i, k) <=> n = IF q = "first" THEN calls[L].first ELSE calls[L].value)
  BY <1>1 DEF Holds
<1>3. \A q, i, k : ~Child(q, i, k) =>
        (New2(q, i, k) <=> (Old(q, i, k) /\ ~Operand(q, i, k)))
  <2> TAKE q, i, k
  <2> HAVE ~Child(q, i, k)
  <2>1. CASE q = "child"
    BY <1>1, <2>1 DEF Holds
  <2>2. CASE q # "child"
    <3>1. New2(q, i, k) <=> (Old(q, i, k) /\ i # L)
      BY <1>1, <2>2, CallersKeep
    <3>2. Old(q, i, k) /\ i = L => Operand(q, i, k)
      BY <1>1, <2>2 DEF Holds
    <3> QED BY <3>1, <3>2
  <2> QED BY <2>1, <2>2
<1>4. CASE /\ calls[L].first = Null
           /\ children2[H + 1] = <<calls[L].value>>
  <2>1. \A q, i, k : Child(q, i, k) =>
          (New2(q, i, k) <=> (k = 1 /\ Old("value", L, 0)))
    BY <1>1, <1>2, <1>4 DEF Holds
  <2>2. ~Old("first", L, 0)
    BY <1>1, <1>2, <1>4 DEF Null
  <2> HIDE DEF Old, New2
  <2>3. \E q, i, k : New2(q, i, k)
    <3>1. PICK q, i, k : Old(q, i, k)
      BY DEF Sole, Held, Old
    <3>2. CASE Operand(q, i, k)
      <4>1. New2("child", H + 1, 1)
        BY <2>1, <2>2, <3>1, <3>2
      <4> QED BY <4>1
    <3>3. CASE ~Operand(q, i, k)
      <4>1. ~Child(q, i, k)
        BY <1>1, <3>1 DEF Old, Holds
      <4> QED BY <1>3, <3>1, <3>3, <4>1
    <3> QED BY <3>2, <3>3
  <2>4. \A q, i, k, r, j, l : New2(q, i, k) /\ New2(r, j, l) => q = r /\ i = j /\ k = l
    <3>1. \A q, i, k, r, j, l : Old(q, i, k) /\ Old(r, j, l) => q = r /\ i = j /\ k = l
      BY DEF Sole, HeldOnce, Old
    <3> QED BY <1>3, <2>1, <3>1
  <2> QED BY <2>3, <2>4 DEF Sole, Held, HeldOnce, New2
<1>5. CASE children2[H + 1] = <<calls[L].first, calls[L].value>>
  <2>1. \A q, i, k : Child(q, i, k) =>
          (New2(q, i, k) <=> \/ k = 1 /\ Old("first", L, 0)
                             \/ k = 2 /\ Old("value", L, 0))
    <3>1. \A q, i, k : Child(q, i, k) =>
            (New2(q, i, k) <=> \/ k = 1 /\ n = calls[L].first
                               \/ k = 2 /\ n = calls[L].value)
      <4> TAKE q, i, k
      <4> HAVE Child(q, i, k)
      <4> DEFINE pair == <<calls[L].first, calls[L].value>>
      <4>1. Len(pair) = 2 /\ pair[1] = calls[L].first /\ pair[2] = calls[L].value
        OBVIOUS
      <4> HIDE DEF pair
      <4>2. New2(q, i, k) <=> (k \in 1 .. Len(pair) /\ pair[k] = n)
        BY <1>1, <1>5 DEF Holds, pair
      <4> QED BY <4>1, <4>2
    <3>2. /\ Old("first", L, 0) <=> n = calls[L].first
          /\ Old("value", L, 0) <=> n = calls[L].value
      BY <1>2
    <3> HIDE DEF Old, New2
    <3> QED BY <3>1, <3>2
  <2> HIDE DEF Old, New2
  <2>3. \E q, i, k : New2(q, i, k)
    <3>1. PICK q, i, k : Old(q, i, k)
      BY DEF Sole, Held, Old
    <3>2. CASE Operand(q, i, k)
      <4>1. New2("child", H + 1, 1) \/ New2("child", H + 1, 2)
        BY <2>1, <3>1, <3>2
      <4> QED BY <4>1
    <3>3. CASE ~Operand(q, i, k)
      <4>1. ~Child(q, i, k)
        BY <1>1, <3>1 DEF Old, Holds
      <4> QED BY <1>3, <3>1, <3>3, <4>1
    <3> QED BY <3>2, <3>3
  <2>4. \A q, i, k, r, j, l : New2(q, i, k) /\ New2(r, j, l) => q = r /\ i = j /\ k = l
    <3>1. \A q, i, k, r, j, l : Old(q, i, k) /\ Old(r, j, l) => q = r /\ i = j /\ k = l
      BY DEF Sole, HeldOnce, Old
    <3> QED BY <1>3, <2>1, <3>1
  <2> QED BY <2>3, <2>4 DEF Sole, Held, HeldOnce, New2
<1> QED BY <1>4, <1>5 DEF MakesNode

\* All pointers are to nodes that were made.
Made(calls, children, last) ==
  /\ \A i \in 1 .. Len(calls) : {calls[i].first, calls[i].value} \subseteq Pending .. last
  /\ \A m \in 1 .. Len(children) : \A k \in 1 .. Len(children[m]) :
       children[m][k] \in Pending .. last

\* ... and the node by whoever gets it.
LEMMA NodeHandedBack ==
  ASSUME NEW calls, NEW calls2, NEW children, NEW children2, NEW root, NEW root2,
         HandsBack(calls, root, calls2, root2, Len(children) + 1),
         MakesNode(calls, children, children2), Made(calls, children, Len(children))
  PROVE  Sole(calls2, children2, root2, Len(children) + 1)
<1> DEFINE L == Len(calls)
           H == Len(children)
           New2(q, i, k) == Holds(calls2, children2, root2, H + 1, q, i, k)
<1>1. /\ L \in Nat \ {0} /\ H \in Nat /\ Len(children2) = H + 1
      /\ \A m \in 1 .. H : children2[m] = children[m]
  BY HandsBackFacts DEF MakesNode
<1>2. /\ calls[L].first <= H /\ calls[L].value <= H
      /\ \A i \in 1 .. L : calls[i].first <= H /\ calls[i].value <= H
      /\ \A m \in 1 .. H : \A k \in 1 .. Len(children[m]) : children[m][k] <= H
  BY <1>1 DEF Made, Pending
<1>3. \A k \in 1 .. Len(children2[H + 1]) : children2[H + 1][k] <= H
  BY <1>1, <1>2 DEF MakesNode
<1>4. \A i, k : ~New2("child", i, k)
  BY <1>1, <1>2, <1>3 DEF Holds
<1>5. CASE L = 1
  <2>1. Len(calls2) = 0 /\ root2 = H + 1
    BY <1>5 DEF HandsBack
  <2>2. \A q, i, k : New2(q, i, k) <=> (q = "root" /\ i = 0 /\ k = 0)
    BY <1>4, <2>1 DEF Holds
  <2> HIDE DEF New2
  <2>3. Held(calls2, children2, root2, H + 1)
    BY <2>2 DEF Held, New2
  <2> QED BY <2>2, <2>3 DEF Sole, HeldOnce, New2
<1>6. CASE L # 1
  <2>1. /\ Len(calls2) = L - 1 /\ root2 = Null
        /\ \A i \in 1 .. L - 1 : calls2[i].first <= H
        /\ \A i \in 1 .. L - 2 : calls2[i].value <= H
        /\ calls2[L - 1].value = H + 1
    <3>1. /\ Len(calls2) = L - 1 /\ root2 = Null
          /\ \A i \in 1 .. L - 1 : calls2[i].first = calls[i].first
          /\ \A i \in 1 .. L - 2 : calls2[i].value = calls[i].value
          /\ calls2[L - 1].value = H + 1
      BY <1>6, HandsBackFacts
    <3> QED BY <1>1, <1>2, <3>1
  <2>2. \A q, i, k : New2(q, i, k) <=> (q = "value" /\ i = L - 1 /\ k = 0)
    <3> TAKE q, i, k
    <3>1. CASE q = "value"
      BY <1>1, <1>6, <2>1, <3>1 DEF Holds
    <3>2. CASE q # "value"
      BY <1>1, <1>4, <1>6, <2>1, <3>2 DEF Holds, Null
    <3> QED BY <3>1, <3>2
  <2> HIDE DEF New2
  <2>3. Held(calls2, children2, root2, H + 1)
    BY <2>2 DEF Held, New2
  <2> QED BY <2>2, <2>3 DEF Sole, HeldOnce, New2
<1> QED BY <1>5, <1>6
-----------------------------------------------------------------------------
\* Two calls are begun; the first of them gets the value of their caller, if
\* it had one, which it gives away.
Calls(calls, calls2) ==
  /\ Len(calls) \in Nat \ {0} /\ Len(calls2) = Len(calls) + 2
  /\ \A i \in 1 .. Len(calls) : calls2[i].first = calls[i].first
  /\ \A i \in 1 .. Len(calls) - 1 : calls2[i].value = calls[i].value
  /\ \A i \in Len(calls) .. Len(calls) + 2 : calls2[i].value = Pending
  /\ \/ calls2[Len(calls) + 1].first = calls[Len(calls)].value
     \/ calls[Len(calls)].value = Pending /\ calls2[Len(calls) + 1].first = Null
  /\ calls2[Len(calls) + 2].first = Null

\* The value of a call becomes the first operand of the call it makes.
LEMMA ValuePassed ==
  ASSUME NEW calls, NEW calls2, NEW children, NEW root, Calls(calls, calls2),
         NEW n \in Nat \ {0}, Sole(calls, children, root, n)
  PROVE  Sole(calls2, children, root, n)
<1> DEFINE L == Len(calls)
           Old(q, i, k) == Holds(calls, children, root, n, q, i, k)
           New2(q, i, k) == Holds(calls2, children, root, n, q, i, k)
           Giver(q, i, k) == q = "value" /\ i = L /\ k = 0
           Taker(q, i, k) == q = "first" /\ i = L + 1 /\ k = 0
<1>1. L \in Nat \ {0}
  BY DEF Calls
<1>2. \A q, i, k : Taker(q, i, k) => (New2(q, i, k) <=> Old("value", L, 0))
  <2>1. /\ New2("first", L + 1, 0) <=> calls2[L + 1].first = n
        /\ Old("value", L, 0) <=> calls[L].value = n
    BY <1>1 DEF Holds, Calls
  <2>2. calls2[L + 1].first = n <=> calls[L].value = n
    BY <1>1 DEF Calls, Null, Pending
  <2> HIDE DEF Old, New2
  <2> QED BY <2>1, <2>2
<1>3. \A q, i, k : ~Taker(q, i, k) =>
        (New2(q, i, k) <=> (Old(q, i, k) /\ ~Giver(q, i, k)))
  <2> TAKE q, i, k
  <2> HAVE ~Taker(q, i, k)
  <2>1. CASE q = "first"
    <3>1. New2(q, i, k) <=> (k = 0 /\ i \in 1 .. L + 2 /\ calls2[i].first = n)
      BY <2>1 DEF Holds, Calls
    <3>2. Old(q, i, k) <=> (k = 0 /\ i \in 1 .. L /\ calls[i].first = n)
      BY <2>1 DEF Holds
    <3>3. /\ \A j \in 1 .. L : calls2[j].first = calls[j].first
          /\ calls2[L + 2].first # n
      BY DEF Calls, Null
    <3> HIDE DEF Old, New2
    <3> QED BY <1>1, <2>1, <3>1, <3>2, <3>3
  <2>2. CASE q = "value"
    <3>1. New2(q, i, k) <=> (k = 0 /\ i \in 1 .. L + 2 /\ calls2[i].value = n)
      BY <2>2 DEF Holds, Calls
    <3>2. Old(q, i, k) <=> (k = 0 /\ i \in 1 .. L /\ calls[i].value = n)
      BY <2>2 DEF Holds
    <3>3. /\ \A j \in 1 .. L - 1 : calls2[j].value = calls[j].value
          /\ \A j \in L .. L + 2 : calls2[j].value # n
      BY DEF Calls, Pending
    <3> HIDE DEF Old, New2
    <3> QED BY <1>1, <2>2, <3>1, <3>2, <3>3
  <2>3. CASE ~(q = "first" \/ q = "value")
    BY <2>3 DEF Holds
  <2> QED BY <2>1, <2>2, <2>3
<1> HIDE DEF Old, New2
<1>4. \E q, i, k : New2(q, i, k)
  <2>1. PICK q, i, k : Old(q, i, k)
    BY DEF Sole, Held, Old
  <2>2. CASE Giver(q, i, k)
    <3>1. New2("first", L + 1, 0)
      BY <1>2, <2>1, <2>2
    <3> QED BY <3>1
  <2>3. CASE ~Giver(q, i, k)
    <3>1. ~Taker(q, i, k)
      BY <1>1, <2>1 DEF Old, Holds
    <3> QED BY <1>3, <2>1, <2>3, <3>1
  <2> QED BY <2>2, <2>3
<1>5. \A q, i, k, r, j, l : New2(q, i, k) /\ New2(r, j, l) => q = r /\ i = j /\ k = l
  <2>1. \A q, i, k, r, j, l : Old(q, i, k) /\ Old(r, j, l) => q = r /\ i = j /\ k = l
    BY DEF Sole, HeldOnce, Old
  <2> QED BY <1>2, <1>3, <2>1
<1> QED BY <1>4, <1>5 DEF Sole, Held, HeldOnce, New2

\* A node without children is made for a call that had nothing yet.
MakesLeaf(calls, calls2, children, children2) ==
  /\ Len(calls) \in Nat \ {0} /\ Len(calls2) = Len(calls)
  /\ Len(children) \in Nat /\ Len(children2) = Len(children) + 1
  /\ \A i \in 1 .. Len(calls) : calls2[i].first = calls[i].first
  /\ \A i \in 1 .. Len(calls) - 1 : calls2[i].value = calls[i].value
  /\ calls[Len(calls)].value = Pending /\ calls2[Len(calls)].value = Len(children) + 1
  /\ \A m \in 1 .. Len(children) : children2[m] = children[m]
  /\ Len(children2[Len(children) + 1]) = 0

\* A new node without children is held by the call that made it.
LEMMA LeafHeld ==
  ASSUME NEW calls, NEW calls2, NEW children, NEW children2, NEW root,
         MakesLeaf(calls, calls2, children, children2),
         Made(calls, children, Len(children)), root = Null,
         NEW n \in 1 .. Len(children) + 1,
         n <= Len(children) => Sole(calls, children, root, n)
  PROVE  Sole(calls2, children2, root, n)
<1> DEFINE L == Len(calls)
           H == Len(children)
           Old(q, i, k) == Holds(calls, children, root, n, q, i, k)
           New2(q, i, k) == Holds(calls2, children2, root, n, q, i, k)
           Hole(q, i, k) == q = "value" /\ i = L /\ k = 0
<1>1. /\ L \in Nat \ {0} /\ H \in Nat /\ n \in Nat \ {0}
      /\ L \in 1 .. L
  BY DEF MakesLeaf
<1>2. \A q, i, k : ~Hole(q, i, k) => (New2(q, i, k) <=> Old(q, i, k))
  <2> TAKE q, i, k
  <2> HAVE ~Hole(q, i, k)
  <2>1. CASE q = "first"
    BY <2>1 DEF Holds, MakesLeaf
  <2>2. CASE q = "value"
    <3>1. New2(q, i, k) <=> (k = 0 /\ i \in 1 .. L /\ calls2[i].value = n)
      BY <2>2 DEF Holds, MakesLeaf
    <3>2. Old(q, i, k) <=> (k = 0 /\ i \in 1 .. L /\ calls[i].value = n)
      BY <2>2 DEF Holds
    <3>3. \A j \in 1 .. L - 1 : calls2[j].value = calls[j].value
      BY DEF MakesLeaf
    <3> HIDE DEF Old, New2
    <3> QED BY <1>1, <2>2, <3>1, <3>2, <3>3
  <2>3. CASE q = "child"
    <3>1. /\ Len(children2) = H + 1 /\ \A m \in 1 .. H : children2[m] = children[m]
          /\ Len(children2[H + 1]) = 0
      BY DEF MakesLeaf
    <3>2. CASE i = H + 1
      BY <1>1, <2>3, <3>1, <3>2 DEF Holds
    <3>3. CASE i # H + 1
      BY <1>1, <2>3, <3>1, <3>3 DEF Holds
    <3> QED BY <3>2, <3>3
  <2>4. CASE ~(q = "first" \/ q = "value" \/ q = "child")
    BY <2>4 DEF Holds
  <2> QED BY <2>1, <2>2, <2>3, <2>4
<1>3. /\ New2("value", L, 0) <=> n = H + 1
      /\ ~Old("value", L, 0)
  BY <1>1 DEF Holds, MakesLeaf, Pending
<1>4. CASE n = H + 1
  <2>1. \A q, i, k : ~Old(q, i, k)
    BY <1>1, <1>4 DEF Made, Holds, Null, Pending
  <2> HIDE DEF Old, New2
  <2>2. \A q, i, k : New2(q, i, k) <=> Hole(q, i, k)
    BY <1>2, <1>3, <1>4, <2>1
  <2>3. \E q, i, k : New2(q, i, k)
    BY <2>2
  <2> QED BY <2>2, <2>3 DEF Sole, Held, HeldOnce, New2
<1>5. CASE n # H + 1
  <2>1. Sole(calls, children, root, n)
    BY <1>1, <1>5
  <2> HIDE DEF Old, New2
  <2>2. \A q, i, k : New2(q, i, k) <=> Old(q, i, k)
    BY <1>2, <1>3, <1>5
  <2> QED BY <2>1, <2>2 DEF Sole, Held, HeldOnce, New2, Old
<1> QED BY <1>4, <1>5
-----------------------------------------------------------------------------
Tokens == TokenTypes \cup {"EOF", "none"}

Compilers == [current : Tokens, previous : Tokens, is_panic : BOOLEAN, is_error : BOOLEAN]

Frames == [fn       : {"precedence", "grouping", "unary", "binary"},
           operator : Tokens,
           min      : Nat,
           first    : Int,
           value    : Int]

IsSequence(s) == \E S : s \in Seq(S)

ShapeInv ==
  /\ compiler \in Compilers
  /\ frames \in Seq(Frames)
  /\ IsSequence(heap)
  /\ \A n \in 1 .. Len(heap) : "children" \in DOMAIN heap[n]

\* What the calls in progress have in common: all but the innermost wait for
\* a value, and only compiler_parse_binary was given an operand.
Waiting(calls) ==
  /\ \A i \in 1 .. Len(calls) - 1 : calls[i].value = Pending
  /\ \A i \in 1 .. Len(calls) : calls[i].fn # "binary" => calls[i].first = Null

OwnersInv ==
  /\ Waiting(frames)
  /\ phase = "parsing" <=> frames # << >>
  /\ phase = "parsing" => ast = Null
  /\ Made(frames, Children, Len(heap))
  /\ \A n \in 1 .. Len(heap) : Sole(frames, Children, ast, n)

\* The inductive invariant.
PInv == ShapeInv /\ (phase # "crashed" => OwnersInv)

\* What the invariant says of the heap.
LEMMA HeapFacts ==
  ASSUME ShapeInv
  PROVE  /\ Len(heap) \in Nat /\ Len(Children) = Len(heap)
         /\ \A m \in 1 .. Len(heap) : Children[m] = heap[m].children
<1>1. Len(heap) \in Nat
  BY DEF ShapeInv, IsSequence
<1> QED BY <1>1 DEF Children

\* What it says of the innermost call.
LEMMA FrameFacts ==
  ASSUME ShapeInv, frames # << >>
  PROVE  /\ Len(frames) \in Nat \ {0}
         /\ \A i \in 1 .. Len(frames) : frames[i] \in Frames
         /\ Top = frames[Len(frames)] /\ Top \in Frames
<1>1. /\ Len(frames) \in Nat \ {0}
      /\ \A i \in 1 .. Len(frames) : frames[i] \in Frames
  BY EmptySeq, ElementOfSeq DEF ShapeInv
<1>2. Top = frames[Len(frames)]
  BY DEF Top, Last
<1> QED BY <1>1, <1>2

\* compiler_advance, with or without an error of its own.
LEMMA AdvanceTyped ==
  ASSUME ShapeInv, NEW past, NEW reports \in BOOLEAN, Advance(past, reports)
  PROVE  compiler' \in Compilers
<1>1. PICK token \in Answers(past), bad \in BOOLEAN :
        compiler' = [current  |-> token,
                     previous |-> compiler.current,
                     is_panic |-> compiler.is_panic \/ reports \/ bad,
                     is_error |-> \/ compiler.is_error
                                  \/ ~compiler.is_panic /\ (reports \/ bad)]
  BY DEF Advance
<1>2. token \in Tokens
  BY DEF Answers, Tokens
<1>3. compiler.current \in Tokens /\ compiler.is_panic \in BOOLEAN /\ compiler.is_error \in BOOLEAN
  BY DEF ShapeInv, Compilers
<1> QED BY <1>1, <1>2, <1>3 DEF Compilers

\* compiler_consume keeps the compiler's struct typed.
LEMMA ConsumeTyped ==
  ASSUME ShapeInv, NEW token, Consume(token)
  PROVE  compiler' \in Compilers
<1>1. CASE Advance(scanned, FALSE)
  BY <1>1, AdvanceTyped
<1>2. CASE Report
  BY <1>2 DEF Report, ShapeInv, Compilers
<1> QED BY <1>1, <1>2 DEF Consume

\* A call returns.
LEMMA ReturnFacts ==
  ASSUME ShapeInv, OwnersInv, phase = "parsing", NEW node \in Int, Return(node)
  PROVE  /\ frames' \in Seq(Frames)
         /\ HandsBack(frames, ast, frames', ast', node)
         /\ Waiting(frames')
         /\ phase' = "parsing" <=> frames' # << >>
         /\ phase' = "parsing" => ast' = Null
<1> DEFINE L == Len(frames)
           callers == Front(frames)
<1>1. frames # << >> /\ ast = Null
  BY DEF OwnersInv
<1>2. L \in Nat \ {0} /\ \A i \in 1 .. L : frames[i] \in Frames
  BY <1>1, FrameFacts
<1>3. /\ callers \in Seq(Frames) /\ Len(callers) = L - 1
      /\ \A i \in 1 .. L - 1 : callers[i] = frames[i]
  <2>1. callers = SubSeq(frames, 1, L - 1)
    BY DEF Front
  <2> HIDE DEF callers
  <2>2. 1 \in Int /\ L - 1 \in Int /\ \A i \in 1 .. L - 1 : frames[i] \in Frames
    BY <1>2
  <2> HIDE DEF L
  <2>3. /\ callers \in Seq(Frames)
        /\ Len(callers) = IF 1 <= L - 1 THEN L - 1 - 1 + 1 ELSE 0
        /\ \A i \in 1 .. L - 1 - 1 + 1 : callers[i] = frames[1 + i - 1]
    BY <2>1, <2>2, SubSeqProperties
  <2>4. L - 1 - 1 + 1 = L - 1
    BY <1>2
  <2>5. \A i \in 1 .. L - 1 : 1 + i - 1 = i
    OBVIOUS
  <2>6. Len(callers) = L - 1
    BY <1>2, <2>3
  <2> QED BY <2>3, <2>4, <2>5, <2>6
<1>4. CASE L = 1
  <2>1. callers = << >>
    BY <1>3, <1>4, EmptySeq
  <2>2. frames' = << >> /\ ast' = node /\ phase' = "parsed"
    BY <2>1 DEF Return
  <2>3. Len(frames') = 0
    BY <2>2
  <2> QED BY <1>1, <1>4, <2>2, <2>3 DEF HandsBack, Waiting
<1>5. CASE L # 1
  <2>1. callers # << >> /\ L - 1 \in 1 .. Len(callers)
    BY <1>2, <1>3, <1>5
  <2> DEFINE new == [callers[L - 1] EXCEPT !.value = node]
  <2>2. frames' = [callers EXCEPT ![L - 1] = new] /\ ast' = ast /\ phase' = phase
    BY <1>3, <2>1 DEF Return
  <2>3. callers[L - 1] = frames[L - 1] /\ callers[L - 1] \in Frames
    BY <1>2, <1>3, <2>1
  <2>4. /\ new \in Frames /\ new.fn = frames[L - 1].fn
        /\ new.first = frames[L - 1].first /\ new.value = node
    BY <2>3 DEF Frames
  <2> HIDE DEF new, callers
  <2>5. /\ frames' \in Seq(Frames) /\ Len(frames') = L - 1
        /\ \A i \in 1 .. L - 1 : frames'[i] = IF i = L - 1 THEN new ELSE frames[i]
    BY <1>2, <1>3, <2>1, <2>2, <2>4, ExceptSeq
  <2>6. frames' # << >>
    BY <1>2, <1>5, <2>5
  <2>0. /\ \A i \in 1 .. L - 1 : frames[i].value = Pending
        /\ \A i \in 1 .. L : frames[i].fn # "binary" => frames[i].first = Null
    BY DEF OwnersInv, Waiting
  <2>9. L - 1 \in 1 .. L - 1 /\ L - 1 \in 1 .. L
    BY <1>2, <1>5
  <2>7. Waiting(frames')
    <3>1. \A i \in 1 .. L - 2 : frames'[i].value = Pending
      BY <1>2, <2>0, <2>5
    <3>2. \A i \in 1 .. L - 1 : frames'[i].fn # "binary" => frames'[i].first = Null
      BY <1>2, <2>0, <2>4, <2>5, <2>9
    <3>3. Len(frames') - 1 = L - 2
      BY <1>2, <2>5
    <3> QED BY <2>5, <3>1, <3>2, <3>3 DEF Waiting
  <2>8. HandsBack(frames, ast, frames', ast', node)
    <3>1. frames[L - 1].value = Pending
      BY <2>0, <2>9
    <3>2. frames'[L - 1].value = node
      BY <1>2, <1>5, <2>4, <2>5
    <3>3. \A i \in 1 .. L - 1 : frames'[i].first = frames[i].first
      BY <1>2, <2>4, <2>5
    <3>4. \A i \in 1 .. L - 2 : frames'[i].value = frames[i].value
      BY <1>2, <2>5
    <3> QED BY <1>1, <1>2, <1>5, <2>2, <2>5, <3>1, <3>2, <3>3, <3>4 DEF HandsBack
  <2> QED BY <1>1, <2>2, <2>5, <2>6, <2>7, <2>8
<1> QED BY <1>4, <1>5

\* All pointers still are to nodes that were made.
LEMMA MadeHandedBack ==
  ASSUME NEW calls, NEW calls2, NEW children, NEW root, NEW root2, NEW node,
         HandsBack(calls, root, calls2, root2, node),
         NEW last \in Nat, NEW last2 \in Nat, last <= last2,
         Made(calls, children, last), node \in Pending .. last2
  PROVE  Made(calls2, children, last2)
<1>1. /\ \A i \in 1 .. Len(calls) : /\ calls[i].first \in Pending .. last2
                                    /\ calls[i].value \in Pending .. last2
      /\ \A m \in 1 .. Len(children) : \A k \in 1 .. Len(children[m]) :
           children[m][k] \in Pending .. last2
  BY DEF Made, Pending
<1>2. CASE Len(calls) = 1
  BY <1>1, <1>2, HandsBackFacts DEF Made
<1>3. CASE Len(calls) # 1
  <2>1. /\ Len(calls) \in Nat /\ Len(calls2) = Len(calls) - 1
        /\ \A i \in 1 .. Len(calls) - 1 : calls2[i].first = calls[i].first
        /\ \A i \in 1 .. Len(calls) - 2 : calls2[i].value = calls[i].value
        /\ calls2[Len(calls) - 1].value = node
    BY <1>3, HandsBackFacts
  <2>2. \A i \in 1 .. Len(calls) - 1 : calls2[i].first \in Pending .. last2
    BY <1>1, <2>1
  <2>3. \A i \in 1 .. Len(calls) - 1 : calls2[i].value \in Pending .. last2
    <3> TAKE i \in 1 .. Len(calls) - 1
    <3>1. CASE i = Len(calls) - 1
      BY <2>1, <3>1
    <3>2. CASE i # Len(calls) - 1
      BY <1>1, <2>1, <3>2
    <3> QED BY <3>1, <3>2
  <2> QED BY <1>1, <2>1, <2>2, <2>3 DEF Made
<1> QED BY <1>2, <1>3

\* One more node.
LEMMA Allocated ==
  ASSUME ShapeInv, NEW node, "children" \in DOMAIN node, Allocate(node)
  PROVE  /\ IsSequence(heap')
         /\ Len(heap') = Len(heap) + 1
         /\ \A n \in 1 .. Len(heap') : "children" \in DOMAIN heap'[n]
         /\ Len(Children') = Len(Children) + 1
         /\ \A m \in 1 .. Len(Children) : Children'[m] = Children[m]
         /\ Children'[Len(Children) + 1] = node.children
<1>1. PICK S : heap \in Seq(S)
  BY DEF ShapeInv, IsSequence
<1>2. heap \in Seq(S \cup {node})
  BY <1>1, SeqMonotonic
<1>3. /\ heap' \in Seq(S \cup {node})
      /\ Len(heap') = Len(heap) + 1
      /\ \A i \in 1 .. Len(heap) : heap'[i] = heap[i]
      /\ heap'[Len(heap) + 1] = node
  BY <1>2, AppendProperties DEF Allocate
<1>4. Len(heap) \in Nat
  BY HeapFacts
<1>5. \A n \in 1 .. Len(heap') : "children" \in DOMAIN heap'[n]
  BY <1>3, <1>4 DEF ShapeInv
<1>6. Len(Children') = Len(heap') /\ \A m \in 1 .. Len(heap') : Children'[m] = heap'[m].children
  BY <1>3, <1>4 DEF Children
<1>7. IsSequence(heap')
  BY <1>3 DEF IsSequence
<1> QED BY <1>3, <1>4, <1>5, <1>6, <1>7, HeapFacts

\* A call hands back what it got itself, or nothing.
LEMMA ValueReturned ==
  ASSUME ShapeInv, OwnersInv, phase = "parsing", NEW node, Return(node), UNCHANGED heap,
         compiler' \in Compilers, Top.first = Null,
         node = Top.value \/ (node = Null /\ Top.value = Pending)
  PROVE  PInv'
<1>1. /\ frames # << >> /\ ast = Null
      /\ Top = frames[Len(frames)] /\ Top \in Frames /\ Len(frames) \in Nat \ {0}
  BY FrameFacts DEF OwnersInv
<1>2. node \in Int
  BY <1>1 DEF Frames, Null
<1>3. /\ frames' \in Seq(Frames)
      /\ HandsBack(frames, ast, frames', ast', node)
      /\ Waiting(frames')
      /\ phase' = "parsing" <=> frames' # << >>
      /\ phase' = "parsing" => ast' = Null
  BY <1>2, ReturnFacts
<1>4. Children' = Children /\ Len(heap) \in Nat
  BY HeapFacts DEF Children
<1>5. Top.value \in Pending .. Len(heap) /\ Made(frames, Children, Len(heap))
  BY <1>1 DEF OwnersInv, Made
<1>6. Made(frames', Children, Len(heap))
  <2>1. node \in Pending .. Len(heap)
    BY <1>4, <1>5 DEF Null, Pending
  <2> QED BY <1>3, <1>4, <1>5, <2>1, MadeHandedBack
<1>7. ASSUME NEW n \in 1 .. Len(heap) PROVE Sole(frames', Children, ast', n)
  <2>1. Sole(frames, Children, ast, n)
    BY DEF OwnersInv
  <2>2. n \in Nat \ {0}
    BY <1>4
  <2> QED BY <1>1, <1>3, <2>1, <2>2, ValueHandedBack
<1>8. ShapeInv'
  BY <1>3 DEF ShapeInv
<1> QED BY <1>3, <1>4, <1>6, <1>7, <1>8 DEF PInv, OwnersInv

\* A call makes a node of what it has and hands that back.
LEMMA NodeReturned ==
  ASSUME ShapeInv, OwnersInv, phase = "parsing", NEW node, "children" \in DOMAIN node,
         Allocate(node), Return(New), compiler' \in Compilers,
         \/ Top.first = Null /\ node.children = <<Top.value>>
         \/ node.children = <<Top.first, Top.value>>
  PROVE  PInv'
<1> DEFINE H == Len(heap)
<1>1. /\ frames # << >> /\ ast = Null
      /\ Top = frames[Len(frames)] /\ Top \in Frames /\ Len(frames) \in Nat \ {0}
  BY FrameFacts DEF OwnersInv
<1>2. H \in Nat /\ Len(Children) = H /\ New = H + 1 /\ New \in Int
  BY HeapFacts DEF New
<1>3. /\ frames' \in Seq(Frames)
      /\ HandsBack(frames, ast, frames', ast', H + 1)
      /\ Waiting(frames')
      /\ phase' = "parsing" <=> frames' # << >>
      /\ phase' = "parsing" => ast' = Null
  BY <1>2, ReturnFacts
<1>4. /\ IsSequence(heap') /\ Len(heap') = H + 1
      /\ \A n \in 1 .. Len(heap') : "children" \in DOMAIN heap'[n]
      /\ Len(Children') = H + 1
      /\ \A m \in 1 .. H : Children'[m] = Children[m]
      /\ Children'[H + 1] = node.children
  BY <1>2, Allocated
<1>5. MakesNode(frames, Children, Children')
  BY <1>1, <1>2, <1>4 DEF MakesNode
<1>6. Made(frames, Children, H)
  BY DEF OwnersInv
<1>7. Made(frames', Children', H + 1)
  <2>1. Made(frames, Children', H)
    <3>1. {Top.first, Top.value} \subseteq Pending .. H
      BY <1>1, <1>6 DEF Made
    <3>2. \A k \in 1 .. Len(Children'[H + 1]) : Children'[H + 1][k] \in Pending .. H
      BY <1>4, <3>1
    <3>3. \A m \in 1 .. H : \A k \in 1 .. Len(Children'[m]) : Children'[m][k] \in Pending .. H
      BY <1>2, <1>4, <1>6 DEF Made
    <3>4. \A m \in 1 .. Len(Children') : m \in 1 .. H \/ m = H + 1
      BY <1>2, <1>4
    <3> QED BY <1>6, <3>2, <3>3, <3>4 DEF Made
  <2>2. H + 1 \in Pending .. H + 1 /\ H <= H + 1
    BY <1>2 DEF Pending
  <2> QED BY <1>2, <1>3, <2>1, <2>2, MadeHandedBack
<1>8. ASSUME NEW n \in 1 .. H + 1 PROVE Sole(frames', Children', ast', n)
  <2>1. CASE n = H + 1
    BY <1>2, <1>3, <1>5, <1>6, <2>1, NodeHandedBack
  <2>2. CASE n # H + 1
    <3>1. n \in 1 .. H
      BY <1>2, <2>2
    <3>2. Sole(frames, Children, ast, n)
      BY <3>1 DEF OwnersInv
    <3> QED BY <1>2, <1>3, <1>5, <3>1, <3>2, OperandsMoved
  <2> QED BY <2>1, <2>2
<1>9. ShapeInv'
  BY <1>3, <1>4 DEF ShapeInv
<1> QED BY <1>3, <1>4, <1>7, <1>8, <1>9 DEF PInv, OwnersInv

\* Two calls are begun, the first of them perhaps with the value that the
\* caller had.
LEMMA CallsBegun ==
  ASSUME ShapeInv, OwnersInv, phase = "parsing", UNCHANGED <<phase, heap, ast>>,
         compiler' \in Compilers,
         NEW base \in Seq(Frames), Len(base) = Len(frames),
         \A i \in 1 .. Len(frames) - 1 : base[i] = frames[i],
         base[Len(frames)].fn = Top.fn, base[Len(frames)].first = Top.first,
         base[Len(frames)].value = Pending,
         NEW a \in Frames, NEW b \in Frames, frames' = base \o <<a, b>>,
         \/ a.fn = "binary" /\ a.first = Top.value
         \/ Top.value = Pending /\ a.first = Null,
         b.first = Null, a.value = Pending, b.value = Pending
  PROVE  PInv'
<1> DEFINE L == Len(frames)
<1>1. /\ frames # << >> /\ ast = Null
      /\ Top = frames[L] /\ Top \in Frames /\ L \in Nat \ {0}
  BY FrameFacts DEF OwnersInv
<1>2. /\ frames' \in Seq(Frames) /\ Len(frames') = L + 2
      /\ \A i \in 1 .. L : frames'[i] = base[i]
      /\ frames'[L + 1] = a /\ frames'[L + 2] = b
  <2> DEFINE pair == <<a, b>>
  <2>1. pair \in Seq(Frames) /\ Len(pair) = 2 /\ pair[1] = a /\ pair[2] = b
    OBVIOUS
  <2> HIDE DEF pair
  <2>2. frames' = base \o pair
    BY DEF pair
  <2> QED BY <1>1, <2>1, <2>2, ConcatProperties
<1>3. /\ \A i \in 1 .. L : frames'[i].first = frames[i].first
      /\ \A i \in 1 .. L : frames'[i].fn = frames[i].fn
      /\ \A i \in 1 .. L - 1 : frames'[i].value = frames[i].value
      /\ frames'[L].value = Pending
  <2>1. \A i \in 1 .. L : i = L \/ i \in 1 .. L - 1
    BY <1>1
  <2>2. L \in 1 .. L /\ \A i \in 1 .. L - 1 : i \in 1 .. L
    BY <1>1
  <2> QED BY <1>1, <1>2, <2>1, <2>2
<1>4. \A i \in L .. L + 2 : i = L \/ i = L + 1 \/ i = L + 2
  BY <1>1
<1>5. Calls(frames, frames')
  <2>1. \A i \in L .. L + 2 : frames'[i].value = Pending
    BY <1>2, <1>3, <1>4
  <2> QED BY <1>1, <1>2, <1>3, <2>1 DEF Calls
<1>6. \A i \in 1 .. L + 2 : i \in 1 .. L \/ i = L + 1 \/ i = L + 2
  BY <1>1
<1>7. Waiting(frames')
  <2>1. /\ \A i \in 1 .. L - 1 : frames[i].value = Pending
        /\ \A i \in 1 .. L : frames[i].fn # "binary" => frames[i].first = Null
    BY DEF OwnersInv, Waiting
  <2>2. \A i \in 1 .. L + 1 : i \in 1 .. L - 1 \/ i = L \/ i = L + 1
    BY <1>1
  <2>3. \A i \in 1 .. L + 1 : frames'[i].value = Pending
    BY <1>2, <1>3, <2>1, <2>2
  <2>4. \A i \in 1 .. L + 2 : frames'[i].fn # "binary" => frames'[i].first = Null
    BY <1>2, <1>3, <1>6, <2>1
  <2>5. Len(frames') - 1 = L + 1
    BY <1>1, <1>2
  <2> QED BY <1>2, <2>3, <2>4, <2>5 DEF Waiting
<1>8. Children' = Children /\ Len(heap) \in Nat
  BY HeapFacts DEF Children
<1>9. Made(frames', Children, Len(heap))
  <2>1. Made(frames, Children, Len(heap))
    BY DEF OwnersInv
  <2>2. L \in 1 .. L /\ \A i \in 1 .. L - 1 : i \in 1 .. L
    BY <1>1
  <2>3. \A i \in 1 .. L : frames'[i].first \in Pending .. Len(heap)
    BY <1>3, <2>1 DEF Made
  <2>4. {Pending, Null, Top.value} \subseteq Pending .. Len(heap)
    BY <1>1, <1>8, <2>1, <2>2 DEF Made, Pending, Null
  <2>5. \A i \in 1 .. L + 2 : frames'[i].first \in Pending .. Len(heap)
    BY <1>2, <1>6, <2>3, <2>4
  <2>6. \A i \in 1 .. L + 2 : frames'[i].value \in Pending .. Len(heap)
    <3>1. \A i \in 1 .. L - 1 : frames'[i].value \in Pending .. Len(heap)
      BY <1>3, <2>1, <2>2 DEF Made
    <3>2. \A i \in 1 .. L + 2 : i \in 1 .. L - 1 \/ i = L \/ i = L + 1 \/ i = L + 2
      BY <1>1
    <3> QED BY <1>2, <1>3, <2>4, <3>1, <3>2
  <2> QED BY <1>2, <2>1, <2>5, <2>6 DEF Made
<1>10. ASSUME NEW n \in 1 .. Len(heap) PROVE Sole(frames', Children, ast, n)
  <2>1. Sole(frames, Children, ast, n) /\ n \in Nat \ {0}
    BY <1>8 DEF OwnersInv
  <2> QED BY <1>5, <2>1, ValuePassed
<1>11. ShapeInv'
  BY <1>2 DEF ShapeInv
<1>12. frames' # << >>
  BY <1>1, <1>2
<1> QED BY <1>1, <1>7, <1>8, <1>9, <1>10, <1>11, <1>12 DEF PInv, OwnersInv

\* Steps that leave the calls, the tree and the root alone.
LEMMA Untouched ==
  ASSUME PInv, phase # "crashed", UNCHANGED <<frames, heap, ast>>, compiler' \in Compilers,
         phase' = "parsing" <=> phase = "parsing"
  PROVE  PInv'
<1>1. Children' = Children
  BY DEF Children
<1> QED BY <1>1 DEF PInv, ShapeInv, OwnersInv
-----------------------------------------------------------------------------
\* A source was just given to the compiler.
LEMMA GenerateKept == PInv /\ compiler_generate_ast => PInv'
<1> SUFFICES ASSUME PInv, compiler_generate_ast PROVE PInv'
  OBVIOUS
<1> DEFINE call == Precedence(PREC_ASSIGNMENT)
<1>1. /\ frames' = <<call>> /\ heap' = << >> /\ ast' = Null /\ phase' = "parsing"
  BY DEF compiler_generate_ast
<1>2. compiler' \in Compilers
  BY AdvanceTyped DEF compiler_generate_ast, PInv
<1>3. /\ call \in Frames /\ call.fn = "precedence"
      /\ call.first = Null /\ call.value = Pending
  BY DEF Precedence, Call, Frames, Tokens, PREC_NONE, PREC_ASSIGNMENT, Null, Pending
<1> HIDE DEF call
<1>4. /\ frames' \in Seq(Frames) /\ Len(frames') = 1 /\ frames'[1] = call /\ frames' # << >>
  BY <1>1, <1>3
<1>5. Len(heap') = 0 /\ IsSequence(heap')
  BY <1>1 DEF IsSequence
<1>6. Len(Children') = 0
  BY <1>5 DEF Children
<1>7. ShapeInv'
  BY <1>2, <1>4, <1>5 DEF ShapeInv
<1>8. Made(frames', Children', Len(heap'))
  BY <1>3, <1>4, <1>5, <1>6 DEF Made, Null, Pending
<1>9. Waiting(frames')
  BY <1>3, <1>4 DEF Waiting
<1> QED BY <1>1, <1>4, <1>5, <1>7, <1>8, <1>9 DEF PInv, OwnersInv

\* What is known in the middle of a parse.
LEMMA ParsingFacts ==
  ASSUME PInv, phase = "parsing"
  PROVE  /\ ShapeInv /\ OwnersInv
         /\ frames # << >> /\ ast = Null
         /\ Len(frames) \in Nat \ {0} /\ Top = frames[Len(frames)] /\ Top \in Frames
         /\ Top.fn # "binary" => Top.first = Null
         /\ compiler.current \in Tokens
<1>1. ShapeInv /\ OwnersInv
  BY DEF PInv
<1>2. /\ frames # << >> /\ ast = Null
      /\ Len(frames) \in Nat \ {0} /\ Top = frames[Len(frames)] /\ Top \in Frames
  BY <1>1, FrameFacts DEF OwnersInv
<1>3. Top.fn # "binary" => Top.first = Null
  BY <1>1, <1>2 DEF OwnersInv, Waiting
<1>4. compiler.current \in Tokens
  BY <1>1 DEF ShapeInv, Compilers
<1> QED BY <1>1, <1>2, <1>3, <1>4

\* compiler_parse_precedence returns.
LEMMA PrecedenceKept == PInv /\ (no_prefix \/ leave_precedence) => PInv'
<1>1. ASSUME PInv, no_prefix PROVE PInv'
  <2>1. /\ phase = "parsing" /\ Top.fn = "precedence" /\ Top.value = Pending
        /\ Advance(scanned, TRUE) /\ Return(Null) /\ UNCHANGED heap
    BY <1>1 DEF no_prefix, AtPrefix
  <2>2. compiler' \in Compilers
    BY <1>1, <2>1, AdvanceTyped DEF PInv
  <2> QED BY <1>1, <2>1, <2>2, ParsingFacts, ValueReturned
<1>2. ASSUME PInv, leave_precedence PROVE PInv'
  <2>1. /\ phase = "parsing" /\ Top.fn = "precedence"
        /\ Return(Top.value) /\ UNCHANGED <<compiler, heap>>
    BY <1>2 DEF leave_precedence, AtInfix
  <2>2. compiler' \in Compilers
    BY <1>2, <2>1 DEF PInv, ShapeInv
  <2> QED BY <1>2, <2>1, <2>2, ParsingFacts, ValueReturned
<1> QED BY <1>1, <1>2

\* compiler_parse_grouping, _unary and _binary return.
LEMMA NodesKept == PInv /\ (parse_grouping \/ parse_unary \/ parse_binary) => PInv'
<1>1. \A kind, operator, children :
        /\ "children" \in DOMAIN Node(kind, operator, children, "unknown", 0)
        /\ Node(kind, operator, children, "unknown", 0).children = children
  BY DEF Node
<1>2. ASSUME PInv, parse_grouping PROVE PInv'
  <2>1. /\ phase = "parsing" /\ Top.fn = "grouping" /\ Consume(")") /\ Return(New)
        /\ Allocate(Node("grouping", "none", <<Top.value>>, "unknown", 0))
    BY <1>2 DEF parse_grouping, Returned
  <2>2. compiler' \in Compilers
    BY <1>2, <2>1, ConsumeTyped DEF PInv
  <2> QED BY <1>1, <1>2, <2>1, <2>2, ParsingFacts, NodeReturned
<1>3. ASSUME PInv, parse_unary PROVE PInv'
  <2>1. /\ phase = "parsing" /\ Top.fn = "unary" /\ Return(New) /\ UNCHANGED compiler
        /\ Allocate(Node("unary", Top.operator, <<Top.value>>, "unknown", 0))
    BY <1>3 DEF parse_unary, Returned
  <2>2. compiler' \in Compilers
    BY <1>3, <2>1 DEF PInv, ShapeInv
  <2> QED BY <1>1, <1>3, <2>1, <2>2, ParsingFacts, NodeReturned
<1>4. ASSUME PInv, parse_binary PROVE PInv'
  <2>1. /\ phase = "parsing" /\ Return(New) /\ UNCHANGED compiler
        /\ Allocate(Node("binary", Top.operator, <<Top.first, Top.value>>, "unknown", 0))
    BY <1>4 DEF parse_binary, Returned
  <2>2. compiler' \in Compilers
    BY <1>4, <2>1 DEF PInv, ShapeInv
  <2> QED BY <1>1, <1>4, <2>1, <2>2, ParsingFacts, NodeReturned
<1> QED BY <1>2, <1>3, <1>4

\* A literal becomes the first operand.
LEMMA LiteralKept == PInv /\ parse_literal => PInv'
<1> SUFFICES ASSUME PInv, parse_literal PROVE PInv'
  OBVIOUS
<1> DEFINE L == Len(frames)
           H == Len(heap)
           new == [frames[L] EXCEPT !.value = New]
<1>1. PICK node :
        /\ "children" \in DOMAIN node /\ Len(node.children) = 0
        /\ Allocate(node)
  BY DEF parse_literal, Node
<1>2. /\ phase = "parsing" /\ Top.value = Pending /\ Advance(scanned, FALSE)
      /\ frames' = [frames EXCEPT ![L] = new] /\ UNCHANGED <<phase, ast>>
  BY DEF parse_literal, AtPrefix
<1>3. /\ ShapeInv /\ OwnersInv /\ frames # << >> /\ ast = Null
      /\ L \in Nat \ {0} /\ Top = frames[L] /\ Top \in Frames /\ L \in 1 .. L
  BY <1>2, ParsingFacts
<1>4. compiler' \in Compilers
  BY <1>2, <1>3, AdvanceTyped
<1>5. H \in Nat /\ Len(Children) = H /\ New = H + 1 /\ New \in Int
  BY <1>3, HeapFacts DEF New
<1>6. /\ new \in Frames /\ new.fn = frames[L].fn
      /\ new.first = frames[L].first /\ new.value = H + 1
  BY <1>3, <1>5 DEF Frames
<1> HIDE DEF new
<1>7. /\ frames' \in Seq(Frames) /\ Len(frames') = L
      /\ \A i \in 1 .. L : frames'[i] = IF i = L THEN new ELSE frames[i]
  BY <1>2, <1>3, <1>6, ExceptSeq DEF ShapeInv
<1>8. /\ IsSequence(heap') /\ Len(heap') = H + 1
      /\ \A n \in 1 .. Len(heap') : "children" \in DOMAIN heap'[n]
      /\ Len(Children') = H + 1
      /\ \A m \in 1 .. H : Children'[m] = Children[m]
      /\ Children'[H + 1] = node.children
  BY <1>1, <1>3, <1>5, Allocated
<1>9. /\ \A i \in 1 .. L : frames'[i].first = frames[i].first
      /\ \A i \in 1 .. L : frames'[i].fn = frames[i].fn
      /\ \A i \in 1 .. L - 1 : frames'[i].value = frames[i].value
      /\ frames'[L].value = H + 1
  <2>1. \A i \in 1 .. L : frames'[i].first = frames[i].first /\ frames'[i].fn = frames[i].fn
    BY <1>6, <1>7
  <2>2. \A i \in 1 .. L - 1 : i \in 1 .. L /\ i # L
    BY <1>3
  <2> QED BY <1>3, <1>6, <1>7, <2>1, <2>2
<1>10. MakesLeaf(frames, frames', Children, Children')
  BY <1>1, <1>2, <1>3, <1>5, <1>7, <1>8, <1>9 DEF MakesLeaf
<1>11. Made(frames, Children, H)
  BY <1>3 DEF OwnersInv
<1>12. ASSUME NEW n \in 1 .. H + 1 PROVE Sole(frames', Children', ast', n)
  <2>1. n <= H => Sole(frames, Children, ast, n)
    BY <1>3, <1>5 DEF OwnersInv
  <2> QED BY <1>2, <1>3, <1>5, <1>10, <1>11, <2>1, LeafHeld
<1>13. Waiting(frames')
  BY <1>3, <1>7, <1>9 DEF OwnersInv, Waiting
<1>14. Made(frames', Children', H + 1)
  <2>1. \A x : x \in Pending .. H => x \in Pending .. H + 1
    BY <1>5 DEF Pending
  <2>2. H + 1 \in Pending .. H + 1
    BY <1>5 DEF Pending
  <2>3. \A i \in 1 .. L : i = L \/ i \in 1 .. L - 1
    BY <1>3
  <2>4. \A i \in 1 .. L : {frames'[i].first, frames'[i].value} \subseteq Pending .. H + 1
    BY <1>9, <1>11, <2>1, <2>2, <2>3 DEF Made
  <2>5. \A m \in 1 .. H : \A k \in 1 .. Len(Children'[m]) : Children'[m][k] \in Pending .. H + 1
    BY <1>5, <1>8, <1>11, <2>1 DEF Made
  <2>6. \A m \in 1 .. H + 1 : m = H + 1 \/ m \in 1 .. H
    BY <1>5
  <2>7. \A k \in 1 .. Len(Children'[H + 1]) : FALSE
    BY <1>1, <1>8
  <2> QED BY <1>7, <1>8, <2>4, <2>5, <2>6, <2>7 DEF Made
<1>15. frames' # << >>
  BY <1>3, <1>7
<1>16. ShapeInv'
  BY <1>4, <1>7, <1>8 DEF ShapeInv
<1> QED BY <1>2, <1>3, <1>8, <1>12, <1>13, <1>14, <1>15, <1>16 DEF PInv, OwnersInv

\* The levels of precedence are numbers.
LEMMA Levels ==
  \A token : PrecedenceOf(token) \in Nat
BY DEF PrecedenceOf, PREC_TERM, PREC_FACTOR, PREC_NONE

\* compiler_parse_grouping, _unary or _binary is called and calls
\* compiler_parse_precedence.
LEMMA CallsKept == PInv /\ (call_prefix \/ call_infix) => PInv'
<1>1. ASSUME NEW fn \in {"grouping", "unary", "binary"}, NEW operator \in Tokens,
             NEW first \in Int
      PROVE  /\ Call(fn, operator, first) \in Frames /\ Call(fn, operator, first).fn = fn
             /\ Call(fn, operator, first).first = first
             /\ Call(fn, operator, first).value = Pending
  BY DEF Call, Frames, PREC_NONE, Pending
<1>2. ASSUME NEW min \in Nat
      PROVE  /\ Precedence(min) \in Frames /\ Precedence(min).first = Null
             /\ Precedence(min).value = Pending
  BY DEF Precedence, Call, Frames, Tokens, PREC_NONE, Pending, Null
<1>3. ASSUME PInv, call_prefix PROVE PInv'
  <2> DEFINE fn == Prefix(compiler.current)
             min == IF fn = "unary" THEN PREC_UNARY ELSE PREC_ASSIGNMENT
             a == Call(fn, compiler.current, Null)
             b == Precedence(min)
  <2>1. /\ phase = "parsing" /\ Top.value = Pending /\ Advance(scanned, FALSE)
        /\ fn \in {"grouping", "unary"} /\ UNCHANGED <<phase, heap, ast>>
        /\ frames' = frames \o <<a, b>>
    BY <1>3 DEF call_prefix, AtPrefix
  <2>2. min \in Nat /\ Null \in Int
    BY DEF PREC_UNARY, PREC_ASSIGNMENT, Null
  <2>3. compiler' \in Compilers
    BY <1>3, <2>1, AdvanceTyped DEF PInv
  <2>4. /\ a \in Frames /\ a.first = Null /\ a.value = Pending
        /\ b \in Frames /\ b.first = Null /\ b.value = Pending
    BY <1>1, <1>2, <1>3, <2>1, <2>2, ParsingFacts
  <2>5. frames \in Seq(Frames)
    BY <1>3 DEF PInv, ShapeInv
  <2> HIDE DEF a, b
  <2> QED BY <1>3, <2>1, <2>3, <2>4, <2>5, ParsingFacts, CallsBegun
<1>4. ASSUME PInv, call_infix PROVE PInv'
  <2>1. /\ phase = "parsing" /\ Advance(scanned, FALSE) /\ UNCHANGED <<heap, ast>>
    BY <1>4 DEF call_infix, AtInfix
  <2>2. compiler' \in Compilers
    BY <1>4, <2>1, AdvanceTyped DEF PInv
  <2>3. CASE phase' = "crashed" /\ UNCHANGED frames
    BY <1>4, <2>1, <2>2, <2>3 DEF PInv, ShapeInv
  <2>4. CASE ~(phase' = "crashed" /\ UNCHANGED frames)
    <3> DEFINE L == Len(frames)
               hollow == [frames[L] EXCEPT !.value = Pending]
               base == [frames EXCEPT ![L] = hollow]
               a == Call("binary", compiler.current, Top.value)
               b == Precedence(PrecedenceOf(compiler.current) + 1)
    <3>1. frames' = base \o <<a, b>> /\ UNCHANGED phase
      BY <1>4, <2>4 DEF call_infix
    <3>2. /\ Top = frames[L] /\ Top \in Frames /\ L \in 1 .. L
          /\ compiler.current \in Tokens /\ frames \in Seq(Frames)
      BY <1>4, <2>1, ParsingFacts DEF ShapeInv
    <3>3. /\ hollow \in Frames /\ hollow.fn = Top.fn /\ hollow.first = Top.first
          /\ hollow.value = Pending /\ Top.value \in Int
      BY <3>2 DEF Frames, Pending
    <3> HIDE DEF hollow
    <3>4. /\ base \in Seq(Frames) /\ Len(base) = L
          /\ \A i \in 1 .. L : base[i] = IF i = L THEN hollow ELSE frames[i]
      BY <3>2, <3>3, ExceptSeq
    <3> HIDE DEF base
    <3>5. \A i \in 1 .. L - 1 : base[i] = frames[i]
      BY <3>2, <3>4
    <3>6. /\ a \in Frames /\ a.fn = "binary" /\ a.first = Top.value /\ a.value = Pending
      BY <1>1, <3>2, <3>3
    <3>7. PrecedenceOf(compiler.current) + 1 \in Nat
      BY Levels
    <3>8. b \in Frames /\ b.first = Null /\ b.value = Pending
      BY <1>2, <3>7
    <3> HIDE DEF a, b
    <3>9. /\ base[L].fn = Top.fn /\ base[L].first = Top.first /\ base[L].value = Pending
      BY <3>2, <3>3, <3>4
    <3>10. ShapeInv /\ OwnersInv /\ UNCHANGED <<phase, heap, ast>>
      BY <1>4, <2>1, <3>1, ParsingFacts
    <3> QED BY <2>1, <2>2, <3>1, <3>4, <3>5, <3>6, <3>8, <3>9, <3>10, CallsBegun
  <2> QED BY <2>3, <2>4
<1> QED BY <1>3, <1>4

\* compiler_typecheck_ast writes types only.
LEMMA TypecheckKept == PInv /\ typecheck => PInv'
<1> SUFFICES ASSUME PInv, typecheck PROVE PInv'
  OBVIOUS
<1> DEFINE H == Len(heap)
           typed == [n \in 1 .. H |->
                       IF n \in ToSet(Postorder(heap, ast))
                       THEN [heap[n] EXCEPT !.type = TypeOf(heap, n)] ELSE heap[n]]
<1>1. /\ phase = "typecheck" /\ heap' = typed /\ phase' = "print typed"
      /\ UNCHANGED <<compiler, frames, ast>>
  BY DEF typecheck
<1>2. ShapeInv /\ OwnersInv
  BY <1>1 DEF PInv
<1>3. H \in Nat /\ Len(Children) = H /\ \A m \in 1 .. H : Children[m] = heap[m].children
  BY <1>2, HeapFacts
<1>4. ASSUME NEW n \in 1 .. H
      PROVE  "children" \in DOMAIN typed[n] /\ typed[n].children = heap[n].children
  <2>1. "children" \in DOMAIN heap[n]
    BY <1>2 DEF ShapeInv
  <2>2. CASE n \in ToSet(Postorder(heap, ast))
    <3>1. typed[n] = [heap[n] EXCEPT !.type = TypeOf(heap, n)]
      BY <2>2
    <3> QED BY <2>1, <3>1
  <2>3. CASE n \notin ToSet(Postorder(heap, ast))
    BY <2>1, <2>3
  <2> QED BY <2>2, <2>3
<1>5. DOMAIN typed = 1 .. H
  OBVIOUS
<1>6. typed = [n \in 1 .. H |-> typed[n]]
  OBVIOUS
<1> HIDE DEF typed
<1>7. typed \in Seq({typed[n] : n \in 1 .. H}) /\ Len(typed) = H
  BY <1>3, <1>5, <1>6
<1>8. IsSequence(heap') /\ Len(heap') = H
  BY <1>1, <1>7 DEF IsSequence
<1>9. Children' = Children
  BY <1>1, <1>3, <1>4, <1>8 DEF Children
<1>10. ShapeInv'
  BY <1>1, <1>2, <1>4, <1>8 DEF ShapeInv
<1> QED BY <1>1, <1>2, <1>8, <1>9, <1>10 DEF PInv, OwnersInv

\* The rest only reads the tree.
LEMMA OthersKept == PInv /\ (consume_eof \/ print \/ free \/ compiler_init) => PInv'
<1>1. ASSUME PInv, consume_eof PROVE PInv'
  <2>1. /\ phase = "parsed" /\ Consume("EOF") /\ UNCHANGED <<frames, heap, ast>>
        /\ phase' # "parsing"
    BY <1>1 DEF consume_eof
  <2>2. compiler' \in Compilers
    BY <1>1, <2>1, ConsumeTyped DEF PInv
  <2> QED BY <1>1, <2>1, <2>2, Untouched
<1>2. ASSUME PInv, print PROVE PInv'
  <2>1. /\ phase \in {"print untyped", "print typed"}
        /\ UNCHANGED <<compiler, frames, heap, ast>> /\ phase' # "parsing"
    BY <1>2 DEF print
  <2>2. compiler' \in Compilers
    BY <1>2, <2>1 DEF PInv, ShapeInv
  <2> QED BY <1>2, <2>1, <2>2, Untouched
<1>3. ASSUME PInv, free PROVE PInv'
  <2>1. /\ phase = "free" /\ phase' = "done" /\ UNCHANGED <<compiler, frames, heap, ast>>
    BY <1>3 DEF free
  <2>2. compiler' \in Compilers
    BY <1>3, <2>1 DEF PInv, ShapeInv
  <2> QED BY <1>3, <2>1, <2>2, Untouched
<1>4. ASSUME PInv, compiler_init PROVE PInv'
  <2>1. /\ phase = "done" /\ phase' = "ready" /\ UNCHANGED <<frames, heap, ast>>
        /\ compiler' = [compiler EXCEPT !.is_error = FALSE, !.is_panic = FALSE]
    BY <1>4 DEF compiler_init
  <2>2. compiler' \in Compilers
    BY <1>4, <2>1 DEF PInv, ShapeInv, Compilers
  <2> QED BY <1>4, <2>1, <2>2, Untouched
<1> QED BY <1>1, <1>2, <1>3, <1>4

\* Initially there is nothing to own.
LEMMA InvariantHolds == ParserInit => PInv
<1> SUFFICES ASSUME ParserInit PROVE PInv
  OBVIOUS
<1>1. /\ phase = "ready" /\ frames = << >> /\ heap = << >> /\ ast = Null
  BY DEF ParserInit
<1>2. compiler \in Compilers
  BY DEF ParserInit, Compilers, Tokens
<1>3. /\ frames \in Seq(Frames) /\ IsSequence(heap) /\ Len(heap) = 0 /\ Len(frames) = 0
  BY <1>1 DEF IsSequence
<1>4. Len(Children) = 0
  BY <1>3 DEF Children
<1> QED BY <1>1, <1>2, <1>3, <1>4 DEF PInv, ShapeInv, OwnersInv, Waiting, Made

\* Every step of the parser keeps the owners.
LEMMA InvariantKept == PInv /\ [ParserNext]_parserVars => PInv'
<1>1. ASSUME PInv, UNCHANGED parserVars PROVE PInv'
  BY <1>1 DEF parserVars, PInv, ShapeInv, OwnersInv, Children
<1> QED
  BY <1>1, GenerateKept, PrecedenceKept, NodesKept, LiteralKept, CallsKept, TypecheckKept,
     OthersKept
     DEF ParserNext, ParserStep

\* Each node is held at one place.
LEMMA OwnedByOne == PInv => OwnedOnce
<1> SUFFICES ASSUME PInv, phase # "crashed", NEW n \in 1 .. Len(heap)
             PROVE  \E owner \in Owners(n) : Owners(n) = {owner}
  BY DEF OwnedOnce
<1>1. Sole(frames, Children, ast, n) /\ Len(heap) \in Nat
  BY HeapFacts DEF PInv, OwnersInv
<1> QED BY <1>1, SoleIsOwned

(***************************************************************************)
(* However the source goes wrong, no node is lost and none is held twice:  *)
(* the pointers that the parse functions (compiler.c:423-519) hold, the    *)
(* children in the nodes and the root are one for each node.               *)
(***************************************************************************)
THEOREM EveryNodeHasOneOwner == ParserSpec => []OwnedOnce
BY OwnedByOne, InvariantHolds, InvariantKept, PTL DEF ParserSpec
-----------------------------------------------------------------------------
(***************************************************************************)
(* A node has at most two children; they are older than it, or missing.    *)
(***************************************************************************)
Ordered(tree) ==
  /\ Len(tree) \in Nat
  /\ \A n \in 1 .. Len(tree) : /\ tree[n].children \in Seq(0 .. n - 1)
                               /\ Len(tree[n].children) \in {0, 1, 2}

\* A step of Postorder, the walks from older nodes being known.
Visit(tree, walk, n) ==
  IF n = Null THEN <<Null>>
  ELSE CASE Len(tree[n].children) = 0 -> <<n>>
         [] Len(tree[n].children) = 1 -> Append(walk[tree[n].children[1]], n)
         [] OTHER -> Append(walk[tree[n].children[1]] \o walk[tree[n].children[2]], n)

\* A step of TypeOf, the types of older nodes being known.
Infer(tree, type, n) ==
  IF tree[n].type # "unknown" THEN tree[n].type
  ELSE CASE tree[n].kind = "unary" ->
              InferUnary(tree[n].operator, type[tree[n].children[1]])
         [] tree[n].kind = "binary" ->
              InferBinary(tree[n].operator, type[tree[n].children[1]],
                                            type[tree[n].children[2]])
         [] tree[n].kind = "grouping" -> type[tree[n].children[1]]
         [] OTHER -> "invalid"

\* Each kind of node has its number of children, and none is missing.
WholeTree(tree) ==
  /\ Ordered(tree)
  /\ \A n \in 1 .. Len(tree) :
       /\ \/ tree[n].kind = "value" /\ Len(tree[n].children) = 0
          \/ tree[n].kind \in {"unary", "grouping"} /\ Len(tree[n].children) = 1
          \/ tree[n].kind = "binary" /\ Len(tree[n].children) = 2
       /\ \A k \in 1 .. Len(tree[n].children) : tree[n].children[k] # Null

\* A node is older than its parent: what it allows to say about children.
LEMMA ChildrenOlder ==
  ASSUME NEW tree, Ordered(tree), NEW n \in 1 .. Len(tree)
  PROVE  /\ Len(tree[n].children) \in Nat
         /\ \A k \in 1 .. Len(tree[n].children) : tree[n].children[k] \in 0 .. n - 1
<1> DEFINE c == tree[n].children
<1>1. c \in Seq(0 .. n - 1)
  BY DEF Ordered
<1> HIDE DEF c
<1>2. Len(c) \in Nat /\ \A k \in 1 .. Len(c) : c[k] \in 0 .. n - 1
  BY <1>1, ElementOfSeq
<1> QED BY <1>2 DEF c

\* The step looks at the walks from the children only.
LEMMA VisitLocal ==
  ASSUME NEW tree, Ordered(tree), NEW n \in 0 .. Len(tree), NEW f, NEW g,
         \A i \in 0 .. n - 1 : f[i] = g[i]
  PROVE  Visit(tree, f, n) = Visit(tree, g, n)
<1>1. CASE n = 0
  BY <1>1 DEF Visit, Null
<1>2. CASE n # 0
  <2>0. Len(tree) \in Nat
    BY DEF Ordered
  <2>1. n \in 1 .. Len(tree)
    BY <1>2, <2>0
  <2> DEFINE c == tree[n].children
  <2>2. Len(c) \in Nat /\ \A k \in 1 .. Len(c) : c[k] \in 0 .. n - 1
    BY <2>1, ChildrenOlder
  <2> HIDE DEF c
  <2>3. Len(c) # 0 => f[c[1]] = g[c[1]]
    BY <2>2
  <2>4. ASSUME Len(c) # 0, Len(c) # 1 PROVE f[c[2]] = g[c[2]]
    <3>0. \A m \in Nat : m # 0 /\ m # 1 => 2 \in 1 .. m
      OBVIOUS
    <3>1. 2 \in 1 .. Len(c)
      BY <2>2, <2>4, <3>0
    <3>2. c[2] \in 0 .. n - 1
      BY <2>2, <3>1
    <3> QED BY <3>2
  <2> QED BY <2>3, <2>4 DEF Visit, c
<1> QED BY <1>1, <1>2

\* There is a function that makes the step everywhere.
LEMMA WalkExists ==
  ASSUME NEW tree, Ordered(tree)
  PROVE  \E walk : walk = [n \in 0 .. Len(tree) |-> Visit(tree, walk, n)]
<1> DEFINE H == Len(tree)
           T == {n \in 0 .. H : \E f : \A i \in 0 .. n : f[i] = Visit(tree, f, i)}
<1>0. H \in Nat
  BY DEF Ordered
<1>1. 0 \in T
  <2> DEFINE f == [i \in {0} |-> <<Null>>]
  <2>1. \A i \in 0 .. 0 : f[i] = Visit(tree, f, i)
    BY DEF Visit, Null
  <2> QED BY <1>0, <2>1
<1>2. ASSUME NEW n \in 0 .. H - 1, n \in T PROVE n + 1 \in T
  <2>1. PICK f : \A i \in 0 .. n : f[i] = Visit(tree, f, i)
    BY <1>2
  <2> DEFINE g == [i \in 0 .. n + 1 |-> IF i = n + 1 THEN Visit(tree, f, i) ELSE f[i]]
  <2>2. \A i \in 0 .. n : g[i] = f[i]
    BY <1>0
  <2>3. g[n + 1] = Visit(tree, f, n + 1)
    BY <1>0
  <2> HIDE DEF g
  <2>4. ASSUME NEW i \in 0 .. n + 1 PROVE g[i] = Visit(tree, g, i)
    <3>1. i \in 0 .. H /\ \A j \in 0 .. i - 1 : j \in 0 .. n
      BY <1>0
    <3>2. Visit(tree, g, i) = Visit(tree, f, i)
      BY <2>2, <3>1, VisitLocal
    <3>3. i = n + 1 \/ i \in 0 .. n
      BY <1>0
    <3> QED BY <2>1, <2>2, <2>3, <3>2, <3>3
  <2>5. n + 1 \in 0 .. H
    BY <1>0
  <2> QED BY <2>4, <2>5
<1>3. H \in T
  <2> HIDE DEF T
  <2>1. \A i \in 0 .. H : i \in T
    BY <1>0, <1>1, <1>2, UpTo
  <2> QED BY <1>0, <2>1
<1>4. PICK f : \A i \in 0 .. H : f[i] = Visit(tree, f, i)
  BY <1>3
<1> DEFINE walk == [n \in 0 .. H |-> f[n]]
<1>5. ASSUME NEW n \in 0 .. H PROVE walk[n] = Visit(tree, walk, n)
  <2>1. \A i \in 0 .. n - 1 : i \in 0 .. H
    BY <1>0
  <2>2. \A i \in 0 .. n - 1 : f[i] = walk[i]
    BY <2>1
  <2> HIDE DEF walk
  <2>3. Visit(tree, f, n) = Visit(tree, walk, n)
    BY <2>2, VisitLocal
  <2> QED BY <1>4, <2>3 DEF walk
<1>6. walk = [n \in 0 .. H |-> walk[n]]
  OBVIOUS
<1> HIDE DEF walk
<1>7. walk = [n \in 0 .. H |-> Visit(tree, walk, n)]
  BY <1>5, <1>6
<1> QED BY <1>7

\* Postorder in terms of the children, which its recursive definition stands for.
LEMMA PostorderWalks ==
  ASSUME NEW tree, Ordered(tree)
  PROVE  /\ Postorder(tree, 0) = <<0>>
         /\ \A n \in 1 .. Len(tree) :
              /\ Len(tree[n].children) = 0 => Postorder(tree, n) = <<n>>
              /\ Len(tree[n].children) = 1 =>
                   Postorder(tree, n) = Append(Postorder(tree, tree[n].children[1]), n)
              /\ Len(tree[n].children) = 2 =>
                   Postorder(tree, n) = Append(Postorder(tree, tree[n].children[1]) \o
                                               Postorder(tree, tree[n].children[2]), n)
<1> DEFINE Eqn(walk) == walk = [n \in 0 .. Len(tree) |-> Visit(tree, walk, n)]
           w == CHOOSE walk : Eqn(walk)
<1>1. Eqn(w)
  <2>1. \E walk : Eqn(walk)
    BY WalkExists
  <2> HIDE DEF Eqn
  <2> QED BY <2>1
<1>2. \A n : Postorder(tree, n) = w[n]
  BY Zenon DEF Postorder, Visit
<1>3. \A n \in 0 .. Len(tree) : w[n] = Visit(tree, w, n)
  <2> HIDE DEF w
  <2> QED BY <1>1
<1>4. Len(tree) \in Nat
  BY DEF Ordered
<1> HIDE DEF w
<1>5. w[0] = <<0>>
  BY <1>3, <1>4 DEF Visit, Null
<1>6. ASSUME NEW n \in 1 .. Len(tree)
      PROVE  w[n] = CASE Len(tree[n].children) = 0 -> <<n>>
         [] Len(tree[n].children) = 1 -> Append(w[tree[n].children[1]], n)
         [] OTHER -> Append(w[tree[n].children[1]] \o w[tree[n].children[2]], n)
  <2>1. n \in 0 .. Len(tree) /\ n # Null
    BY <1>4 DEF Null
  <2>2. w[n] = Visit(tree, w, n)
    BY <1>3, <2>1
  <2> QED BY <2>1, <2>2 DEF Visit
<1>7. ASSUME NEW n \in 1 .. Len(tree)
      PROVE  /\ Len(tree[n].children) = 0 => Postorder(tree, n) = <<n>>
             /\ Len(tree[n].children) = 1 =>
                  Postorder(tree, n) = Append(Postorder(tree, tree[n].children[1]), n)
             /\ Len(tree[n].children) = 2 =>
                  Postorder(tree, n) = Append(Postorder(tree, tree[n].children[1]) \o
                                              Postorder(tree, tree[n].children[2]), n)
  <2> DEFINE c == tree[n].children
  <2> HIDE DEF c
  <2>1. w[n] = CASE Len(c) = 0 -> <<n>>
                 [] Len(c) = 1 -> Append(w[c[1]], n)
                 [] OTHER -> Append(w[c[1]] \o w[c[2]], n)
    BY <1>6 DEF c
  <2>2. Len(c) = 0 => w[n] = <<n>>
    BY <2>1
  <2>3. Len(c) = 1 => w[n] = Append(w[c[1]], n)
    BY <2>1
  <2>4. ASSUME Len(c) = 2 PROVE w[n] = Append(w[c[1]] \o w[c[2]], n)
    <3>1. Len(c) # 0 /\ Len(c) # 1
      BY <2>4
    <3> QED BY <2>1, <3>1, Zenon
  <2> QED BY <1>2, <2>2, <2>3, <2>4, Zenon DEF c
<1> QED BY <1>2, <1>5, <1>7, Zenon
-----------------------------------------------------------------------------
\* The step looks at the types of the children only.
LEMMA InferLocal ==
  ASSUME NEW tree, WholeTree(tree), NEW n \in 1 .. Len(tree), NEW f, NEW g,
         \A i \in 1 .. n - 1 : f[i] = g[i]
  PROVE  Infer(tree, f, n) = Infer(tree, g, n)
<1> DEFINE c == tree[n].children
<1>1. \A k \in 1 .. Len(c) : c[k] \in 1 .. n - 1
  <2>1. \A k \in 1 .. Len(c) : c[k] \in 0 .. n - 1 /\ c[k] # 0
    BY ChildrenOlder DEF WholeTree, Null
  <2>2. n \in Nat
    BY DEF WholeTree, Ordered
  <2> QED BY <2>1, <2>2
<1>2. \/ tree[n].kind = "value" /\ Len(c) = 0
      \/ tree[n].kind \in {"unary", "grouping"} /\ Len(c) = 1
      \/ tree[n].kind = "binary" /\ Len(c) = 2
  BY DEF WholeTree
<1> HIDE DEF c
<1>3. \A k \in 1 .. Len(c) : f[c[k]] = g[c[k]]
  BY <1>1
<1>4. tree[n].kind # "value" => f[c[1]] = g[c[1]]
  BY <1>2, <1>3
<1>5. ASSUME tree[n].kind = "binary" PROVE f[c[2]] = g[c[2]]
  <2>1. Len(c) = 2
    BY <1>2, <1>5
  <2>2. 2 \in 1 .. Len(c)
    BY <2>1
  <2> QED BY <1>3, <2>2
<1> QED BY <1>2, <1>4, <1>5 DEF Infer, c

\* There is a function that satisfies the equation of the inference.
LEMMA TypesExist ==
  ASSUME NEW tree, WholeTree(tree)
  PROVE  \E type : type = [n \in 1 .. Len(tree) |-> Infer(tree, type, n)]
<1> DEFINE H == Len(tree)
           T == {n \in 0 .. H : \E f : \A i \in 1 .. n : f[i] = Infer(tree, f, i)}
<1>0. H \in Nat
  BY DEF WholeTree, Ordered
<1>1. 0 \in T
  <2>1. \A i \in 1 .. 0 : <<>>[i] = Infer(tree, <<>>, i)
    OBVIOUS
  <2> QED BY <1>0, <2>1
<1>2. ASSUME NEW n \in 0 .. H - 1, n \in T PROVE n + 1 \in T
  <2>1. PICK f : \A i \in 1 .. n : f[i] = Infer(tree, f, i)
    BY <1>2
  <2> DEFINE g == [i \in 1 .. n + 1 |-> IF i = n + 1 THEN Infer(tree, f, i) ELSE f[i]]
  <2>2. \A i \in 1 .. n : g[i] = f[i]
    BY <1>0
  <2>3. g[n + 1] = Infer(tree, f, n + 1)
    BY <1>0
  <2> HIDE DEF g
  <2>4. ASSUME NEW i \in 1 .. n + 1 PROVE g[i] = Infer(tree, g, i)
    <3>1. i \in 1 .. H /\ \A j \in 1 .. i - 1 : j \in 1 .. n
      BY <1>0
    <3>2. Infer(tree, g, i) = Infer(tree, f, i)
      BY <2>2, <3>1, InferLocal
    <3>3. i = n + 1 \/ i \in 1 .. n
      BY <1>0
    <3> QED BY <2>1, <2>2, <2>3, <3>2, <3>3
  <2>5. n + 1 \in 0 .. H
    BY <1>0
  <2> QED BY <2>4, <2>5
<1>3. H \in T
  <2> HIDE DEF T
  <2>1. \A i \in 0 .. H : i \in T
    BY <1>0, <1>1, <1>2, UpTo
  <2> QED BY <1>0, <2>1
<1>4. PICK f : \A i \in 1 .. H : f[i] = Infer(tree, f, i)
  BY <1>3
<1> DEFINE type == [n \in 1 .. H |-> f[n]]
<1>5. ASSUME NEW n \in 1 .. H PROVE type[n] = Infer(tree, type, n)
  <2>1. \A i \in 1 .. n - 1 : i \in 1 .. H
    BY <1>0
  <2>2. \A i \in 1 .. n - 1 : f[i] = type[i]
    BY <2>1
  <2> HIDE DEF type
  <2>3. Infer(tree, f, n) = Infer(tree, type, n)
    BY <2>2, InferLocal
  <2> QED BY <1>4, <2>3 DEF type
<1>6. type = [n \in 1 .. H |-> type[n]]
  OBVIOUS
<1> HIDE DEF type
<1>7. type = [n \in 1 .. H |-> Infer(tree, type, n)]
  BY <1>5, <1>6
<1> QED BY <1>7

\* TypeOf makes the step everywhere.
LEMMA TypesInferred ==
  ASSUME NEW tree, WholeTree(tree)
  PROVE  \E type : \A n \in 1 .. Len(tree) :
           TypeOf(tree, n) = type[n] /\ type[n] = Infer(tree, type, n)
<1> DEFINE Eqn(type) == type = [n \in 1 .. Len(tree) |-> Infer(tree, type, n)]
           t == CHOOSE type : Eqn(type)
<1>1. Eqn(t)
  <2>1. \E type : Eqn(type)
    BY TypesExist
  <2> HIDE DEF Eqn
  <2> QED BY <2>1
<1>2. \A n : TypeOf(tree, n) = t[n]
  BY Zenon DEF TypeOf, Infer
<1>3. \A n \in 1 .. Len(tree) : t[n] = Infer(tree, t, n)
  <2> HIDE DEF t
  <2> QED BY <1>1
<1> QED BY <1>2, <1>3
-----------------------------------------------------------------------------
\* No element occurs twice.
Distinct(s) == \A i, j \in 1 .. Len(s) : s[i] = s[j] => i = j

\* The elements of a sequence and one more.
LEMMA ElementsOfAppend ==
  ASSUME NEW S, NEW s \in Seq(S), NEW x
  PROVE  /\ ToSet(Append(s, x)) = ToSet(s) \cup {x}
         /\ Distinct(s) /\ x \notin ToSet(s) => Distinct(Append(s, x))
<1>1. s \in Seq(S \cup {x})
  BY SeqMonotonic
<1> DEFINE t == Append(s, x)
<1>2. /\ t \in Seq(S \cup {x}) /\ Len(t) = Len(s) + 1 /\ Len(s) \in Nat
      /\ \A i \in 1 .. Len(s) : t[i] = s[i]
      /\ t[Len(s) + 1] = x
  BY <1>1, AppendProperties
<1> HIDE DEF t
<1>3. DOMAIN s = 1 .. Len(s) /\ DOMAIN t = 1 .. Len(s) + 1
  BY <1>1, <1>2
<1>4. \A i \in 1 .. Len(s) + 1 : i = Len(s) + 1 \/ i \in 1 .. Len(s)
  BY <1>2
<1>5. ToSet(t) = ToSet(s) \cup {x}
  <2>1. \A y : y \in ToSet(s) <=> \E i \in 1 .. Len(s) : y = s[i]
    BY <1>3 DEF ToSet
  <2>2. \A y : y \in ToSet(t) <=> \E i \in 1 .. Len(s) + 1 : y = t[i]
    BY <1>3 DEF ToSet
  <2>3. Len(s) + 1 \in 1 .. Len(s) + 1 /\ \A i \in 1 .. Len(s) : i \in 1 .. Len(s) + 1
    BY <1>2
  <2>4. \A y : y \in ToSet(t) <=> y \in ToSet(s) \/ y = x
    BY <1>2, <1>4, <2>1, <2>2, <2>3
  <2> QED BY <2>4
<1>6. ASSUME Distinct(s), x \notin ToSet(s) PROVE Distinct(t)
  <2>1. \A i \in 1 .. Len(s) : s[i] # x
    BY <1>3, <1>6 DEF ToSet
  <2> QED BY <1>2, <1>4, <1>6, <2>1 DEF Distinct
<1> QED BY <1>5, <1>6 DEF t

\* The elements of two sequences.
LEMMA ElementsOfConcat ==
  ASSUME NEW S, NEW s \in Seq(S), NEW u \in Seq(S)
  PROVE  /\ ToSet(s \o u) = ToSet(s) \cup ToSet(u)
         /\ Distinct(s) /\ Distinct(u) /\ (\A x \in ToSet(s) : x \notin ToSet(u))
              => Distinct(s \o u)
<1> DEFINE t == s \o u
           L == Len(s)
           K == Len(u)
<1>1. /\ t \in Seq(S) /\ Len(t) = L + K /\ L \in Nat /\ K \in Nat
      /\ \A i \in 1 .. L + K : t[i] = IF i <= L THEN s[i] ELSE u[i - L]
  BY ConcatProperties
<1> HIDE DEF t
<1>2. DOMAIN s = 1 .. L /\ DOMAIN u = 1 .. K /\ DOMAIN t = 1 .. L + K
  BY <1>1
<1> HIDE DEF L, K
<1>3. \A i \in 1 .. L : i \in 1 .. L + K /\ t[i] = s[i]
  BY <1>1
<1>4. \A i \in 1 .. K : i + L \in 1 .. L + K /\ t[i + L] = u[i]
  <2> TAKE i \in 1 .. K
  <2>1. i + L \in 1 .. L + K /\ ~ (i + L <= L) /\ (i + L) - L = i
    BY <1>1
  <2> QED BY <1>1, <2>1
<1>5. \A i \in 1 .. L + K : \/ i \in 1 .. L
                            \/ i - L \in 1 .. K /\ t[i] = u[i - L]
  <2> TAKE i \in 1 .. L + K
  <2>1. CASE i <= L
    BY <1>1, <2>1
  <2>2. CASE ~ (i <= L)
    <3>1. i - L \in 1 .. K
      BY <1>1, <2>2
    <3> QED BY <1>1, <2>2, <3>1
  <2> QED BY <2>1, <2>2
<1>6. /\ \A y : y \in ToSet(s) <=> \E i \in 1 .. L : y = s[i]
      /\ \A y : y \in ToSet(u) <=> \E i \in 1 .. K : y = u[i]
      /\ \A y : y \in ToSet(t) <=> \E i \in 1 .. L + K : y = t[i]
  BY <1>2 DEF ToSet
<1>7. ToSet(t) = ToSet(s) \cup ToSet(u)
  <2>1. \A y : y \in ToSet(t) <=> y \in ToSet(s) \/ y \in ToSet(u)
    <3> TAKE y
    <3>1. ASSUME y \in ToSet(t) PROVE y \in ToSet(s) \/ y \in ToSet(u)
      <4>1. PICK i \in 1 .. L + K : y = t[i]
        BY <1>6, <3>1
      <4> QED BY <1>3, <1>5, <1>6, <4>1
    <3>2. ASSUME y \in ToSet(s) PROVE y \in ToSet(t)
      BY <1>3, <1>6, <3>2
    <3>3. ASSUME y \in ToSet(u) PROVE y \in ToSet(t)
      BY <1>4, <1>6, <3>3
    <3> QED BY <3>1, <3>2, <3>3
  <2> QED BY <2>1
<1>8. ASSUME Distinct(s), Distinct(u), \A x \in ToSet(s) : x \notin ToSet(u)
      PROVE  Distinct(t)
  <2> SUFFICES ASSUME NEW i \in 1 .. L + K, NEW j \in 1 .. L + K, t[i] = t[j]
               PROVE  i = j
    BY <1>1 DEF Distinct
  <2>0. \A a \in 1 .. L, b \in 1 .. K : s[a] # u[b]
    BY <1>6, <1>8
  <2>1. CASE i \in 1 .. L /\ j \in 1 .. L
    BY <1>3, <1>8, <2>1 DEF Distinct, L
  <2>2. CASE i \in 1 .. L /\ j \notin 1 .. L
    BY <1>3, <1>5, <2>0, <2>2
  <2>3. CASE i \notin 1 .. L /\ j \in 1 .. L
    BY <1>3, <1>5, <2>0, <2>3
  <2>4. CASE i \notin 1 .. L /\ j \notin 1 .. L
    <3>1. i - L \in 1 .. K /\ j - L \in 1 .. K /\ u[i - L] = u[j - L]
      BY <1>5, <2>4
    <3>2. i - L = j - L
      BY <1>8, <3>1 DEF Distinct, K
    <3> QED BY <1>1, <3>2
  <2> QED BY <2>1, <2>2, <2>3, <2>4
<1> QED BY <1>7, <1>8 DEF t

\* The addresses in a sequence without repetitions are as many as it is long.
LEMMA DistinctLength ==
  ASSUME NEW S, NEW s \in Seq(S), Distinct(s), NEW n \in Nat, ToSet(s) = 1 .. n
  PROVE  Len(s) = n
<1>1. Len(s) \in Nat /\ DOMAIN s = 1 .. Len(s)
  OBVIOUS
<1>2. \A i \in 1 .. Len(s) : s[i] \in 1 .. n
  BY <1>1 DEF ToSet
<1>3. \A y \in 1 .. n : \E i \in 1 .. Len(s) : s[i] = y
  BY <1>1 DEF ToSet
<1>4. s \in [1 .. Len(s) -> 1 .. n]
  BY <1>1, <1>2
<1>5. s \in Bijection(1 .. Len(s), 1 .. n)
  BY <1>3, <1>4 DEF Distinct, Bijection, Injection, Surjection, IsInjective
<1>6. ExistsBijection(1 .. Len(s), 1 .. n)
  BY <1>5 DEF ExistsBijection
<1>7. IsFiniteSet(1 .. Len(s)) /\ Cardinality(1 .. Len(s)) = Len(s)
  <2>1. \A m \in Nat : IsFiniteSet(1 .. m) /\ Cardinality(1 .. m) = m
    BY FS_Interval
  <2> QED BY <1>1, <2>1
<1>8. Cardinality(1 .. n) = n
  BY FS_Interval
<1> QED BY <1>6, <1>7, <1>8, FS_Bijection
-----------------------------------------------------------------------------
\* A walk visits addresses up to the one it starts from.
LEMMA WalkTyped ==
  ASSUME NEW tree, Ordered(tree)
  PROVE  \A n \in 0 .. Len(tree) : Postorder(tree, n) \in Seq(0 .. n)
<1> DEFINE H == Len(tree)
           T == {n \in 0 .. H : Postorder(tree, n) \in Seq(0 .. n)}
<1>0. H \in Nat
  BY DEF Ordered
<1>1. ASSUME NEW n \in 0 .. H, \A j \in 0 .. n - 1 : j \in T PROVE n \in T
  <2>1. CASE n = 0
    BY <1>0, <2>1, PostorderWalks
  <2>2. CASE n # 0
    <3>0. n \in 1 .. H
      BY <1>0, <2>2
    <3> DEFINE c == tree[n].children
               P(m) == Postorder(tree, m)
    <3>1. /\ Len(c) \in Nat /\ Len(c) \in {0, 1, 2}
          /\ \A k \in 1 .. Len(c) : c[k] \in 0 .. n - 1
      BY <3>0, ChildrenOlder DEF Ordered
    <3>2. \A m \in 0 .. n - 1 : P(m) \in Seq(0 .. m) /\ 0 .. m \subseteq 0 .. n
      BY <1>1
    <3> HIDE DEF P
    <3>3. \A m \in 0 .. n - 1 : P(m) \in Seq(0 .. n)
      BY <3>2, SeqMonotonic
    <3>4. n \in 0 .. n
      BY <3>0
    <3>5. /\ Len(c) = 0 => P(n) = <<n>>
          /\ Len(c) = 1 => P(n) = Append(P(c[1]), n)
          /\ Len(c) = 2 => P(n) = Append(P(c[1]) \o P(c[2]), n)
      BY <3>0, PostorderWalks DEF P
    <3> HIDE DEF c
    <3>6. CASE Len(c) = 0
      <4>1. <<n>> \in Seq(0 .. n)
        BY <3>4
      <4> QED BY <3>5, <3>6, <4>1 DEF P
    <3>7. CASE Len(c) = 1
      <4>1. P(c[1]) \in Seq(0 .. n)
        BY <3>1, <3>3, <3>7
      <4>2. Append(P(c[1]), n) \in Seq(0 .. n)
        BY <3>4, <4>1, AppendProperties
      <4> QED BY <1>0, <3>5, <3>7, <4>2 DEF P
    <3>8. CASE Len(c) = 2
      <4>1. P(c[1]) \in Seq(0 .. n) /\ P(c[2]) \in Seq(0 .. n)
        BY <3>1, <3>3, <3>8
      <4>2. P(c[1]) \o P(c[2]) \in Seq(0 .. n)
        BY <4>1, ConcatProperties
      <4>3. Append(P(c[1]) \o P(c[2]), n) \in Seq(0 .. n)
        BY <3>4, <4>2, AppendProperties
      <4> QED BY <1>0, <3>5, <3>8, <4>3 DEF P
    <3>9. Len(c) = 0 \/ Len(c) = 1 \/ Len(c) = 2
      BY <3>1
    <3> QED BY <3>6, <3>7, <3>8, <3>9
  <2> QED BY <2>1, <2>2
<1>2. \A i \in 0 .. H : i \in T
  <2> HIDE DEF T
  <2> QED BY <1>0, <1>1, FromSmaller
<1> QED BY <1>2

\* What a walk visits: the node it starts from, and what the walks from its
\* children visit.
LEMMA WalkVisits ==
  ASSUME NEW tree, Ordered(tree)
  PROVE  /\ ToSet(Postorder(tree, 0)) = {0}
         /\ \A n \in 1 .. Len(tree) : \A x :
              x \in ToSet(Postorder(tree, n)) <=>
                \/ x = n
                \/ \E k \in 1 .. Len(tree[n].children) :
                     x \in ToSet(Postorder(tree, tree[n].children[k]))
<1>0. Len(tree) \in Nat
  BY DEF Ordered
<1>1. ToSet(Postorder(tree, 0)) = {0}
  BY PostorderWalks DEF ToSet
<1>2. ASSUME NEW n \in 1 .. Len(tree), NEW x
      PROVE  x \in ToSet(Postorder(tree, n)) <=>
                \/ x = n
                \/ \E k \in 1 .. Len(tree[n].children) :
                     x \in ToSet(Postorder(tree, tree[n].children[k]))
  <2> DEFINE c == tree[n].children
             P(m) == Postorder(tree, m)
  <2>1. /\ Len(c) \in Nat /\ Len(c) \in {0, 1, 2}
        /\ \A k \in 1 .. Len(c) : c[k] \in 0 .. n - 1
    BY ChildrenOlder DEF Ordered
  <2>2. \A m \in 0 .. n - 1 : m \in 0 .. Len(tree) /\ 0 .. m \subseteq 0 .. n
    BY <1>0
  <2>3. \A m \in 0 .. n - 1 : P(m) \in Seq(0 .. m)
    BY <2>2, WalkTyped
  <2>5. /\ Len(c) = 0 => P(n) = <<n>>
        /\ Len(c) = 1 => P(n) = Append(P(c[1]), n)
        /\ Len(c) = 2 => P(n) = Append(P(c[1]) \o P(c[2]), n)
    BY PostorderWalks
  <2> HIDE DEF P
  <2>4. \A m \in 0 .. n - 1 : P(m) \in Seq(0 .. n)
    BY <2>2, <2>3, SeqMonotonic
  <2> HIDE DEF c
  <2>6. x \in ToSet(P(n)) <=> x = n \/ \E k \in 1 .. Len(c) : x \in ToSet(P(c[k]))
    <3>1. CASE Len(c) = 0
      <4>1. ToSet(<<n>>) = {n}
        BY DEF ToSet
      <4> QED BY <2>5, <3>1, <4>1
    <3>2. CASE Len(c) = 1
      <4>1. P(c[1]) \in Seq(0 .. n)
        BY <2>1, <2>4, <3>2
      <4>2. ToSet(P(n)) = ToSet(P(c[1])) \cup {n}
        BY <2>5, <3>2, <4>1, ElementsOfAppend
      <4> QED BY <3>2, <4>2
    <3>3. CASE Len(c) = 2
      <4>1. P(c[1]) \in Seq(0 .. n) /\ P(c[2]) \in Seq(0 .. n)
        BY <2>1, <2>4, <3>3
      <4>2. P(c[1]) \o P(c[2]) \in Seq(0 .. n)
        BY <4>1, ConcatProperties
      <4>3. ToSet(P(n)) = ToSet(P(c[1]) \o P(c[2])) \cup {n}
        BY <2>5, <3>3, <4>2, ElementsOfAppend
      <4>4. ToSet(P(c[1]) \o P(c[2])) = ToSet(P(c[1])) \cup ToSet(P(c[2]))
        BY <4>1, ElementsOfConcat
      <4>5. \A k : k \in 1 .. 2 <=> k = 1 \/ k = 2
        OBVIOUS
      <4> QED BY <3>3, <4>3, <4>4, <4>5
    <3>4. Len(c) = 0 \/ Len(c) = 1 \/ Len(c) = 2
      BY <2>1
    <3> QED BY <3>1, <3>2, <3>3, <3>4
  <2> QED BY <2>6 DEF c, P
<1> QED BY <1>1, <1>2

Visited(tree, n) == ToSet(Postorder(tree, n))

\* A walk visits its root and what is older.
LEMMA VisitedRange ==
  ASSUME NEW tree, Ordered(tree), NEW n \in 0 .. Len(tree)
  PROVE  n \in Visited(tree, n) /\ Visited(tree, n) \subseteq 0 .. n
<1>0. Len(tree) \in Nat
  BY DEF Ordered
<1>1. Visited(tree, n) \subseteq 0 .. n
  <2> DEFINE s == Postorder(tree, n)
  <2>1. s \in Seq(0 .. n)
    BY WalkTyped
  <2> HIDE DEF s
  <2>2. \A i \in DOMAIN s : s[i] \in 0 .. n
    BY <2>1
  <2>3. ToSet(s) \subseteq 0 .. n
    BY <2>2 DEF ToSet
  <2> QED BY <2>3 DEF s, Visited
<1>2. n = 0 \/ n \in 1 .. Len(tree)
  BY <1>0
<1> QED BY <1>1, <1>2, WalkVisits DEF Visited

\* Below a node that is visited everything is visited.
LEMMA ChildrenVisited ==
  ASSUME NEW tree, Ordered(tree), NEW n \in 0 .. Len(tree),
         NEW m \in 1 .. Len(tree), m \in Visited(tree, n),
         NEW k \in 1 .. Len(tree[m].children)
  PROVE  tree[m].children[k] \in Visited(tree, n)
<1> DEFINE H == Len(tree)
           T == {i \in 0 .. H : m \in Visited(tree, i) =>
                                  tree[m].children[k] \in Visited(tree, i)}
<1>0. H \in Nat
  BY DEF Ordered
<1>1. ASSUME NEW i \in 0 .. H, \A j \in 0 .. i - 1 : j \in T PROVE i \in T
  <2> SUFFICES ASSUME m \in Visited(tree, i)
               PROVE  tree[m].children[k] \in Visited(tree, i)
    OBVIOUS
  <2>1. i # 0
    BY WalkVisits DEF Visited
  <2>2. i \in 1 .. H
    BY <1>0, <2>1
  <2>3. \A x : x \in Visited(tree, i) <=>
                 \/ x = i
                 \/ \E l \in 1 .. Len(tree[i].children) :
                      x \in Visited(tree, tree[i].children[l])
    BY <2>2, WalkVisits DEF Visited
  <2>4. CASE m = i
    <3>1. tree[m].children[k] \in 0 .. m - 1
      BY ChildrenOlder
    <3>2. tree[m].children[k] \in 0 .. H
      BY <1>0, <3>1
    <3>3. tree[m].children[k] \in Visited(tree, tree[m].children[k])
      BY <3>2, VisitedRange
    <3> QED BY <2>3, <2>4, <3>3
  <2>5. CASE m # i
    <3>1. PICK l \in 1 .. Len(tree[i].children) : m \in Visited(tree, tree[i].children[l])
      BY <2>3, <2>5
    <3>2. tree[i].children[l] \in 0 .. i - 1
      BY <2>2, ChildrenOlder
    <3>3. tree[m].children[k] \in Visited(tree, tree[i].children[l])
      BY <1>1, <3>1, <3>2
    <3> QED BY <2>3, <3>3
  <2> QED BY <2>4, <2>5
<1>2. \A i \in 0 .. H : i \in T
  <2> HIDE DEF T
  <2> QED BY <1>0, <1>1, FromSmaller
<1> QED BY <1>2

\* What is visited is the start or the child of something visited.
LEMMA ParentVisited ==
  ASSUME NEW tree, Ordered(tree), NEW n \in 0 .. Len(tree),
         NEW x, x \in Visited(tree, n), x # n
  PROVE  \E m \in 1 .. Len(tree) : \E k \in 1 .. Len(tree[m].children) :
           m \in Visited(tree, n) /\ tree[m].children[k] = x
<1> DEFINE H == Len(tree)
           Below(i) == \E m \in 1 .. H : \E k \in 1 .. Len(tree[m].children) :
                         m \in Visited(tree, i) /\ tree[m].children[k] = x
           T == {i \in 0 .. H : x \in Visited(tree, i) /\ x # i => Below(i)}
<1>0. H \in Nat
  BY DEF Ordered
<1>1. ASSUME NEW i \in 0 .. H, \A j \in 0 .. i - 1 : j \in T PROVE i \in T
  <2> SUFFICES ASSUME x \in Visited(tree, i), x # i PROVE Below(i)
    OBVIOUS
  <2>1. i # 0
    BY WalkVisits DEF Visited
  <2>2. i \in 1 .. H
    BY <1>0, <2>1
  <2>3. \A y : y \in Visited(tree, i) <=>
                 \/ y = i
                 \/ \E l \in 1 .. Len(tree[i].children) :
                      y \in Visited(tree, tree[i].children[l])
    BY <2>2, WalkVisits DEF Visited
  <2>4. PICK l \in 1 .. Len(tree[i].children) : x \in Visited(tree, tree[i].children[l])
    BY <2>3
  <2>5. CASE x = tree[i].children[l]
    BY <2>2, <2>3, <2>4, <2>5
  <2>6. CASE x # tree[i].children[l]
    <3>1. tree[i].children[l] \in 0 .. i - 1
      BY <2>2, <2>4, ChildrenOlder
    <3>2. Below(tree[i].children[l])
      BY <1>1, <2>4, <2>6, <3>1
    <3> QED BY <2>3, <2>4, <3>2
  <2> QED BY <2>5, <2>6
<1>2. \A i \in 0 .. H : i \in T
  <2> HIDE DEF T
  <2> QED BY <1>0, <1>1, FromSmaller
<1> QED BY <1>2

\* No node is the child of two.
SingleParents(tree) ==
  \A m, j \in 1 .. Len(tree) :
    \A k \in 1 .. Len(tree[m].children), l \in 1 .. Len(tree[j].children) :
      tree[m].children[k] = tree[j].children[l] => m = j /\ k = l

\* Every node but the root is the child of one.
Rooted(tree, root) ==
  \A n \in 1 .. Len(tree) :
    n # root => \E m \in 1 .. Len(tree) : \E k \in 1 .. Len(tree[m].children) :
                  tree[m].children[k] = n

\* A walk from the root visits everything ...
LEMMA AllVisited ==
  ASSUME NEW tree, Ordered(tree), NEW root \in 1 .. Len(tree), Rooted(tree, root)
  PROVE  1 .. Len(tree) \subseteq Visited(tree, root)
<1> DEFINE H == Len(tree)
           U == {n \in 1 .. H : n \notin Visited(tree, root)}
<1>0. H \in Nat /\ root \in 0 .. H
  BY DEF Ordered
<1> SUFFICES ASSUME U # {} PROVE FALSE
  OBVIOUS
<1>1. U \in SUBSET Nat /\ \A x \in U : x <= H
  BY <1>0
<1>2. PICK x \in U : \A y \in U : y <= x
  <2> HIDE DEF U
  <2> QED BY <1>0, <1>1, GreatestNumber
<1>3. x # root
  BY <1>0, VisitedRange
<1>4. PICK m \in 1 .. H : \E k \in 1 .. Len(tree[m].children) : tree[m].children[k] = x
  BY <1>3 DEF Rooted
<1>5. PICK k \in 1 .. Len(tree[m].children) : tree[m].children[k] = x
  BY <1>4
<1>6. x \in 0 .. m - 1
  BY <1>5, ChildrenOlder
<1>7. m \notin U
  BY <1>0, <1>1, <1>2, <1>6
<1>8. m \in Visited(tree, root)
  BY <1>7
<1>9. tree[m].children[k] \in Visited(tree, root)
  BY <1>0, <1>8, ChildrenVisited
<1> QED BY <1>5, <1>9

\* ... and nothing twice: the subtrees of a node have nothing in common.
LEMMA SubtreesApart ==
  ASSUME NEW tree, Ordered(tree), SingleParents(tree), NEW n \in 1 .. Len(tree),
         Len(tree[n].children) = 2,
         NEW x \in Visited(tree, tree[n].children[1])
  PROVE  x \notin Visited(tree, tree[n].children[2])
<1> DEFINE H == Len(tree)
           a == tree[n].children[1]
           b == tree[n].children[2]
           U == {y \in 0 .. n : y \in Visited(tree, a) /\ y \in Visited(tree, b)}
<1> SUFFICES ASSUME x \in Visited(tree, b) PROVE FALSE
  OBVIOUS
<1>0. H \in Nat /\ n \in 1 .. H /\ 1 \in 1 .. Len(tree[n].children) /\ 2 \in 1 .. Len(tree[n].children)
  BY DEF Ordered
<1>1. a \in 0 .. n - 1 /\ b \in 0 .. n - 1
  BY <1>0, ChildrenOlder
<1>2. a \in 0 .. H /\ b \in 0 .. H
  BY <1>0, <1>1
<1>3. a # b
  BY <1>0 DEF SingleParents
<1>4. Visited(tree, a) \subseteq 0 .. a /\ Visited(tree, b) \subseteq 0 .. b
  BY <1>2, VisitedRange
<1>5. /\ \A m \in 1 .. H : \A k \in 1 .. Len(tree[m].children) :
           tree[m].children[k] = a => m = n
      /\ \A m \in 1 .. H : \A k \in 1 .. Len(tree[m].children) :
           tree[m].children[k] = b => m = n
  BY <1>0 DEF SingleParents
<1> HIDE DEF a, b
<1>6. U \in SUBSET Nat /\ U # {} /\ \A y \in U : y <= n
  <2>1. x \in U
    BY <1>0, <1>1, <1>4 DEF a
  <2> QED BY <1>0, <2>1
<1>7. PICK y \in U : \A z \in U : z <= y
  <2> HIDE DEF U
  <2>1. n \in Nat
    BY <1>0
  <2> QED BY <1>6, <2>1, GreatestNumber
<1>8. CASE y = a
  <2>1. PICK m \in 1 .. H : \E k \in 1 .. Len(tree[m].children) :
          m \in Visited(tree, b) /\ tree[m].children[k] = y
    BY <1>2, <1>3, <1>7, <1>8, ParentVisited
  <2>2. m = n /\ m \in Visited(tree, b)
    BY <1>5, <1>8, <2>1
  <2> QED BY <1>0, <1>1, <1>4, <2>2
<1>9. CASE y = b
  <2>1. PICK m \in 1 .. H : \E k \in 1 .. Len(tree[m].children) :
          m \in Visited(tree, a) /\ tree[m].children[k] = y
    BY <1>2, <1>3, <1>7, <1>9, ParentVisited
  <2>2. m = n /\ m \in Visited(tree, a)
    BY <1>5, <1>9, <2>1
  <2> QED BY <1>0, <1>1, <1>4, <2>2
<1>10. CASE y # a /\ y # b
  <2>1. PICK m \in 1 .. H : \E k \in 1 .. Len(tree[m].children) :
          m \in Visited(tree, a) /\ tree[m].children[k] = y
    BY <1>2, <1>7, <1>10, ParentVisited
  <2>2. PICK j \in 1 .. H : \E k \in 1 .. Len(tree[j].children) :
          j \in Visited(tree, b) /\ tree[j].children[k] = y
    BY <1>2, <1>7, <1>10, ParentVisited
  <2>3. PICK k \in 1 .. Len(tree[m].children) :
          m \in Visited(tree, a) /\ tree[m].children[k] = y
    BY <2>1
  <2>4. PICK l \in 1 .. Len(tree[j].children) :
          j \in Visited(tree, b) /\ tree[j].children[l] = y
    BY <2>2
  <2>5. m = j
    BY <2>3, <2>4 DEF SingleParents
  <2>6. m \in U
    <3>1. m \in Visited(tree, a) /\ m \in Visited(tree, b) /\ m \in 1 .. H
      BY <2>3, <2>4, <2>5
    <3> QED BY <1>0, <1>1, <1>4, <3>1
  <2>7. y \in 0 .. m - 1
    BY <2>3, ChildrenOlder
  <2>8. m <= y
    BY <1>7, <2>6
  <2> QED BY <1>0, <2>7, <2>8
<1> QED BY <1>8, <1>9, <1>10

\* As nodes have one owner, a walk visits each once at most.
LEMMA NoneVisitedTwice ==
  ASSUME NEW tree, Ordered(tree), SingleParents(tree)
  PROVE  \A n \in 0 .. Len(tree) : Distinct(Postorder(tree, n))
<1> DEFINE H == Len(tree)
           P(m) == Postorder(tree, m)
           T == {n \in 0 .. H : Distinct(P(n))}
<1>0. H \in Nat
  BY DEF Ordered
<1>1. ASSUME NEW n \in 0 .. H, \A j \in 0 .. n - 1 : j \in T PROVE Distinct(P(n))
  <2>0. \A y : Distinct(<<y>>)
    BY DEF Distinct
  <2>1. CASE n = 0
    BY <2>0, <2>1, PostorderWalks
  <2>2. CASE n # 0
    <3>0. n \in 1 .. H
      BY <1>0, <2>2
    <3> DEFINE c == tree[n].children
    <3>1. /\ Len(c) \in {0, 1, 2}
          /\ \A k \in 1 .. Len(c) : c[k] \in 0 .. n - 1
      BY <3>0, ChildrenOlder DEF Ordered
    <3>2. \A m \in 0 .. n - 1 : Distinct(P(m))
      BY <1>1
    <3>3. \A m \in 0 .. n - 1 : P(m) \in Seq(0 .. m)
      BY <3>0, <1>0, WalkTyped
    <3>4. \A m \in 0 .. n - 1 : m \in 0 .. H
      BY <1>0
    <3>5. \A m \in 0 .. n - 1 : n \notin ToSet(P(m))
      <4> TAKE m \in 0 .. n - 1
      <4>1. Visited(tree, m) \subseteq 0 .. m
        BY <3>4, VisitedRange
      <4>2. n \notin 0 .. m
        BY <3>0
      <4> QED BY <4>1, <4>2 DEF Visited
    <3>6. /\ Len(c) = 0 => P(n) = <<n>>
          /\ Len(c) = 1 => P(n) = Append(P(c[1]), n)
          /\ Len(c) = 2 => P(n) = Append(P(c[1]) \o P(c[2]), n)
      BY <3>0, PostorderWalks
    <3>7. Len(c) = 2 => \A x \in ToSet(P(c[1])) : x \notin ToSet(P(c[2]))
      BY <3>0, SubtreesApart DEF Visited
    <3> HIDE DEF P, c
    <3>8. CASE Len(c) = 0
      BY <2>0, <3>6, <3>8
    <3>9. CASE Len(c) = 1
      <4>1. c[1] \in 0 .. n - 1
        BY <3>1, <3>9
      <4>2. P(c[1]) \in Seq(0 .. c[1]) /\ Distinct(P(c[1])) /\ n \notin ToSet(P(c[1]))
        BY <3>2, <3>3, <3>5, <4>1
      <4>3. Distinct(Append(P(c[1]), n))
        BY <4>2, ElementsOfAppend
      <4> QED BY <3>6, <3>9, <4>3
    <3>10. CASE Len(c) = 2
      <4>1. c[1] \in 0 .. n - 1 /\ c[2] \in 0 .. n - 1
        BY <3>1, <3>10
      <4>2. /\ P(c[1]) \in Seq(0 .. c[1]) /\ Distinct(P(c[1])) /\ n \notin ToSet(P(c[1]))
            /\ P(c[2]) \in Seq(0 .. c[2]) /\ Distinct(P(c[2])) /\ n \notin ToSet(P(c[2]))
        BY <3>2, <3>3, <3>5, <4>1
      <4>3. 0 .. c[1] \subseteq 0 .. n /\ 0 .. c[2] \subseteq 0 .. n
        BY <3>0, <4>1
      <4>4. P(c[1]) \in Seq(0 .. n) /\ P(c[2]) \in Seq(0 .. n)
        BY <4>2, <4>3, SeqMonotonic
      <4>5. P(c[1]) \o P(c[2]) \in Seq(0 .. n)
        BY <4>4, ConcatProperties
      <4>6. /\ Distinct(P(c[1]) \o P(c[2]))
            /\ ToSet(P(c[1]) \o P(c[2])) = ToSet(P(c[1])) \cup ToSet(P(c[2]))
        BY <3>7, <3>10, <4>2, <4>4, ElementsOfConcat
      <4>7. n \notin ToSet(P(c[1]) \o P(c[2]))
        BY <4>2, <4>6
      <4>8. Distinct(Append(P(c[1]) \o P(c[2]), n))
        BY <4>5, <4>6, <4>7, ElementsOfAppend
      <4> QED BY <3>6, <3>10, <4>8
    <3> QED BY <3>1, <3>8, <3>9, <3>10
  <2> QED BY <2>1, <2>2
<1>2. \A i \in 0 .. H : i \in T
  <2>1. \A n \in 0 .. H : (\A j \in 0 .. n - 1 : j \in T) => n \in T
    BY <1>1
  <2> HIDE DEF T
  <2> QED BY <1>0, <2>1, FromSmaller
<1> QED BY <1>2

\* No node has a missing child.
Complete(tree) ==
  \A n \in 1 .. Len(tree) : \A k \in 1 .. Len(tree[n].children) :
    tree[n].children[k] # Null

\* A walk from the root meets NULL just when a child is missing.
LEMMA NullVisited ==
  ASSUME NEW tree, Ordered(tree), NEW root \in 1 .. Len(tree), Rooted(tree, root)
  PROVE  Null \notin Visited(tree, root) <=> Complete(tree)
<1>0. root \in 0 .. Len(tree) /\ root # Null
  BY DEF Ordered, Null
<1>1. ASSUME Null \in Visited(tree, root) PROVE ~ Complete(tree)
  BY <1>0, <1>1, ParentVisited DEF Complete
<1>2. ASSUME ~ Complete(tree) PROVE Null \in Visited(tree, root)
  <2>1. PICK n \in 1 .. Len(tree) : \E k \in 1 .. Len(tree[n].children) :
          tree[n].children[k] = Null
    BY <1>2 DEF Complete
  <2>2. n \in Visited(tree, root)
    BY AllVisited
  <2> QED BY <1>0, <2>1, <2>2, ChildrenVisited
<1> QED BY <1>1, <1>2

\* A walk over a complete tree visits each node once.
LEMMA EachVisitedOnce ==
  ASSUME NEW tree, Ordered(tree), SingleParents(tree), Complete(tree),
         NEW root \in 1 .. Len(tree), Rooted(tree, root)
  PROVE  /\ ToSet(Postorder(tree, root)) = 1 .. Len(tree)
         /\ Len(Postorder(tree, root)) = Len(tree)
<1> DEFINE P == Postorder(tree, root)
<1>0. Len(tree) \in Nat /\ root \in 0 .. Len(tree)
  BY DEF Ordered
<1>1. ToSet(P) = 1 .. Len(tree)
  <2>1. 1 .. Len(tree) \subseteq ToSet(P)
    BY AllVisited DEF Visited
  <2>2. ToSet(P) \subseteq 0 .. root
    BY <1>0, VisitedRange DEF Visited
  <2>3. 0 \notin ToSet(P)
    BY NullVisited DEF Visited, Null
  <2> HIDE DEF P
  <2>4. ASSUME NEW x \in ToSet(P) PROVE x \in 1 .. Len(tree)
    <3>1. x \in 0 .. root /\ x # 0
      BY <2>2, <2>3
    <3> QED BY <1>0, <3>1
  <2> QED BY <2>1, <2>4
<1>2. P \in Seq(0 .. root) /\ Distinct(P)
  BY <1>0, WalkTyped, NoneVisitedTwice
<1> HIDE DEF P
<1>3. Len(P) = Len(tree)
  BY <1>0, <1>1, <1>2, DistinctLength
<1> QED BY <1>1, <1>3 DEF P
-----------------------------------------------------------------------------
Operators == {"+", "-", "*", "/", "|"}

Nodes == [kind : {"value", "unary", "binary", "grouping"}, operator : Tokens,
          children : Seq(Nat), type : Kinds, value : Nat]

\* What is true of a node from the moment it is made.
GoodNode(node, n) ==
  /\ node \in Nodes /\ node.children \in Seq(0 .. n - 1)
  /\ \/ /\ node.kind = "value" /\ Len(node.children) = 0
        /\ node.operator = "none" /\ node.type \in Numbers
     \/ /\ node.kind = "unary" /\ Len(node.children) = 1
        /\ node.operator \in UnaryOperators
     \/ /\ node.kind = "grouping" /\ Len(node.children) = 1
        /\ node.operator = "none"
     \/ /\ node.kind = "binary" /\ Len(node.children) = 2
        /\ node.operator \in Operators

\* What is true of a call in progress when there are so many nodes.
GoodCall(call, last) ==
  /\ call \in Frames
  /\ call.first \in 0 .. last /\ call.value \in Pending .. last
  /\ call.fn = "precedence" => call.min >= PREC_ASSIGNMENT
  /\ call.fn = "unary" => call.operator \in UnaryOperators
  /\ call.fn = "binary" => call.operator \in Operators

Untyped(tree) ==
  \A n \in 1 .. Len(tree) : tree[n].kind # "value" => tree[n].type = "unknown"

Phases == {"ready", "parsing", "parsed", "print untyped", "typecheck",
           "print typed", "free", "done", "crashed"}

(***************************************************************************)
(* The tree and the calls that build it are what they should be; printing  *)
(* it the first time has shown that it is complete.                        *)
(***************************************************************************)
TreeInv ==
  /\ phase \in Phases
  /\ scanned \in Seq(TokenTypes \cup {"EOF", "ERROR"})
  /\ reused \in BOOLEAN
  /\ \A n \in 1 .. Len(heap) : GoodNode(heap[n], n)
  /\ \A i \in 1 .. Len(frames) : GoodCall(frames[i], Len(heap))
  /\ ast \in 0 .. Len(heap)
  /\ freed \in Seq(0 .. Len(heap))
  /\ phase \in {"print untyped", "typecheck", "print typed", "free"} => ast # Null
  /\ phase \in {"typecheck", "print typed", "free"} => Complete(heap)
  /\ phase \in {"parsing", "parsed", "print untyped", "typecheck"} =>
       freed = << >> /\ Untyped(heap)

\* The heap is ordered, and a whole tree once it is complete.
LEMMA GoodTree ==
  ASSUME ShapeInv, TreeInv
  PROVE  Ordered(heap) /\ (Complete(heap) => WholeTree(heap))
<1>1. Len(heap) \in Nat
  BY HeapFacts
<1>2. \A n \in 1 .. Len(heap) : heap[n].children \in Seq(0 .. n - 1)
                                /\ Len(heap[n].children) \in {0, 1, 2}
  BY DEF TreeInv, GoodNode
<1> QED BY <1>1, <1>2 DEF Ordered, WholeTree, Complete, TreeInv, GoodNode

\* Once no call is in progress, the tree hangs together.
LEMMA TreeHangs ==
  ASSUME ShapeInv, TreeInv, OwnersInv, phase # "parsing"
  PROVE  /\ Rooted(heap, ast)
         /\ Complete(heap) => SingleParents(heap)
         /\ ast = Null => Len(heap) = 0
<1>0. /\ Len(heap) \in Nat /\ Len(Children) = Len(heap)
      /\ \A m \in 1 .. Len(heap) : Children[m] = heap[m].children
  BY HeapFacts
<1>1. frames = << >> /\ Len(frames) = 0
  BY DEF OwnersInv
<1>2. ASSUME NEW n \in 1 .. Len(heap), n # ast
      PROVE  \E m \in 1 .. Len(heap) : \E k \in 1 .. Len(heap[m].children) :
               heap[m].children[k] = n
  <2>1. PICK q, i, k : Holds(frames, Children, ast, n, q, i, k)
    BY DEF OwnersInv, Sole, Held
  <2> QED BY <1>0, <1>1, <1>2, <2>1 DEF Holds
<1>3. ASSUME Complete(heap) PROVE SingleParents(heap)
  <2> SUFFICES ASSUME NEW m \in 1 .. Len(heap), NEW j \in 1 .. Len(heap),
                      NEW k \in 1 .. Len(heap[m].children),
                      NEW l \in 1 .. Len(heap[j].children),
                      heap[m].children[k] = heap[j].children[l]
               PROVE  m = j /\ k = l
    BY DEF SingleParents
  <2> DEFINE n == heap[m].children[k]
  <2>1. n \in 0 .. m - 1 /\ n # 0
    BY <1>3, GoodTree, ChildrenOlder DEF Complete, Null
  <2>2. n \in 1 .. Len(heap)
    BY <1>0, <2>1
  <2>3. Holds(frames, Children, ast, n, "child", m, k)
    BY <1>0 DEF Holds
  <2>4. Holds(frames, Children, ast, n, "child", j, l)
    BY <1>0 DEF Holds
  <2> HIDE DEF n
  <2>5. HeldOnce(frames, Children, ast, n)
    BY <2>2 DEF OwnersInv, Sole
  <2> QED BY <2>3, <2>4, <2>5 DEF HeldOnce
<1>4. ASSUME ast = Null, Len(heap) # 0 PROVE FALSE
  <2>1. Len(heap) \in 1 .. Len(heap) /\ Len(heap) # ast
    BY <1>0, <1>4 DEF Null
  <2>2. PICK m \in 1 .. Len(heap) : \E k \in 1 .. Len(heap[m].children) :
               heap[m].children[k] = Len(heap)
    BY <1>2, <2>1
  <2>3. Len(heap) \in 0 .. m - 1
    BY <2>2, GoodTree, ChildrenOlder
  <2> QED BY <1>0, <2>2, <2>3
<1> QED BY <1>2, <1>3, <1>4 DEF Rooted
-----------------------------------------------------------------------------
\* A call stays a good one when the heap grows.
LEMMA CallGrows ==
  ASSUME NEW last \in Nat, NEW last2 \in Nat, last <= last2, NEW call, GoodCall(call, last)
  PROVE  GoodCall(call, last2)
BY DEF GoodCall, Pending

\* A call that is given a value stays a good one.
LEMMA CallFilled ==
  ASSUME NEW last \in Nat, NEW call, GoodCall(call, last), NEW value \in Pending .. last
  PROVE  GoodCall([call EXCEPT !.value = value], last)
<1> DEFINE new == [call EXCEPT !.value = value]
<1>1. /\ new \in Frames /\ new.fn = call.fn /\ new.min = call.min
      /\ new.operator = call.operator /\ new.first = call.first /\ new.value = value
  BY DEF GoodCall, Frames, Pending
<1> HIDE DEF new
<1>2. GoodCall(new, last)
  BY <1>1 DEF GoodCall
<1> QED BY <1>2 DEF new

\* A call returns: its caller has the value, and nothing else changes.
LEMMA ReturnShape ==
  ASSUME ShapeInv, OwnersInv, phase = "parsing", NEW node \in Int, Return(node)
  PROVE  /\ \A i \in 1 .. Len(frames') : \E j \in 1 .. Len(frames) :
              frames'[i] = frames[j] \/ frames'[i] = [frames[j] EXCEPT !.value = node]
         /\ \/ ast' = node /\ phase' = "parsed"
            \/ UNCHANGED <<ast, phase>>
<1> DEFINE L == Len(frames)
           callers == Front(frames)
<1>1. frames # << >> /\ ast = Null
  BY DEF OwnersInv
<1>2. L \in Nat \ {0} /\ \A i \in 1 .. L : frames[i] \in Frames
  BY <1>1, FrameFacts
<1>3. /\ callers \in Seq(Frames) /\ Len(callers) = L - 1
      /\ \A i \in 1 .. L - 1 : callers[i] = frames[i]
  <2>1. callers = SubSeq(frames, 1, L - 1)
    BY DEF Front
  <2> HIDE DEF callers
  <2>2. 1 \in Int /\ L - 1 \in Int /\ \A i \in 1 .. L - 1 : frames[i] \in Frames
    BY <1>2
  <2> HIDE DEF L
  <2>3. /\ callers \in Seq(Frames)
        /\ Len(callers) = IF 1 <= L - 1 THEN L - 1 - 1 + 1 ELSE 0
        /\ \A i \in 1 .. L - 1 - 1 + 1 : callers[i] = frames[1 + i - 1]
    BY <2>1, <2>2, SubSeqProperties
  <2>4. L - 1 - 1 + 1 = L - 1
    BY <1>2
  <2>5. \A i \in 1 .. L - 1 : 1 + i - 1 = i
    OBVIOUS
  <2>6. Len(callers) = L - 1
    BY <1>2, <2>3
  <2> QED BY <2>3, <2>4, <2>5, <2>6
<1>4. CASE callers = << >>
  <2>1. frames' = << >> /\ ast' = node /\ phase' = "parsed"
    BY <1>4 DEF Return
  <2> QED BY <2>1
<1>5. CASE callers # << >>
  <2> DEFINE new == [callers[L - 1] EXCEPT !.value = node]
  <2>1. frames' = [callers EXCEPT ![L - 1] = new] /\ UNCHANGED <<ast, phase>>
    BY <1>3, <1>5 DEF Return
  <2>2. L - 1 \in 1 .. Len(callers)
    BY <1>2, <1>3, <1>5, EmptySeq
  <2>3. callers[L - 1] \in Frames /\ new = [frames[L - 1] EXCEPT !.value = node]
    BY <1>3, <2>2
  <2>4. new \in Frames
    BY <2>3 DEF Frames
  <2> HIDE DEF new, callers
  <2>5. /\ Len(frames') = L - 1
        /\ \A i \in 1 .. L - 1 : frames'[i] = IF i = L - 1 THEN new ELSE callers[i]
    BY <1>3, <2>1, <2>2, <2>4, ExceptSeq
  <2>6. \A i \in 1 .. L - 1 : i \in 1 .. L
    BY <1>2
  <2> QED BY <1>3, <2>1, <2>3, <2>5, <2>6
<1> QED BY <1>4, <1>5

\* One more node.
LEMMA NodeAdded ==
  ASSUME ShapeInv, TreeInv, NEW node, GoodNode(node, Len(heap) + 1), Allocate(node)
  PROVE  /\ Len(heap') = Len(heap) + 1 /\ Len(heap) \in Nat
         /\ \A n \in 1 .. Len(heap) : heap'[n] = heap[n]
         /\ heap'[Len(heap) + 1] = node
         /\ \A n \in 1 .. Len(heap) + 1 : GoodNode(heap'[n], n)
         /\ freed \in Seq(0 .. Len(heap) + 1)
<1>1. PICK S : heap \in Seq(S)
  BY DEF ShapeInv, IsSequence
<1>2. heap \in Seq(S \cup {node})
  BY <1>1, SeqMonotonic
<1>3. /\ Len(heap') = Len(heap) + 1
      /\ \A i \in 1 .. Len(heap) : heap'[i] = heap[i]
      /\ heap'[Len(heap) + 1] = node
  BY <1>2, AppendProperties DEF Allocate
<1>4. Len(heap) \in Nat
  BY HeapFacts
<1>5. \A n \in 1 .. Len(heap) + 1 : n = Len(heap) + 1 \/ n \in 1 .. Len(heap)
  BY <1>4
<1>6. \A n \in 1 .. Len(heap) + 1 : GoodNode(heap'[n], n)
  BY <1>3, <1>5 DEF TreeInv
<1>7. 0 .. Len(heap) \subseteq 0 .. Len(heap) + 1
  BY <1>4
<1>8. freed \in Seq(0 .. Len(heap) + 1)
  BY <1>7, SeqMonotonic DEF TreeInv
<1> QED BY <1>3, <1>4, <1>6, <1>8

\* compiler_advance, compiler_consume and the error reports: what they do to
\* the tokens and to the flags.
Scans(reports) ==
  /\ scanned' \in Seq(TokenTypes \cup {"EOF", "ERROR"})
  /\ compiler.is_error => compiler'.is_error
  /\ (compiler.is_panic => compiler.is_error) =>
       /\ compiler'.is_panic => compiler'.is_error
       /\ reports => compiler'.is_error

\* compiler_advance, as far as the errors go.
LEMMA AdvanceScans ==
  ASSUME ShapeInv, NEW past \in Seq(TokenTypes \cup {"EOF", "ERROR"}),
         NEW reports \in BOOLEAN, Advance(past, reports)
  PROVE  Scans(reports) /\ compiler'.previous = compiler.current
<1>1. PICK token \in Answers(past), bad \in BOOLEAN :
        /\ compiler' = [current  |-> token,
                     previous |-> compiler.current,
                     is_panic |-> compiler.is_panic \/ reports \/ bad,
                     is_error |-> \/ compiler.is_error
                                  \/ ~compiler.is_panic /\ (reports \/ bad)]
        /\ scanned' = past \o (IF bad THEN <<"ERROR">> ELSE << >>)
                           \o (IF Ended(past) THEN << >> ELSE <<token>>)
  BY DEF Advance
<1> DEFINE S == TokenTypes \cup {"EOF", "ERROR"}
           a == IF bad THEN <<"ERROR">> ELSE << >>
           b == IF Ended(past) THEN << >> ELSE <<token>>
<1>2. token \in S
  BY DEF Answers
<1>3. a \in Seq(S)
  OBVIOUS
<1>4. b \in Seq(S)
  <2>1. << >> \in Seq(S) /\ <<token>> \in Seq(S)
    BY <1>2
  <2> QED BY <2>1
<1> HIDE DEF a, b, S
<1>5. past \o a \in Seq(S)
  BY <1>3, ConcatProperties DEF S
<1>6. (past \o a) \o b \in Seq(S)
  BY <1>4, <1>5, ConcatProperties
<1>7. scanned' \in Seq(S)
  BY <1>1, <1>6 DEF a, b
<1>8. /\ compiler'.previous = compiler.current
      /\ compiler'.is_panic = (compiler.is_panic \/ reports \/ bad)
      /\ compiler'.is_error = (compiler.is_error \/ (~compiler.is_panic /\ (reports \/ bad)))
  BY <1>1
<1>9. compiler.is_error \in BOOLEAN /\ compiler.is_panic \in BOOLEAN
  BY DEF ShapeInv, Compilers
<1> QED BY <1>7, <1>8, <1>9 DEF Scans, S

\* compiler_consume, which reports an error or advances.
LEMMA ConsumeScans ==
  ASSUME ShapeInv, TreeInv, NEW token, Consume(token)
  PROVE  Scans(FALSE)
<1>1. CASE Advance(scanned, FALSE)
  <2>1. scanned \in Seq(TokenTypes \cup {"EOF", "ERROR"})
    BY DEF TreeInv
  <2> QED BY <1>1, <2>1, AdvanceScans
<1>2. CASE Report
  <2>1. /\ compiler'.is_panic = TRUE
        /\ compiler'.is_error = (compiler.is_error \/ ~compiler.is_panic)
        /\ scanned' = scanned
    BY <1>2 DEF Report, ShapeInv, Compilers
  <2>2. compiler.is_error \in BOOLEAN /\ compiler.is_panic \in BOOLEAN
    BY DEF ShapeInv, Compilers
  <2> QED BY <2>1, <2>2 DEF Scans, TreeInv
<1> QED BY <1>1, <1>2 DEF Consume
-----------------------------------------------------------------------------
\* The tree is as it was, or has one more node.
HeapGrows ==
  \/ UNCHANGED heap
  \/ \E node : /\ GoodNode(node, Len(heap) + 1) /\ Allocate(node)
               /\ node.kind # "value" => node.type = "unknown"

\* What a step of the parser does, whatever it does to the calls.
LEMMA TreeGrown ==
  ASSUME ShapeInv, TreeInv, phase = "parsing",
         phase' \in {"parsing", "parsed", "crashed"}, HeapGrows,
         scanned' \in Seq(TokenTypes \cup {"EOF", "ERROR"}), UNCHANGED <<reused, freed>>,
         \A i \in 1 .. Len(frames') : GoodCall(frames'[i], Len(heap')),
         ast' \in 0 .. Len(heap')
  PROVE  TreeInv'
<1>1. freed = << >> /\ Untyped(heap)
  BY DEF TreeInv
<1>2. /\ \A n \in 1 .. Len(heap') : GoodNode(heap'[n], n)
      /\ freed' \in Seq(0 .. Len(heap'))
      /\ Untyped(heap')
  <2>1. CASE UNCHANGED heap
    BY <1>1, <2>1 DEF TreeInv
  <2>2. CASE ~ UNCHANGED heap
    <3>1. PICK node : /\ GoodNode(node, Len(heap) + 1) /\ Allocate(node)
                      /\ node.kind # "value" => node.type = "unknown"
      BY <2>2 DEF HeapGrows
    <3>2. /\ Len(heap') = Len(heap) + 1 /\ Len(heap) \in Nat
          /\ \A n \in 1 .. Len(heap) : heap'[n] = heap[n]
          /\ heap'[Len(heap) + 1] = node
          /\ \A n \in 1 .. Len(heap) + 1 : GoodNode(heap'[n], n)
          /\ freed \in Seq(0 .. Len(heap) + 1)
      BY <3>1, NodeAdded
    <3>3. \A n \in 1 .. Len(heap) + 1 : n = Len(heap) + 1 \/ n \in 1 .. Len(heap)
      BY <3>2
    <3>4. Untyped(heap')
      BY <1>1, <3>1, <3>2, <3>3 DEF Untyped
    <3> QED BY <3>2, <3>4
  <2> QED BY <2>1, <2>2
<1> QED BY <1>1, <1>2 DEF TreeInv, Phases

\* The heap never shrinks; a new node is its last.
LEMMA HeapLength ==
  ASSUME ShapeInv, TreeInv, HeapGrows
  PROVE  /\ Len(heap) \in Nat /\ Len(heap') \in Nat /\ Len(heap) <= Len(heap')
         /\ ~ UNCHANGED heap => Len(heap') = New
<1>1. Len(heap) \in Nat
  BY HeapFacts
<1>2. CASE UNCHANGED heap
  BY <1>1, <1>2
<1>3. CASE ~ UNCHANGED heap
  <2>1. Len(heap') = Len(heap) + 1
    BY <1>3, NodeAdded DEF HeapGrows
  <2> QED BY <1>1, <1>3, <2>1 DEF New
<1> QED BY <1>2, <1>3

\* A call returns what it was given, nothing, or the node it has made.
LEMMA GoodReturn ==
  ASSUME ShapeInv, OwnersInv, TreeInv, phase = "parsing", HeapGrows,
         NEW node \in 0 .. Len(heap'), Return(node),
         scanned' \in Seq(TokenTypes \cup {"EOF", "ERROR"}), UNCHANGED <<reused, freed>>
  PROVE  TreeInv'
<1>1. Len(heap) \in Nat /\ Len(heap') \in Nat /\ Len(heap) <= Len(heap')
  BY HeapLength
<1>2. node \in Int /\ node \in Pending .. Len(heap')
  BY <1>1 DEF Pending
<1>3. /\ \A i \in 1 .. Len(frames') : \E j \in 1 .. Len(frames) :
           frames'[i] = frames[j] \/ frames'[i] = [frames[j] EXCEPT !.value = node]
      /\ \/ ast' = node /\ phase' = "parsed"
         \/ UNCHANGED <<ast, phase>>
  BY <1>2, ReturnShape
<1>4. \A j \in 1 .. Len(frames) : GoodCall(frames[j], Len(heap'))
  BY <1>1, CallGrows DEF TreeInv
<1>5. \A j \in 1 .. Len(frames) : GoodCall([frames[j] EXCEPT !.value = node], Len(heap'))
  BY <1>1, <1>2, <1>4, CallFilled
<1>6. \A i \in 1 .. Len(frames') : GoodCall(frames'[i], Len(heap'))
  BY <1>3, <1>4, <1>5
<1>7. ast' \in 0 .. Len(heap')
  BY <1>1, <1>3 DEF TreeInv
<1>8. phase' \in {"parsing", "parsed", "crashed"}
  BY <1>3
<1> QED BY <1>6, <1>7, <1>8, TreeGrown

\* What the call that acts is.
LEMMA Acting ==
  ASSUME PInv, TreeInv, phase = "parsing"
  PROVE  /\ ShapeInv /\ OwnersInv /\ frames # << >> /\ ast = Null
         /\ Len(frames) \in Nat \ {0} /\ Len(frames) \in 1 .. Len(frames)
         /\ Top = frames[Len(frames)] /\ GoodCall(Top, Len(heap))
         /\ scanned \in Seq(TokenTypes \cup {"EOF", "ERROR"})
         /\ compiler.current \in Tokens /\ Len(heap) \in Nat
<1>1. /\ ShapeInv /\ OwnersInv /\ frames # << >> /\ ast = Null
  BY DEF PInv, OwnersInv
<1>2. Len(frames) \in Nat \ {0} /\ Top = frames[Len(frames)]
  BY <1>1, FrameFacts
<1>3. Len(frames) \in 1 .. Len(frames)
  BY <1>2
<1> QED BY <1>1, <1>2, <1>3, HeapFacts DEF TreeInv, ShapeInv, Compilers

\* What a token is by its entries in the table.
LEMMA TableEntries ==
  \A token : /\ Prefix(token) = "literal" => token \in Numbers
             /\ Prefix(token) = "unary" => token \in UnaryOperators
             /\ Infix(token) # "none" => token \in Operators
             /\ Prefix(token) \in {"grouping", "unary", "literal", "none"}
             /\ PrecedenceOf(token) \in Nat
             /\ PrecedenceOf(token) >= PREC_ASSIGNMENT /\ Infix(token) = "none" =>
                  token \in {"+=", "-=", "->"}
<1> TAKE token
<1>1. Prefix(token) = "literal" => token \in Numbers
  BY DEF Prefix, Numbers
<1>2. Prefix(token) = "unary" => token \in UnaryOperators
  BY DEF Prefix, UnaryOperators
<1>3. Infix(token) # "none" => token \in Operators
  BY DEF Infix, Operators
<1>4. Prefix(token) \in {"grouping", "unary", "literal", "none"}
  BY DEF Prefix
<1>5. PrecedenceOf(token) >= PREC_ASSIGNMENT /\ Infix(token) = "none" =>
        token \in {"+=", "-=", "->"}
  BY DEF PrecedenceOf, Infix, PREC_ASSIGNMENT, PREC_TERM, PREC_FACTOR, PREC_NONE
<1> QED BY <1>1, <1>2, <1>3, <1>4, <1>5, Levels

\* The returns make no node.
LEMMA ReturnsKeepTree ==
  PInv /\ TreeInv /\ (no_prefix \/ leave_precedence) => TreeInv'
<1>1. ASSUME PInv, TreeInv, no_prefix PROVE TreeInv'
  <2>1. /\ phase = "parsing" /\ Advance(scanned, TRUE) /\ Return(Null)
        /\ UNCHANGED <<reused, heap, freed>>
    BY <1>1 DEF no_prefix, AtPrefix
  <2>2. /\ ShapeInv /\ OwnersInv /\ Len(heap) \in Nat
        /\ scanned \in Seq(TokenTypes \cup {"EOF", "ERROR"})
    BY <1>1, <2>1, Acting
  <2>3. scanned' \in Seq(TokenTypes \cup {"EOF", "ERROR"})
    BY <2>1, <2>2, AdvanceScans DEF Scans
  <2>4. Null \in 0 .. Len(heap') /\ HeapGrows
    BY <2>1, <2>2 DEF Null, HeapGrows
  <2> QED BY <1>1, <2>1, <2>2, <2>3, <2>4, GoodReturn
<1>2. ASSUME PInv, TreeInv, leave_precedence PROVE TreeInv'
  <2>1. /\ phase = "parsing" /\ Top.value # Pending /\ Return(Top.value)
        /\ UNCHANGED <<compiler, scanned, reused, heap, freed>>
    BY <1>2 DEF leave_precedence, AtInfix
  <2>2. /\ ShapeInv /\ OwnersInv /\ Len(heap) \in Nat /\ GoodCall(Top, Len(heap))
        /\ scanned \in Seq(TokenTypes \cup {"EOF", "ERROR"})
    BY <1>2, <2>1, Acting
  <2>3. Top.value \in 0 .. Len(heap') /\ HeapGrows
    BY <2>1, <2>2 DEF GoodCall, Pending, HeapGrows
  <2> QED BY <1>2, <2>1, <2>2, <2>3, GoodReturn
<1> QED BY <1>1, <1>2

\* The nodes that are made of calls in progress.
LEMMA MadeGood ==
  ASSUME NEW kind, NEW operator \in Tokens,
         NEW last \in Nat, NEW first \in 0 .. last, NEW value \in 0 .. last,
         NEW children,
         \/ kind = "unary" /\ operator \in UnaryOperators /\ children = <<value>>
         \/ kind = "grouping" /\ operator = "none" /\ children = <<value>>
         \/ kind = "binary" /\ operator \in Operators /\ children = <<first, value>>
  PROVE  /\ GoodNode(Node(kind, operator, children, "unknown", 0), last + 1)
         /\ Node(kind, operator, children, "unknown", 0).type = "unknown"
<1> DEFINE node == Node(kind, operator, children, "unknown", 0)
<1>1. <<value>> \in Seq(0 .. last) /\ <<first, value>> \in Seq(0 .. last)
  OBVIOUS
<1>2. children \in Seq(0 .. last) /\ children \in Seq(Nat)
  <2>1. 0 .. last \subseteq Nat
    OBVIOUS
  <2>2. children \in Seq(0 .. last)
    BY <1>1
  <2> QED BY <2>1, <2>2, SeqMonotonic
<1>3. /\ node \in Nodes /\ node.kind = kind /\ node.operator = operator
      /\ node.children = children /\ node.type = "unknown"
  BY <1>2 DEF Node, Nodes, Kinds
<1>4. (last + 1) - 1 = last
  OBVIOUS
<1>5. Len(<<value>>) = 1 /\ Len(<<first, value>>) = 2
  OBVIOUS
<1> HIDE DEF node
<1>6. GoodNode(node, last + 1)
  BY <1>2, <1>3, <1>4, <1>5 DEF GoodNode
<1> QED BY <1>3, <1>6 DEF node

\* The new node of a rule is the youngest, so it is younger than its children.
LEMMA NodesKeepTree ==
  PInv /\ TreeInv /\ (parse_grouping \/ parse_unary \/ parse_binary) => TreeInv'
<1>1. ASSUME PInv, TreeInv, phase = "parsing", Top.value # Pending,
             NEW kind, NEW operator \in Tokens, NEW children,
             Allocate(Node(kind, operator, children, "unknown", 0)), Return(New),
             \/ kind = "unary" /\ operator \in UnaryOperators /\ children = <<Top.value>>
             \/ kind = "grouping" /\ operator = "none" /\ children = <<Top.value>>
             \/ kind = "binary" /\ operator \in Operators /\ children = <<Top.first, Top.value>>,
             scanned' \in Seq(TokenTypes \cup {"EOF", "ERROR"}), UNCHANGED <<reused, freed>>
      PROVE  TreeInv'
  <2>1. /\ ShapeInv /\ OwnersInv /\ Len(heap) \in Nat /\ GoodCall(Top, Len(heap))
    BY <1>1, Acting
  <2>2. Top.value \in 0 .. Len(heap) /\ Top.first \in 0 .. Len(heap)
    BY <1>1, <2>1 DEF GoodCall, Pending
  <2>3. /\ GoodNode(Node(kind, operator, children, "unknown", 0), Len(heap) + 1)
        /\ Node(kind, operator, children, "unknown", 0).type = "unknown"
    BY <1>1, <2>1, <2>2, MadeGood
  <2>4. HeapGrows
    BY <1>1, <2>3 DEF HeapGrows
  <2>5. Len(heap') = Len(heap) + 1
    BY <1>1, <2>1, <2>3, NodeAdded
  <2>6. New \in 0 .. Len(heap')
    BY <2>1, <2>5 DEF New
  <2> QED BY <1>1, <2>1, <2>4, <2>6, GoodReturn
<1>2. ASSUME PInv, TreeInv, parse_grouping PROVE TreeInv'
  <2>1. /\ phase = "parsing" /\ Top.value # Pending /\ Consume(")")
        /\ Allocate(Node("grouping", "none", <<Top.value>>, "unknown", 0))
        /\ Return(New) /\ UNCHANGED <<reused, freed>>
    BY <1>2 DEF parse_grouping, Returned
  <2>2. scanned' \in Seq(TokenTypes \cup {"EOF", "ERROR"})
    BY <1>2, <2>1, Acting, ConsumeScans DEF Scans
  <2>3. "none" \in Tokens
    BY DEF Tokens
  <2> QED BY <1>1, <1>2, <2>1, <2>2, <2>3
<1>3. ASSUME PInv, TreeInv, parse_unary PROVE TreeInv'
  <2>1. /\ phase = "parsing" /\ Top.value # Pending /\ Top.fn = "unary"
        /\ Allocate(Node("unary", Top.operator, <<Top.value>>, "unknown", 0))
        /\ Return(New) /\ UNCHANGED <<scanned, reused, freed>>
    BY <1>3 DEF parse_unary, Returned
  <2>2. /\ scanned' \in Seq(TokenTypes \cup {"EOF", "ERROR"}) /\ GoodCall(Top, Len(heap))
    BY <1>3, <2>1, Acting
  <2>3. Top.operator \in Tokens /\ Top.operator \in UnaryOperators
    BY <2>1, <2>2 DEF GoodCall, Frames
  <2> QED BY <1>1, <1>3, <2>1, <2>2, <2>3
<1>4. ASSUME PInv, TreeInv, parse_binary PROVE TreeInv'
  <2>1. /\ phase = "parsing" /\ Top.value # Pending /\ Top.fn = "binary"
        /\ Allocate(Node("binary", Top.operator, <<Top.first, Top.value>>, "unknown", 0))
        /\ Return(New) /\ UNCHANGED <<scanned, reused, freed>>
    BY <1>4 DEF parse_binary, Returned
  <2>2. /\ scanned' \in Seq(TokenTypes \cup {"EOF", "ERROR"}) /\ GoodCall(Top, Len(heap))
    BY <1>4, <2>1, Acting
  <2>3. Top.operator \in Tokens /\ Top.operator \in Operators
    BY <2>1, <2>2 DEF GoodCall, Frames
  <2> QED BY <1>1, <1>4, <2>1, <2>2, <2>3
<1> QED BY <1>2, <1>3, <1>4

\* The nodes that are made of literals.
LEMMA LiteralGood ==
  ASSUME Len(heap) \in Nat, Prefix(compiler.current) = "literal",
         scanned \in Seq(TokenTypes \cup {"EOF", "ERROR"})
  PROVE  GoodNode(Node("value", "none", << >>, compiler.current, Len(scanned)), Len(heap) + 1)
<1> DEFINE node == Node("value", "none", << >>, compiler.current, Len(scanned))
<1>1. compiler.current \in Numbers /\ compiler.current \in Kinds
  BY TableEntries DEF Numbers, Kinds
<1>2. Len(scanned) \in Nat /\ << >> \in Seq(Nat) /\ << >> \in Seq(0 .. (Len(heap) + 1) - 1)
  OBVIOUS
<1>3. /\ node \in Nodes /\ node.kind = "value" /\ node.operator = "none"
      /\ node.children = << >> /\ node.type = compiler.current
  BY <1>1, <1>2 DEF Node, Nodes, Tokens
<1> HIDE DEF node
<1>4. GoodNode(node, Len(heap) + 1)
  BY <1>1, <1>2, <1>3 DEF GoodNode
<1> QED BY <1>4 DEF node

\* A literal has no children.
LEMMA LiteralKeepsTree == PInv /\ TreeInv /\ parse_literal => TreeInv'
<1> SUFFICES ASSUME PInv, TreeInv, parse_literal PROVE TreeInv'
  OBVIOUS
<1> DEFINE L == Len(frames)
           node == Node("value", "none", << >>, compiler.current, Len(scanned))
           new == [frames[L] EXCEPT !.value = New]
<1>1. /\ phase = "parsing" /\ Advance(scanned, FALSE) /\ Allocate(node)
      /\ frames' = [frames EXCEPT ![L] = new]
      /\ UNCHANGED <<phase, reused, ast, freed>>
      /\ Prefix(compiler.current) = "literal"
  BY DEF parse_literal, AtPrefix
<1>2. /\ ShapeInv /\ Len(heap) \in Nat /\ L \in 1 .. L /\ frames \in Seq(Frames)
      /\ scanned \in Seq(TokenTypes \cup {"EOF", "ERROR"})
  BY <1>1, Acting DEF ShapeInv
<1>3. scanned' \in Seq(TokenTypes \cup {"EOF", "ERROR"})
  BY <1>1, <1>2, AdvanceScans DEF Scans
<1>4. GoodNode(node, Len(heap) + 1) /\ node.kind = "value"
  BY <1>1, <1>2, LiteralGood DEF Node
<1> HIDE DEF node
<1>5. HeapGrows
  BY <1>1, <1>4 DEF HeapGrows
<1>6. Len(heap') = Len(heap) + 1 /\ New = Len(heap) + 1
  BY <1>1, <1>2, <1>4, NodeAdded DEF New
<1>7. \A j \in 1 .. L : GoodCall(frames[j], Len(heap'))
  <2>1. Len(heap') \in Nat /\ Len(heap) <= Len(heap')
    BY <1>2, <1>6
  <2>2. \A j \in 1 .. L : GoodCall(frames[j], Len(heap))
    BY DEF TreeInv
  <2> HIDE DEF L
  <2> QED BY <1>2, <2>1, <2>2, CallGrows
<1>8. GoodCall(new, Len(heap'))
  <2>1. New \in Pending .. Len(heap') /\ Len(heap') \in Nat
    BY <1>2, <1>6 DEF Pending
  <2> QED BY <1>2, <1>7, <2>1, CallFilled
<1>9. new \in Frames
  BY <1>8 DEF GoodCall
<1> HIDE DEF new
<1>10. Len(frames') = L /\ \A i \in 1 .. L : frames'[i] = IF i = L THEN new ELSE frames[i]
  BY <1>1, <1>2, <1>9, ExceptSeq
<1>11. \A i \in 1 .. Len(frames') : GoodCall(frames'[i], Len(heap'))
  BY <1>7, <1>8, <1>10
<1>12. ast' \in 0 .. Len(heap')
  BY <1>1, <1>2, <1>6 DEF TreeInv
<1> QED BY <1>1, <1>2, <1>3, <1>5, <1>11, <1>12, TreeGrown

\* Two calls more.
LEMMA TwoAdded ==
  ASSUME NEW base \in Seq(Frames), NEW a \in Frames, NEW b \in Frames
  PROVE  \A i \in 1 .. Len(base \o <<a, b>>) :
           \/ \E j \in 1 .. Len(base) : (base \o <<a, b>>)[i] = base[j]
           \/ (base \o <<a, b>>)[i] = a
           \/ (base \o <<a, b>>)[i] = b
<1> DEFINE pair == <<a, b>>
           calls == base \o pair
<1>1. pair \in Seq(Frames) /\ Len(pair) = 2 /\ pair[1] = a /\ pair[2] = b
  OBVIOUS
<1> HIDE DEF pair
<1>2. /\ Len(calls) = Len(base) + 2 /\ Len(base) \in Nat
      /\ \A i \in 1 .. Len(base) + 2 :
           calls[i] = IF i <= Len(base) THEN base[i] ELSE pair[i - Len(base)]
  <2>1. /\ Len(calls) = Len(base) + Len(pair)
        /\ \A i \in 1 .. Len(base) + Len(pair) :
             calls[i] = IF i <= Len(base) THEN base[i] ELSE pair[i - Len(base)]
    BY <1>1, ConcatProperties
  <2>2. Len(base) \in Nat
    OBVIOUS
  <2> HIDE DEF calls
  <2> QED BY <1>1, <2>1, <2>2
<1> HIDE DEF calls
<1>3. ASSUME NEW i \in 1 .. Len(base) + 2
      PROVE  (\E j \in 1 .. Len(base) : calls[i] = base[j]) \/ calls[i] = a \/ calls[i] = b
  <2>1. CASE i \in 1 .. Len(base)
    BY <1>2, <2>1
  <2>2. CASE i = Len(base) + 1
    <3>1. ~ (i <= Len(base)) /\ i - Len(base) = 1
      BY <1>2, <2>2
    <3> QED BY <1>1, <1>2, <3>1
  <2>3. CASE i = Len(base) + 2
    <3>1. ~ (i <= Len(base)) /\ i - Len(base) = 2
      BY <1>2, <2>3
    <3> QED BY <1>1, <1>2, <3>1
  <2>4. i \in 1 .. Len(base) \/ i = Len(base) + 1 \/ i = Len(base) + 2
    BY <1>2
  <2> QED BY <2>1, <2>2, <2>3, <2>4
<1> QED BY <1>2, <1>3 DEF calls, pair

\* A call makes no node.
LEMMA CallsKeepTree == PInv /\ TreeInv /\ (call_prefix \/ call_infix) => TreeInv'
<1>1. ASSUME NEW fn \in {"grouping", "unary", "binary"}, NEW operator \in Tokens,
             NEW last \in Nat, NEW first \in 0 .. last,
             fn = "unary" => operator \in UnaryOperators,
             fn = "binary" => operator \in Operators
      PROVE  GoodCall(Call(fn, operator, first), last)
  BY <1>1 DEF GoodCall, Call, Frames, PREC_NONE, Pending
<1>2. ASSUME NEW min \in Nat, min >= PREC_ASSIGNMENT, NEW last \in Nat
      PROVE  GoodCall(Precedence(min), last)
  <2>1. /\ Precedence(min) \in Frames /\ Precedence(min).first = 0
        /\ Precedence(min).value = -1 /\ Precedence(min).fn = "precedence"
        /\ Precedence(min).min = min
    BY DEF Precedence, Call, Frames, Tokens, PREC_NONE, Pending, Null
  <2> QED BY <1>2, <2>1 DEF GoodCall, Pending
<1>3. ASSUME NEW base \in Seq(Frames), NEW a, NEW b,
             NEW last \in Nat, GoodCall(a, last), GoodCall(b, last),
             \A i \in 1 .. Len(base) : GoodCall(base[i], last),
             frames' = base \o <<a, b>>
      PROVE  \A i \in 1 .. Len(frames') : GoodCall(frames'[i], last)
  <2>1. a \in Frames /\ b \in Frames
    BY <1>3 DEF GoodCall
  <2>2. \A i \in 1 .. Len(frames') :
          \/ \E j \in 1 .. Len(base) : frames'[i] = base[j]
          \/ frames'[i] = a
          \/ frames'[i] = b
    BY <1>3, <2>1, TwoAdded
  <2> QED BY <1>3, <2>2
<1>4. ASSUME PInv, TreeInv, call_prefix PROVE TreeInv'
  <2> DEFINE fn == Prefix(compiler.current)
             min == IF fn = "unary" THEN PREC_UNARY ELSE PREC_ASSIGNMENT
             a == Call(fn, compiler.current, Null)
             b == Precedence(min)
  <2>1. /\ phase = "parsing" /\ Advance(scanned, FALSE)
        /\ fn \in {"grouping", "unary"} /\ UNCHANGED <<phase, reused, heap, ast, freed>>
        /\ frames' = frames \o <<a, b>>
    BY <1>4 DEF call_prefix, AtPrefix
  <2>2. /\ ShapeInv /\ Len(heap) \in Nat /\ frames \in Seq(Frames)
        /\ scanned \in Seq(TokenTypes \cup {"EOF", "ERROR"})
        /\ compiler.current \in Tokens
    BY <1>4, <2>1, Acting DEF ShapeInv
  <2>3. scanned' \in Seq(TokenTypes \cup {"EOF", "ERROR"})
    BY <2>1, <2>2, AdvanceScans DEF Scans
  <2>4. min \in Nat /\ min >= PREC_ASSIGNMENT /\ Null \in 0 .. Len(heap)
    BY <2>2 DEF PREC_UNARY, PREC_ASSIGNMENT, Null
  <2>5. GoodCall(a, Len(heap))
    <3>1. fn = "unary" => compiler.current \in UnaryOperators
      BY TableEntries
    <3> QED BY <1>1, <2>1, <2>2, <2>4, <3>1
  <2>6. GoodCall(b, Len(heap))
    BY <1>2, <2>2, <2>4
  <2> HIDE DEF a, b
  <2>7. \A i \in 1 .. Len(frames) : GoodCall(frames[i], Len(heap))
    BY <1>4 DEF TreeInv
  <2>8. \A i \in 1 .. Len(frames') : GoodCall(frames'[i], Len(heap))
    BY <1>3, <2>1, <2>2, <2>5, <2>6, <2>7
  <2>9. HeapGrows /\ ast' \in 0 .. Len(heap')
    BY <1>4, <2>1 DEF HeapGrows, TreeInv
  <2> QED BY <1>4, <2>1, <2>2, <2>3, <2>8, <2>9, TreeGrown
<1>5. ASSUME PInv, TreeInv, call_infix PROVE TreeInv'
  <2>1. /\ phase = "parsing" /\ Advance(scanned, FALSE) /\ Top.value # Pending
        /\ UNCHANGED <<reused, heap, ast, freed>>
    BY <1>5 DEF call_infix, AtInfix
  <2>2. /\ ShapeInv /\ Len(heap) \in Nat /\ frames \in Seq(Frames)
        /\ scanned \in Seq(TokenTypes \cup {"EOF", "ERROR"})
        /\ compiler.current \in Tokens /\ GoodCall(Top, Len(heap))
        /\ Top = frames[Len(frames)] /\ Len(frames) \in 1 .. Len(frames)
    BY <1>5, <2>1, Acting DEF ShapeInv
  <2>3. scanned' \in Seq(TokenTypes \cup {"EOF", "ERROR"})
    BY <2>1, <2>2, AdvanceScans DEF Scans
  <2>7. \A i \in 1 .. Len(frames) : GoodCall(frames[i], Len(heap))
    BY <1>5 DEF TreeInv
  <2>9. HeapGrows /\ ast' \in 0 .. Len(heap')
    BY <1>5, <2>1 DEF HeapGrows, TreeInv
  <2>4. CASE Infix(compiler.current) = "none"
    <3>1. phase' = "crashed" /\ UNCHANGED frames
      BY <1>5, <2>4 DEF call_infix
    <3> QED BY <1>5, <2>1, <2>2, <2>3, <2>7, <2>9, <3>1, TreeGrown
  <2>5. CASE Infix(compiler.current) # "none"
    <3> DEFINE L == Len(frames)
               hollow == [frames[L] EXCEPT !.value = Pending]
               base == [frames EXCEPT ![L] = hollow]
               a == Call("binary", compiler.current, Top.value)
               b == Precedence(PrecedenceOf(compiler.current) + 1)
    <3>1. frames' = base \o <<a, b>> /\ UNCHANGED phase
      BY <1>5, <2>5 DEF call_infix
    <3>2. GoodCall(hollow, Len(heap))
      <4>1. Pending \in Pending .. Len(heap)
        BY <2>2 DEF Pending
      <4> QED BY <2>2, <4>1, CallFilled
    <3>3. hollow \in Frames
      BY <3>2 DEF GoodCall
    <3> HIDE DEF hollow
    <3>4. /\ base \in Seq(Frames) /\ Len(base) = L
          /\ \A i \in 1 .. L : base[i] = IF i = L THEN hollow ELSE frames[i]
      BY <2>2, <3>3, ExceptSeq
    <3> HIDE DEF base
    <3>5. \A i \in 1 .. Len(base) : GoodCall(base[i], Len(heap))
      BY <2>7, <3>2, <3>4
    <3>6. GoodCall(a, Len(heap))
      <4>1. Top.value \in 0 .. Len(heap)
        BY <2>1, <2>2 DEF GoodCall, Pending
      <4>2. compiler.current \in Operators
        BY <2>5, TableEntries
      <4> QED BY <1>1, <2>2, <4>1, <4>2
    <3>7. GoodCall(b, Len(heap))
      <4>1. PrecedenceOf(compiler.current) \in Nat
        BY TableEntries
      <4>2. /\ PrecedenceOf(compiler.current) + 1 \in Nat
            /\ PrecedenceOf(compiler.current) + 1 >= PREC_ASSIGNMENT
        BY <4>1 DEF PREC_ASSIGNMENT
      <4> QED BY <1>2, <2>2, <4>2
    <3> HIDE DEF a, b
    <3>8. \A i \in 1 .. Len(frames') : GoodCall(frames'[i], Len(heap))
      BY <1>3, <2>2, <3>1, <3>4, <3>5, <3>6, <3>7
    <3> QED BY <1>5, <2>1, <2>2, <2>3, <2>9, <3>1, <3>8, TreeGrown
  <2> QED BY <2>4, <2>5
<1> QED BY <1>4, <1>5
-----------------------------------------------------------------------------
\* What an expression may be inferred to be.
Results == {"int", "real", "invalid"}

\* The rules of infer_rules, for the types of a whole tree.
TypedBy(tree, type) ==
  \A n \in 1 .. Len(tree) :
    /\ tree[n].kind = "value" => type[n] = tree[n].type
    /\ tree[n].kind = "grouping" => type[n] = type[tree[n].children[1]]
    /\ tree[n].kind = "unary" => type[n] = InferUnary(tree[n].operator, type[tree[n].children[1]])
    /\ tree[n].kind = "binary" => type[n] = InferBinary(tree[n].operator,
                                    type[tree[n].children[1]], type[tree[n].children[2]])

\* The rules of two operands, of results only.
LEMMA BinaryRules ==
  ASSUME NEW operator \in Operators, NEW first \in Results, NEW second \in Results
  PROVE  /\ InferBinary(operator, first, second) \in Results
         /\ InferBinary(operator, first, second) = "invalid" <=>
              \/ first = "invalid" \/ second = "invalid"
              \/ operator = "|" /\ ~ (first = "int" /\ second = "int")
         /\ InferBinary(operator, first, second) = "int" <=>
              operator # "/" /\ first = "int" /\ second = "int"
<1>1. CASE {first, second} \subseteq Numbers
  <2>0. first \in Numbers /\ second \in Numbers /\ first # "invalid" /\ second # "invalid"
    BY <1>1 DEF Numbers
  <2>1. CASE operator \in {"+", "-", "*"}
    <3>1. InferBinary(operator, first, second) =
            IF first = "int" /\ second = "int" THEN "int" ELSE "real"
      BY <1>1, <2>1 DEF InferBinary
    <3> QED BY <2>0, <2>1, <3>1 DEF Results
  <2>2. CASE operator = "/"
    <3>1. InferBinary(operator, first, second) = "real"
      BY <1>1, <2>2 DEF InferBinary
    <3> QED BY <2>0, <2>2, <3>1 DEF Results
  <2>3. CASE operator = "|"
    <3>1. InferBinary(operator, first, second) =
            IF first = "int" /\ second = "int" THEN "int" ELSE "invalid"
      BY <1>1, <2>3 DEF InferBinary
    <3> QED BY <2>0, <2>3, <3>1 DEF Results
  <2> QED BY <2>1, <2>2, <2>3 DEF Operators
<1>2. CASE ~ ({first, second} \subseteq Numbers)
  <2>1. InferBinary(operator, first, second) = "invalid"
    BY <1>2 DEF InferBinary
  <2>2. first = "invalid" \/ second = "invalid"
    BY <1>2 DEF Numbers, Results
  <2> QED BY <2>1, <2>2 DEF Results
<1> QED BY <1>1, <1>2

\* The rules of one operand, of results only.
LEMMA UnaryRules ==
  ASSUME NEW operator \in UnaryOperators, NEW child \in Results
  PROVE  InferUnary(operator, child) = child
BY DEF InferUnary, UnaryOperators, Numbers, Results

GoodNodes(tree) == \A n \in 1 .. Len(tree) : GoodNode(tree[n], n)

\* Types inferred from the literals up are results, never unknown.
LEMMA ResultsOnly ==
  ASSUME NEW tree, WholeTree(tree), GoodNodes(tree), NEW type, TypedBy(tree, type)
  PROVE  \A n \in 1 .. Len(tree) : type[n] \in Results
<1> DEFINE H == Len(tree)
           T == {n \in 0 .. H : n # 0 => type[n] \in Results}
<1>0. H \in Nat
  BY DEF WholeTree, Ordered
<1>1. ASSUME NEW n \in 0 .. H, \A j \in 0 .. n - 1 : j \in T PROVE n \in T
  <2> SUFFICES ASSUME n # 0 PROVE type[n] \in Results
    OBVIOUS
  <2>1. n \in 1 .. H
    BY <1>0
  <2> DEFINE c == tree[n].children
  <2>2. \A k \in 1 .. Len(c) : type[c[k]] \in Results
    <3> TAKE k \in 1 .. Len(c)
    <3>1. c[k] \in 0 .. n - 1 /\ c[k] # 0
      BY <2>1, ChildrenOlder DEF WholeTree, Null
    <3> QED BY <1>1, <3>1
  <2>3. GoodNode(tree[n], n)
    BY <2>1 DEF GoodNodes
  <2>4. CASE tree[n].kind = "value"
    BY <2>1, <2>3, <2>4 DEF TypedBy, GoodNode, Numbers, Results
  <2>5. CASE tree[n].kind = "grouping"
    <3>1. Len(c) = 1 /\ type[n] = type[c[1]]
      BY <2>1, <2>3, <2>5 DEF TypedBy, GoodNode
    <3> HIDE DEF c
    <3> QED BY <2>2, <3>1
  <2>6. CASE tree[n].kind = "unary"
    <3>1. Len(c) = 1 /\ type[n] = InferUnary(tree[n].operator, type[c[1]])
          /\ tree[n].operator \in UnaryOperators
      BY <2>1, <2>3, <2>6 DEF TypedBy, GoodNode
    <3> HIDE DEF c
    <3>2. type[c[1]] \in Results
      BY <2>2, <3>1
    <3> QED BY <3>1, <3>2, UnaryRules
  <2>7. CASE tree[n].kind = "binary"
    <3>1. Len(c) = 2 /\ type[n] = InferBinary(tree[n].operator, type[c[1]], type[c[2]])
          /\ tree[n].operator \in Operators
      BY <2>1, <2>3, <2>7 DEF TypedBy, GoodNode
    <3> HIDE DEF c
    <3>2. type[c[1]] \in Results /\ type[c[2]] \in Results
      BY <2>2, <3>1
    <3> QED BY <3>1, <3>2, BinaryRules
  <2> QED BY <2>3, <2>4, <2>5, <2>6, <2>7 DEF GoodNode
<1>2. \A i \in 0 .. H : i \in T
  <2>1. \A n \in 0 .. H : (\A j \in 0 .. n - 1 : j \in T) => n \in T
    BY <1>1
  <2> HIDE DEF T
  <2> QED BY <1>0, <2>1, FromSmaller
<1>3. \A n \in 1 .. H : n \in 0 .. H /\ n # 0
  BY <1>0
<1> QED BY <1>2, <1>3

\* What compiler_typecheck_ast computes obeys the rules.
LEMMA RulesApplied ==
  ASSUME NEW tree, WholeTree(tree), GoodNodes(tree), Untyped(tree)
  PROVE  \E type : /\ TypedBy(tree, type)
                   /\ \A n \in 1 .. Len(tree) :
                        TypeOf(tree, n) = type[n] /\ type[n] \in Results
<1>1. PICK type : \A n \in 1 .. Len(tree) :
           TypeOf(tree, n) = type[n] /\ type[n] = Infer(tree, type, n)
  BY TypesInferred
<1>2. ASSUME NEW n \in 1 .. Len(tree)
      PROVE  /\ tree[n].kind = "value" => type[n] = tree[n].type
             /\ tree[n].kind = "grouping" => type[n] = type[tree[n].children[1]]
             /\ tree[n].kind = "unary" =>
                  type[n] = InferUnary(tree[n].operator, type[tree[n].children[1]])
             /\ tree[n].kind = "binary" =>
                  type[n] = InferBinary(tree[n].operator, type[tree[n].children[1]],
                                        type[tree[n].children[2]])
  <2>1. type[n] = Infer(tree, type, n)
    BY <1>1
  <2>2. CASE tree[n].kind = "value"
    <3>1. tree[n].type \in Numbers
      BY <2>2 DEF GoodNodes, GoodNode
    <3>2. tree[n].type # "unknown"
      BY <3>1 DEF Numbers
    <3> QED BY <2>1, <2>2, <3>2 DEF Infer
  <2>3. CASE tree[n].kind # "value"
    <3>1. tree[n].type = "unknown"
      BY <2>3 DEF Untyped
    <3>2. type[n] = CASE tree[n].kind = "unary" ->
              InferUnary(tree[n].operator, type[tree[n].children[1]])
         [] tree[n].kind = "binary" ->
              InferBinary(tree[n].operator, type[tree[n].children[1]],
                                            type[tree[n].children[2]])
         [] tree[n].kind = "grouping" -> type[tree[n].children[1]]
         [] OTHER -> "invalid"
      BY <2>1, <3>1 DEF Infer
    <3> QED BY <2>3, <3>2
  <2> QED BY <2>2, <2>3
<1>3. TypedBy(tree, type)
  BY <1>2 DEF TypedBy
<1>4. \A n \in 1 .. Len(tree) : type[n] \in Results
  BY <1>3, ResultsOnly
<1> QED BY <1>1, <1>3, <1>4

\* If a property of nodes passes from each child to its parent, and some node
\* has it, the root has it.
LEMMA ReachesRoot ==
  ASSUME NEW tree, WholeTree(tree), NEW root \in 1 .. Len(tree), Rooted(tree, root),
         NEW T \in SUBSET (1 .. Len(tree)), T # {},
         \A n \in 1 .. Len(tree) : \A k \in 1 .. Len(tree[n].children) :
           tree[n].children[k] \in T => n \in T
  PROVE  root \in T
<1>0. Len(tree) \in Nat
  BY DEF WholeTree, Ordered
<1>1. T \in SUBSET Nat /\ \A x \in T : x <= Len(tree)
  BY <1>0
<1>2. PICK x \in T : \A y \in T : y <= x
  BY <1>0, <1>1, GreatestNumber
<1>3. CASE x = root
  BY <1>3
<1>4. CASE x # root
  <2>1. PICK n \in 1 .. Len(tree) : \E k \in 1 .. Len(tree[n].children) :
          tree[n].children[k] = x
    BY <1>4 DEF Rooted
  <2>2. PICK k \in 1 .. Len(tree[n].children) : tree[n].children[k] = x
    BY <2>1
  <2>3. x \in 0 .. n - 1
    BY <2>2, ChildrenOlder DEF WholeTree
  <2>4. n \in T
    BY <2>2
  <2> QED BY <1>0, <1>2, <2>3, <2>4
<1> QED BY <1>3, <1>4

\* If a property that some node has must be one of a child's too, the tree has
\* no bottom: no node has it.
LEMMA NoBottom ==
  ASSUME NEW tree, WholeTree(tree), NEW T \in SUBSET (1 .. Len(tree)),
         \A n \in T : \E k \in 1 .. Len(tree[n].children) : tree[n].children[k] \in T
  PROVE  T = {}
<1> SUFFICES ASSUME T # {} PROVE FALSE
  OBVIOUS
<1>1. T \in SUBSET Nat
  OBVIOUS
<1>2. PICK x \in T : \A y \in T : x <= y
  BY <1>1, LeastNumber
<1>3. PICK k \in 1 .. Len(tree[x].children) : tree[x].children[k] \in T
  OBVIOUS
<1>4. tree[x].children[k] \in 0 .. x - 1 /\ x \in Nat
  BY <1>3, ChildrenOlder DEF WholeTree
<1> QED BY <1>2, <1>3, <1>4

\* The type of the root, seen from all nodes.
LEMMA RootType ==
  ASSUME NEW tree, WholeTree(tree), GoodNodes(tree), NEW root \in 1 .. Len(tree),
         Rooted(tree, root), NEW type, TypedBy(tree, type)
  PROVE  LET broken  == \E n \in 1 .. Len(tree) : tree[n].operator = "|" /\
                           \E k \in {1, 2} : type[tree[n].children[k]] # "int"
             integer == \A n \in 1 .. Len(tree) :
                           /\ tree[n].operator # "/"
                           /\ tree[n].kind = "value" => tree[n].type = "int"
         IN  type[root] = IF broken THEN "invalid" ELSE IF integer THEN "int" ELSE "real"
<1> DEFINE H == Len(tree)
           c(n) == tree[n].children
           broken == \E n \in 1 .. H : tree[n].operator = "|" /\
                       \E k \in {1, 2} : type[c(n)[k]] # "int"
           integer == \A n \in 1 .. H :
                        /\ tree[n].operator # "/"
                        /\ tree[n].kind = "value" => tree[n].type = "int"
           Invalid == {n \in 1 .. H : type[n] = "invalid"}
           Other == {n \in 1 .. H : type[n] # "int"}
<1>0. H \in Nat /\ \A n \in 1 .. H : type[n] \in Results
  BY ResultsOnly DEF WholeTree, Ordered
<1>1. \A n \in 1 .. H : \A k \in 1 .. Len(c(n)) : c(n)[k] \in 1 .. H
  <2> TAKE n \in 1 .. H
  <2> TAKE k \in 1 .. Len(c(n))
  <2>1. c(n)[k] \in 0 .. n - 1 /\ c(n)[k] # 0
    BY ChildrenOlder DEF WholeTree, Null
  <2> QED BY <1>0, <2>1
\* What a node's type says, kind by kind.
<1>2. ASSUME NEW n \in 1 .. H
      PROVE  \/ /\ Len(c(n)) = 0 /\ tree[n].kind = "value"
                /\ type[n] = tree[n].type /\ type[n] \in Numbers /\ tree[n].operator = "none"
             \/ /\ Len(c(n)) = 1 /\ tree[n].kind \in {"unary", "grouping"}
                /\ type[n] = type[c(n)[1]] /\ tree[n].operator \notin {"/", "|"}
             \/ /\ Len(c(n)) = 2 /\ tree[n].kind = "binary"
                /\ type[n] = "invalid" <=>
                     \/ type[c(n)[1]] = "invalid" \/ type[c(n)[2]] = "invalid"
                     \/ /\ tree[n].operator = "|"
                        /\ ~ (type[c(n)[1]] = "int" /\ type[c(n)[2]] = "int")
                /\ type[n] = "int" <=>
                     tree[n].operator # "/" /\ type[c(n)[1]] = "int" /\ type[c(n)[2]] = "int"
  <2>1. GoodNode(tree[n], n)
    BY DEF GoodNodes
  <2>2. CASE tree[n].kind = "value"
    BY <2>1, <2>2 DEF GoodNode, TypedBy
  <2>3. CASE tree[n].kind = "grouping"
    BY <2>1, <2>3 DEF GoodNode, TypedBy
  <2>4. CASE tree[n].kind = "unary"
    <3>1. Len(c(n)) = 1 /\ tree[n].operator \in UnaryOperators
          /\ type[n] = InferUnary(tree[n].operator, type[c(n)[1]])
      BY <2>1, <2>4 DEF GoodNode, TypedBy
    <3>2. type[c(n)[1]] \in Results
      BY <1>0, <1>1, <3>1
    <3>3. type[n] = type[c(n)[1]]
      BY <3>1, <3>2, UnaryRules
    <3> QED BY <2>4, <3>1, <3>3 DEF UnaryOperators
  <2>5. CASE tree[n].kind = "binary"
    <3>1. Len(c(n)) = 2 /\ tree[n].operator \in Operators
          /\ type[n] = InferBinary(tree[n].operator, type[c(n)[1]], type[c(n)[2]])
      BY <2>1, <2>5 DEF GoodNode, TypedBy
    <3>2. type[c(n)[1]] \in Results /\ type[c(n)[2]] \in Results
      BY <1>0, <1>1, <3>1
    <3> QED BY <2>5, <3>1, <3>2, BinaryRules
  <2> QED BY <2>1, <2>2, <2>3, <2>4, <2>5 DEF GoodNode
<1> HIDE DEF c
<1>3. ASSUME broken PROVE type[root] = "invalid"
  <2>1. PICK n \in 1 .. H : tree[n].operator = "|" /\
                              \E k \in {1, 2} : type[c(n)[k]] # "int"
    BY <1>3
  <2>2. n \in Invalid
    BY <1>2, <2>1
  <2>3. \A m \in 1 .. H : \A k \in 1 .. Len(c(m)) : c(m)[k] \in Invalid => m \in Invalid
    <3> TAKE m \in 1 .. H
    <3> TAKE k \in 1 .. Len(c(m))
    <3>1. Len(c(m)) = 1 => k = 1
      OBVIOUS
    <3>2. Len(c(m)) = 2 => k = 1 \/ k = 2
      OBVIOUS
    <3>3. Len(c(m)) # 0
      OBVIOUS
    <3> QED BY <1>2, <3>1, <3>2, <3>3
  <2> HIDE DEF Invalid
  <2>4. root \in Invalid
    <3>1. Invalid \in SUBSET (1 .. H)
      BY DEF Invalid
    <3> QED BY <2>2, <2>3, <3>1, ReachesRoot DEF c
  <2> QED BY <2>4 DEF Invalid
<1>4. ASSUME ~ broken PROVE Invalid = {}
  <2>1. \A n \in Invalid : \E k \in 1 .. Len(c(n)) : c(n)[k] \in Invalid
    <3> TAKE n \in Invalid
    <3>1. \/ Len(c(n)) = 1 /\ type[c(n)[1]] = "invalid"
          \/ Len(c(n)) = 2 /\ (type[c(n)[1]] = "invalid" \/ type[c(n)[2]] = "invalid")
      BY <1>2, <1>4 DEF Numbers
    <3>2. Len(c(n)) = 1 => 1 \in 1 .. Len(c(n))
      OBVIOUS
    <3>3. Len(c(n)) = 2 => 1 \in 1 .. Len(c(n)) /\ 2 \in 1 .. Len(c(n))
      OBVIOUS
    <3> QED BY <1>1, <3>1, <3>2, <3>3
  <2>2. Invalid \in SUBSET (1 .. H)
    OBVIOUS
  <2> HIDE DEF Invalid
  <2> QED BY <2>1, <2>2, NoBottom DEF c
<1>5. ASSUME integer, ~ broken PROVE type[root] = "int"
  <2>1. \A n \in Other : \E k \in 1 .. Len(c(n)) : c(n)[k] \in Other
    <3> TAKE n \in Other
    <3>1. \/ Len(c(n)) = 1 /\ type[c(n)[1]] # "int"
          \/ Len(c(n)) = 2 /\ (type[c(n)[1]] # "int" \/ type[c(n)[2]] # "int")
      BY <1>2, <1>5
    <3>2. Len(c(n)) = 1 => 1 \in 1 .. Len(c(n))
      OBVIOUS
    <3>3. Len(c(n)) = 2 => 1 \in 1 .. Len(c(n)) /\ 2 \in 1 .. Len(c(n))
      OBVIOUS
    <3> QED BY <1>1, <3>1, <3>2, <3>3
  <2>2. Other \in SUBSET (1 .. H)
    OBVIOUS
  <2>3. Other = {}
    <3> HIDE DEF Other
    <3> QED BY <2>1, <2>2, NoBottom DEF c
  <2> QED BY <2>3
<1>6. ASSUME ~ integer, ~ broken PROVE type[root] = "real"
  <2>1. PICK n \in 1 .. H : \/ tree[n].operator = "/"
                            \/ tree[n].kind = "value" /\ tree[n].type # "int"
    BY <1>6
  <2>2. n \in Other
    BY <1>2, <2>1
  <2>3. \A m \in 1 .. H : \A k \in 1 .. Len(c(m)) : c(m)[k] \in Other => m \in Other
    <3> TAKE m \in 1 .. H
    <3> TAKE k \in 1 .. Len(c(m))
    <3>1. Len(c(m)) = 1 => k = 1
      OBVIOUS
    <3>2. Len(c(m)) = 2 => k = 1 \/ k = 2
      OBVIOUS
    <3>3. Len(c(m)) # 0
      OBVIOUS
    <3> QED BY <1>2, <3>1, <3>2, <3>3
  <2>4. root \in Other
    <3> HIDE DEF Other
    <3>1. Other \in SUBSET (1 .. H)
      BY DEF Other
    <3> QED BY <2>2, <2>3, <3>1, ReachesRoot DEF c
  <2>5. type[root] # "int" /\ type[root] # "invalid"
    BY <1>4, <1>6, <2>4
  <2> QED BY <1>0, <2>5 DEF Results
<1>7. type[root] = IF broken THEN "invalid" ELSE IF integer THEN "int" ELSE "real"
  <2> HIDE DEF broken, integer
  <2> QED BY <1>3, <1>5, <1>6
<1> QED BY <1>7 DEF c
-----------------------------------------------------------------------------
\* compiler_typecheck_ast gives every node its type, and changes nothing else.
LEMMA TypesWritten ==
  ASSUME PInv, TreeInv, typecheck
  PROVE  \E type :
           /\ TypedBy(heap, type)
           /\ Len(heap') = Len(heap)
           /\ \A n \in 1 .. Len(heap) :
                heap'[n] = [heap[n] EXCEPT !.type = type[n]] /\ type[n] \in Results
<1>1. /\ phase = "typecheck" /\ phase' = "print typed"
      /\ heap' = [n \in 1 .. Len(heap) |->
                    IF n \in ToSet(Postorder(heap, ast))
                    THEN [heap[n] EXCEPT !.type = TypeOf(heap, n)] ELSE heap[n]]
  BY DEF typecheck
<1>2. ShapeInv /\ OwnersInv /\ Len(heap) \in Nat
  BY <1>1, HeapFacts DEF PInv
<1>3. Complete(heap) /\ Untyped(heap) /\ ast # Null /\ GoodNodes(heap)
  BY <1>1 DEF TreeInv, GoodNodes
<1>4. Ordered(heap) /\ WholeTree(heap)
  BY <1>2, <1>3, GoodTree
<1>5. Rooted(heap, ast) /\ SingleParents(heap)
  BY <1>1, <1>2, <1>3, TreeHangs
<1>6. ast \in 1 .. Len(heap)
  <2>1. ast \in 0 .. Len(heap)
    BY DEF TreeInv
  <2> QED BY <1>2, <1>3, <2>1 DEF Null
<1>7. ToSet(Postorder(heap, ast)) = 1 .. Len(heap)
  BY <1>3, <1>4, <1>5, <1>6, EachVisitedOnce
<1>8. heap' = [n \in 1 .. Len(heap) |-> [heap[n] EXCEPT !.type = TypeOf(heap, n)]]
  BY <1>1, <1>7
<1>9. PICK type : /\ TypedBy(heap, type)
                  /\ \A n \in 1 .. Len(heap) :
                       TypeOf(heap, n) = type[n] /\ type[n] \in Results
  BY <1>3, <1>4, RulesApplied
<1>10. \A n \in 1 .. Len(heap) : heap'[n] = [heap[n] EXCEPT !.type = type[n]]
  BY <1>8, <1>9
<1>11. Len(heap') = Len(heap)
  <2>1. DOMAIN heap' = 1 .. Len(heap)
    BY <1>8
  <2>2. IsSequence(heap')
    BY <1>1, TypecheckKept DEF PInv, ShapeInv
  <2>3. Len(heap') \in Nat /\ DOMAIN heap' = 1 .. Len(heap')
    BY <2>2 DEF IsSequence
  <2> QED BY <1>2, <2>1, <2>3
<1> QED BY <1>9, <1>10, <1>11

\* A node that is given a type remains what it was.
LEMMA TypeWritten ==
  ASSUME NEW n \in Nat, NEW node, GoodNode(node, n), NEW type \in Results,
         node.kind = "value" => type = node.type
  PROVE  /\ GoodNode([node EXCEPT !.type = type], n)
         /\ [node EXCEPT !.type = type].type = type
         /\ [node EXCEPT !.type = type].kind = node.kind
         /\ [node EXCEPT !.type = type].operator = node.operator
         /\ [node EXCEPT !.type = type].children = node.children
<1> DEFINE new == [node EXCEPT !.type = type]
<1>1. /\ new \in Nodes /\ new.type = type /\ new.kind = node.kind
      /\ new.operator = node.operator /\ new.children = node.children
  BY DEF GoodNode, Nodes, Results, Kinds
<1> HIDE DEF new
<1>2. GoodNode(new, n)
  BY <1>1 DEF GoodNode
<1> QED BY <1>1, <1>2 DEF new

\* typecheck changes the types of the nodes and nothing else.
LEMMA TypecheckKeepsTree == PInv /\ TreeInv /\ typecheck => TreeInv' /\ TypesExact'
<1> SUFFICES ASSUME PInv, TreeInv, typecheck PROVE TreeInv' /\ TypesExact'
  OBVIOUS
<1>1. /\ phase = "typecheck" /\ phase' = "print typed"
      /\ UNCHANGED <<compiler, scanned, reused, frames, ast, freed>>
  BY DEF typecheck
<1>2. PICK type :
           /\ TypedBy(heap, type)
           /\ Len(heap') = Len(heap)
           /\ \A n \in 1 .. Len(heap) :
                heap'[n] = [heap[n] EXCEPT !.type = type[n]] /\ type[n] \in Results
  BY TypesWritten
<1>3. /\ ShapeInv /\ OwnersInv /\ Len(heap) \in Nat
      /\ Complete(heap) /\ ast # Null /\ GoodNodes(heap)
  BY <1>1, HeapFacts DEF PInv, TreeInv, GoodNodes
<1>4. WholeTree(heap) /\ Rooted(heap, ast) /\ ast \in 1 .. Len(heap)
  <2>1. ast \in 0 .. Len(heap)
    BY DEF TreeInv
  <2>2. ast \in 1 .. Len(heap)
    BY <1>3, <2>1 DEF Null
  <2> QED BY <1>1, <1>3, <2>2, GoodTree, TreeHangs
<1>5. ASSUME NEW n \in 1 .. Len(heap)
      PROVE  /\ GoodNode(heap'[n], n) /\ heap'[n].type = type[n] /\ heap'[n].kind = heap[n].kind
             /\ heap'[n].operator = heap[n].operator /\ heap'[n].children = heap[n].children
  <2>1. heap'[n] = [heap[n] EXCEPT !.type = type[n]] /\ type[n] \in Results
    BY <1>2
  <2>2. GoodNode(heap[n], n) /\ n \in Nat
    BY <1>3 DEF GoodNodes
  <2>3. heap[n].kind = "value" => type[n] = heap[n].type
    BY <1>2 DEF TypedBy
  <2> QED BY <2>1, <2>2, <2>3, TypeWritten
<1>6. Complete(heap')
  BY <1>2, <1>3, <1>5 DEF Complete
<1>7. TreeInv'
  BY <1>1, <1>2, <1>3, <1>5, <1>6 DEF TreeInv, Phases
<1>8. TypesExact'
  <2> DEFINE broken  == \E n \in 1 .. Len(heap) : heap[n].operator = "|" /\
                           \E k \in {1, 2} : type[heap[n].children[k]] # "int"
             integer == \A n \in 1 .. Len(heap) :
                           /\ heap[n].operator # "/"
                           /\ heap[n].kind = "value" => heap[n].type = "int"
             nodes == {heap'[n] : n \in 1 .. Len(heap')}
             broken2 == \E n \in nodes : n.operator = "|" /\
                          \E k \in {1, 2} : heap'[n.children[k]].type # "int"
             integer2 == \A n \in nodes :
                           n.operator # "/" /\ (n.kind = "value" => n.type = "int")
  <2>1. type[ast] = IF broken THEN "invalid" ELSE IF integer THEN "int" ELSE "real"
    BY <1>2, <1>3, <1>4, RootType
  <2>2. heap'[ast'].type = type[ast]
    BY <1>1, <1>4, <1>5
  <2>3. \A n \in nodes : n.type # "unknown"
    <3>1. \A n \in 1 .. Len(heap) : heap'[n].type \in Results
      BY <1>2, <1>5
    <3>2. \A n \in 1 .. Len(heap) : heap'[n].type # "unknown"
      BY <3>1 DEF Results
    <3> QED BY <1>2, <3>2
  <2>4. broken2 <=> broken
    <3>1. ASSUME NEW n \in 1 .. Len(heap), heap[n].operator = "|", NEW k \in {1, 2}
          PROVE  heap'[heap[n].children[k]].type = type[heap[n].children[k]]
      <4>1. GoodNode(heap[n], n)
        BY <1>3 DEF GoodNodes
      <4>2. Len(heap[n].children) = 2
        BY <3>1, <4>1 DEF GoodNode, UnaryOperators
      <4>3. k \in 1 .. Len(heap[n].children)
        BY <4>2
      <4>4. heap[n].children[k] \in 0 .. n - 1 /\ heap[n].children[k] # 0
        BY <1>3, <1>4, <4>3, ChildrenOlder DEF WholeTree, Complete, Null
      <4>5. heap[n].children[k] \in 1 .. Len(heap)
        BY <1>3, <4>4
      <4> QED BY <1>5, <4>5
    <3>2. broken2 <=> \E n \in 1 .. Len(heap) : heap'[n].operator = "|" /\
                          \E k \in {1, 2} : heap'[heap'[n].children[k]].type # "int"
      BY <1>2
    <3>3. \A n \in 1 .. Len(heap) :
            (heap'[n].operator = "|" /\
               \E k \in {1, 2} : heap'[heap'[n].children[k]].type # "int")
            <=>
            (heap[n].operator = "|" /\
               \E k \in {1, 2} : type[heap[n].children[k]] # "int")
      BY <1>5, <3>1
    <3> QED BY <3>2, <3>3
  <2>5. integer2 <=> integer
    <3>1. integer2 <=> \A n \in 1 .. Len(heap) :
             heap'[n].operator # "/" /\ (heap'[n].kind = "value" => heap'[n].type = "int")
      BY <1>2
    <3>2. \A n \in 1 .. Len(heap) : heap[n].kind = "value" => heap'[n].type = heap[n].type
      BY <1>2, <1>5 DEF TypedBy
    <3> QED BY <1>5, <3>1, <3>2
  <2> HIDE DEF broken, integer, broken2, integer2
  <2>6. heap'[ast'].type = IF broken2 THEN "invalid" ELSE IF integer2 THEN "int" ELSE "real"
    BY <2>1, <2>2, <2>4, <2>5
  <2> QED BY <2>3, <2>6 DEF TypesExact, broken2, integer2
<1> QED BY <1>7, <1>8

\* The rest only reads the tree, or begins a new one.
LEMMA OthersKeepTree ==
  PInv /\ TreeInv /\ (compiler_generate_ast \/ consume_eof \/ print \/ free \/ compiler_init)
    => TreeInv'
<1>1. ASSUME PInv, TreeInv, compiler_generate_ast PROVE TreeInv'
  <2> DEFINE call == Precedence(PREC_ASSIGNMENT)
  <2>1. /\ Advance(<< >>, FALSE) /\ reused' = compiler.is_error
        /\ frames' = <<call>> /\ heap' = << >> /\ ast' = Null
        /\ freed' = << >> /\ phase' = "parsing"
    BY <1>1 DEF compiler_generate_ast
  <2>2. ShapeInv /\ reused' \in BOOLEAN
    BY <1>1, <2>1 DEF PInv, ShapeInv, Compilers
  <2>3. scanned' \in Seq(TokenTypes \cup {"EOF", "ERROR"})
    <3>1. << >> \in Seq(TokenTypes \cup {"EOF", "ERROR"})
      OBVIOUS
    <3> QED BY <2>1, <2>2, <3>1, AdvanceScans DEF Scans
  <2>4. GoodCall(call, 0)
    <3>1. /\ call \in Frames /\ call.first = 0 /\ call.value = -1
          /\ call.fn = "precedence" /\ call.min = PREC_ASSIGNMENT
      BY DEF Precedence, Call, Frames, Tokens, PREC_NONE, PREC_ASSIGNMENT, Pending, Null
    <3> HIDE DEF call
    <3> QED BY <3>1 DEF GoodCall, Pending, PREC_ASSIGNMENT
  <2> HIDE DEF call
  <2>5. Len(heap') = 0 /\ Len(frames') = 1 /\ frames'[1] = call
    BY <2>1
  <2>6. Untyped(heap') /\ Null = 0
    BY <2>5 DEF Untyped, Null
  <2>7. freed' \in Seq(0 .. Len(heap'))
    BY <2>1
  <2> QED BY <2>1, <2>2, <2>3, <2>4, <2>5, <2>6, <2>7 DEF TreeInv, Phases
<1>2. ASSUME PInv, TreeInv, consume_eof PROVE TreeInv'
  <2>1. /\ phase = "parsed" /\ Consume("EOF") /\ UNCHANGED <<reused, frames, heap, ast, freed>>
        /\ phase' = IF ast = Null THEN "done" ELSE "print untyped"
    BY <1>2 DEF consume_eof
  <2>2. scanned' \in Seq(TokenTypes \cup {"EOF", "ERROR"})
    BY <1>2, <2>1, ConsumeScans DEF Scans, PInv
  <2> QED BY <1>2, <2>1, <2>2 DEF TreeInv, Phases
<1>3. ASSUME PInv, TreeInv, print PROVE TreeInv'
  <2>1. /\ phase \in {"print untyped", "print typed"}
        /\ phase' = IF Null \in ToSet(Postorder(heap, ast)) THEN "crashed"
                    ELSE IF phase = "print untyped" THEN "typecheck" ELSE "free"
        /\ UNCHANGED <<compiler, scanned, reused, frames, heap, ast, freed>>
    BY <1>3 DEF print
  <2>2. CASE Null \in ToSet(Postorder(heap, ast))
    <3>1. phase' = "crashed"
      BY <2>1, <2>2
    <3> QED BY <1>3, <2>1, <3>1 DEF TreeInv, Phases
  <2>3. CASE Null \notin ToSet(Postorder(heap, ast))
    <3>1. ShapeInv /\ OwnersInv /\ Len(heap) \in Nat /\ ast # Null
      BY <1>3, <2>1, HeapFacts DEF PInv, TreeInv
    <3>2. Ordered(heap) /\ Rooted(heap, ast) /\ ast \in 1 .. Len(heap)
      <4>1. ast \in 0 .. Len(heap)
        BY <1>3 DEF TreeInv
      <4>2. ast \in 1 .. Len(heap)
        BY <3>1, <4>1 DEF Null
      <4>3. phase # "parsing"
        BY <2>1
      <4> QED BY <1>3, <3>1, <4>2, <4>3, GoodTree, TreeHangs
    <3>3. Complete(heap)
      BY <2>3, <3>2, NullVisited DEF Visited
    <3>4. \/ phase = "print untyped" /\ phase' = "typecheck"
          \/ phase = "print typed" /\ phase' = "free"
      BY <2>1, <2>3
    <3> QED BY <1>3, <2>1, <3>1, <3>3, <3>4 DEF TreeInv, Phases
  <2> QED BY <2>2, <2>3
<1>4. ASSUME PInv, TreeInv, free PROVE TreeInv'
  <2>1. /\ phase = "free" /\ phase' = "done" /\ freed' = Postorder(heap, ast)
        /\ UNCHANGED <<compiler, scanned, reused, frames, heap, ast>>
    BY <1>4 DEF free
  <2>2. Ordered(heap) /\ ast \in 0 .. Len(heap) /\ Len(heap) \in Nat
    BY <1>4, GoodTree, HeapFacts DEF PInv, TreeInv
  <2>3. freed' \in Seq(0 .. Len(heap))
    <3>1. Postorder(heap, ast) \in Seq(0 .. ast) /\ 0 .. ast \subseteq 0 .. Len(heap)
      BY <2>2, WalkTyped
    <3> QED BY <2>1, <3>1, SeqMonotonic
  <2> QED BY <1>4, <2>1, <2>3 DEF TreeInv, Phases
<1>5. ASSUME PInv, TreeInv, compiler_init PROVE TreeInv'
  BY <1>5 DEF compiler_init, TreeInv, Phases
<1> QED BY <1>1, <1>2, <1>3, <1>4, <1>5

\* Initially there is no tree.
LEMMA TreeInvHolds == ParserInit => TreeInv
<1> SUFFICES ASSUME ParserInit PROVE TreeInv
  OBVIOUS
<1>1. /\ phase = "ready" /\ frames = << >> /\ heap = << >> /\ ast = Null
      /\ scanned = << >> /\ reused = FALSE /\ freed = << >>
  BY DEF ParserInit
<1>2. Len(heap) = 0 /\ Len(frames) = 0 /\ Null = 0
  BY <1>1 DEF Null
<1>3. scanned \in Seq(TokenTypes \cup {"EOF", "ERROR"}) /\ freed \in Seq(0 .. Len(heap))
  BY <1>1
<1>4. ast \in 0 .. Len(heap)
  BY <1>1, <1>2
<1>5. Untyped(heap)
  BY <1>2 DEF Untyped
<1>6. /\ \A n \in 1 .. Len(heap) : GoodNode(heap[n], n)
      /\ \A i \in 1 .. Len(frames) : GoodCall(frames[i], Len(heap))
  BY <1>2
<1> QED BY <1>1, <1>3, <1>4, <1>5, <1>6 DEF TreeInv, Phases

\* Every step of the parser keeps the tree as TreeInv says.
LEMMA TreeInvKept == PInv /\ TreeInv /\ [ParserNext]_parserVars => TreeInv'
<1>1. ASSUME PInv, TreeInv, UNCHANGED parserVars PROVE TreeInv'
  BY <1>1 DEF parserVars, TreeInv
<1> QED BY <1>1, ReturnsKeepTree, NodesKeepTree, LiteralKeepsTree, CallsKeepTree,
           TypecheckKeepsTree, OthersKeepTree DEF ParserNext, ParserStep

\* The parser's variables have their types: no call, node or root holds
\* anything but a node that was made, NULL, or nothing yet.
THEOREM ParserTyped == ParserSpec => []ParserTypeOK
<1>1. PInv /\ TreeInv => ParserTypeOK
  <2> SUFFICES ASSUME PInv, TreeInv PROVE ParserTypeOK
    OBVIOUS
  <2>0. ShapeInv /\ Len(heap) \in Nat
    BY HeapFacts DEF PInv
  <2>1. \A n \in 1 .. Len(heap) :
          /\ heap[n].kind \in {"value", "unary", "binary", "grouping"}
          /\ heap[n].type \in Kinds
          /\ \A k \in 1 .. Len(heap[n].children) : heap[n].children[k] \in 0 .. n - 1
    <3> TAKE n \in 1 .. Len(heap)
    <3>1. GoodNode(heap[n], n)
      BY DEF TreeInv
    <3>2. \A k \in 1 .. Len(heap[n].children) : heap[n].children[k] \in 0 .. n - 1
      BY <2>0, GoodTree, ChildrenOlder
    <3> QED BY <3>1, <3>2 DEF GoodNode, Nodes
  <2>2. \A i \in 1 .. Len(frames) : {frames[i].first, frames[i].value}
                                    \subseteq Pointers \cup {Pending}
    <3> TAKE i \in 1 .. Len(frames)
    <3>1. frames[i].first \in 0 .. Len(heap) /\ frames[i].value \in Pending .. Len(heap)
      BY DEF TreeInv, GoodCall
    <3>2. \A x \in Pending .. Len(heap) : x \in 0 .. Len(heap) \/ x = Pending
      BY <2>0 DEF Pending
    <3> QED BY <3>1, <3>2 DEF Pointers
  <2>3. compiler \in [current  : TokenTypes \cup {"EOF", "none"},
                      previous : TokenTypes \cup {"EOF", "none"},
                      is_panic : BOOLEAN, is_error : BOOLEAN]
    BY <2>0 DEF ShapeInv, Compilers, Tokens
  <2> QED BY <2>1, <2>2, <2>3 DEF ParserTypeOK, TreeInv, Phases, Pointers
<1> QED BY <1>1, InvariantHolds, InvariantKept, TreeInvHolds, TreeInvKept, PTL DEF ParserSpec
-----------------------------------------------------------------------------
\* No step but the last two of a compilation matters for FreedOnce, and those
\* free what there is.
LEMMA FreedKept ==
  ASSUME PInv, TreeInv, FreedOnce, [ParserNext]_parserVars
  PROVE  FreedOnce'
<1> SUFFICES ASSUME phase' = "done" PROVE Len(freed') = Len(heap') /\ ToSet(freed') = 1 .. Len(heap')
  BY DEF FreedOnce
<1>0. ShapeInv /\ Len(heap) \in Nat
  BY HeapFacts DEF PInv
<1>1. CASE UNCHANGED parserVars
  BY <1>1 DEF parserVars, FreedOnce
<1>2. CASE consume_eof
  <2>1. /\ phase = "parsed" /\ ast = Null /\ UNCHANGED <<heap, freed>>
    BY <1>2 DEF consume_eof
  <2>2. OwnersInv /\ freed = << >>
    BY <2>1 DEF PInv, TreeInv
  <2>3. Len(heap) = 0
    BY <1>0, <2>1, <2>2, TreeHangs
  <2>4. Len(freed) = 0 /\ ToSet(freed) = {}
    BY <2>2 DEF ToSet
  <2> QED BY <2>1, <2>3, <2>4
<1>3. CASE free
  <2>1. /\ phase = "free" /\ freed' = Postorder(heap, ast) /\ UNCHANGED heap
    BY <1>3 DEF free
  <2>2. OwnersInv /\ ast # Null /\ Complete(heap) /\ ast \in 0 .. Len(heap)
    BY <2>1 DEF PInv, TreeInv
  <2>3. ast \in 1 .. Len(heap)
    BY <1>0, <2>2 DEF Null
  <2>4. Ordered(heap) /\ Rooted(heap, ast) /\ SingleParents(heap)
    BY <1>0, <2>1, <2>2, GoodTree, TreeHangs
  <2> QED BY <2>1, <2>2, <2>3, <2>4, EachVisitedOnce
<1>4. CASE compiler_generate_ast
  BY <1>4 DEF compiler_generate_ast
<1>5. CASE compiler_init
  BY <1>5 DEF compiler_init
<1>6. CASE typecheck
  BY <1>6 DEF typecheck
<1>7. CASE print
  BY <1>7 DEF print
<1>8. CASE parse_literal \/ call_prefix \/ call_infix
  BY <1>8 DEF parse_literal, call_prefix, call_infix, AtPrefix, AtInfix
<1>9. CASE no_prefix \/ leave_precedence \/ parse_grouping \/ parse_unary \/ parse_binary
  <2>1. /\ phase = "parsing" /\ \E node : Return(node)
    BY <1>9 DEF no_prefix, leave_precedence, parse_grouping, parse_unary, parse_binary,
                AtPrefix, AtInfix, Returned
  <2> QED BY <2>1 DEF Return
<1> QED BY <1>1, <1>2, <1>3, <1>4, <1>5, <1>6, <1>7, <1>8, <1>9
        DEF ParserNext, ParserStep

(***************************************************************************)
(* When a source is done with, its nodes have been freed, each once; until *)
(* then none has.                                                          *)
(***************************************************************************)
THEOREM EveryNodeIsFreedOnce == ParserSpec => []FreedOnce
<1>1. ParserInit => FreedOnce
  BY DEF ParserInit, FreedOnce
<1>2. PInv /\ TreeInv /\ FreedOnce /\ [ParserNext]_parserVars => FreedOnce'
  BY FreedKept
<1> QED BY <1>1, <1>2, InvariantHolds, InvariantKept, TreeInvHolds, TreeInvKept, PTL DEF ParserSpec

\* TypesExact, said of any tree.
Inferred(tree, root) ==
  LET nodes   == {tree[n] : n \in 1 .. Len(tree)}
      type    == tree[root].type
      broken  == \E n \in nodes : n.operator = "|" /\
                   \E k \in {1, 2} : tree[n.children[k]].type # "int"
      integer == \A n \in nodes :
                   n.operator # "/" /\ (n.kind = "value" => n.type = "int")
  IN  /\ \A n \in nodes : n.type # "unknown"
      /\ type = IF broken THEN "invalid" ELSE IF integer THEN "int" ELSE "real"

\* Only typecheck comes to where TypesExact speaks.
LEMMA TypesExactKept ==
  ASSUME PInv, TreeInv, TypesExact, [ParserNext]_parserVars
  PROVE  TypesExact'
<1>1. CASE UNCHANGED parserVars
  <2>1. phase' = phase /\ heap' = heap /\ ast' = ast
    BY <1>1 DEF parserVars
  <2>2. TypesExact <=> (phase = "print typed" => Inferred(heap, ast))
    BY DEF TypesExact, Inferred
  <2>3. TypesExact' <=> (phase' = "print typed" => Inferred(heap', ast'))
    BY DEF TypesExact, Inferred
  <2>4. Inferred(heap', ast') <=> Inferred(heap, ast)
    BY <2>1
  <2> QED BY <2>1, <2>2, <2>3, <2>4
<1>2. CASE typecheck
  BY <1>2, TypecheckKeepsTree
<1>3. CASE ~ UNCHANGED parserVars /\ ~ typecheck
  <2>1. phase' # "print typed"
    <3>1. CASE compiler_generate_ast \/ compiler_init \/ consume_eof \/ print \/ free
      BY <3>1 DEF compiler_generate_ast, compiler_init, consume_eof, print, free
    <3>2. CASE parse_literal \/ call_prefix \/ call_infix
      BY <3>2 DEF parse_literal, call_prefix, call_infix, AtPrefix, AtInfix
    <3>3. CASE no_prefix \/ leave_precedence \/ parse_grouping \/ parse_unary \/ parse_binary
      <4>1. /\ phase = "parsing" /\ \E node : Return(node)
        BY <3>3 DEF no_prefix, leave_precedence, parse_grouping, parse_unary, parse_binary,
                    AtPrefix, AtInfix, Returned
      <4> QED BY <4>1 DEF Return
    <3> QED BY <1>3, <3>1, <3>2, <3>3 DEF ParserNext, ParserStep
  <2> QED BY <2>1 DEF TypesExact
<1> QED BY <1>1, <1>2, <1>3

\* Type inference is exact whatever the expression: the type of the root says
\* what the source is made of.
THEOREM InferenceIsExact == ParserSpec => []TypesExact
<1>1. ParserInit => TypesExact
  BY DEF ParserInit, TypesExact
<1>2. PInv /\ TreeInv /\ TypesExact /\ [ParserNext]_parserVars => TypesExact'
  BY TypesExactKept
<1> QED BY <1>1, <1>2, InvariantHolds, InvariantKept, TreeInvHolds, TreeInvKept, PTL DEF ParserSpec
-----------------------------------------------------------------------------
\* A call that has not lost an operand.
FullCall(call) ==
  call.value # Null /\ (call.fn = "binary" => call.first # Null)

(***************************************************************************)
(* While a source is being compiled and no error was reported, no operand  *)
(* is missing, in no call and in no node; what crashes a compilation is    *)
(* explained.                                                              *)
(***************************************************************************)
Spotless ==
  /\ Complete(heap)
  /\ \A i \in 1 .. Len(frames) : FullCall(frames[i])
  /\ phase = "parsed" => ast # Null

ErrorsInv ==
  /\ compiler.is_panic => compiler.is_error
  /\ phase \in {"parsing", "parsed", "print untyped", "typecheck", "print typed"}
       /\ ~ compiler.is_error => Spotless
  /\ CrashExplained

\* A node that is handed back fills what the caller waits for.
LEMMA FullReturn ==
  ASSUME ShapeInv, OwnersInv, phase = "parsing", NEW node \in Int, Return(node), node # Null,
         \A i \in 1 .. Len(frames) : FullCall(frames[i])
  PROVE  /\ \A i \in 1 .. Len(frames') : FullCall(frames'[i])
         /\ phase' = "parsing" \/ (phase' = "parsed" /\ ast' # Null)
<1>1. /\ \A i \in 1 .. Len(frames') : \E j \in 1 .. Len(frames) :
           frames'[i] = frames[j] \/ frames'[i] = [frames[j] EXCEPT !.value = node]
      /\ \/ ast' = node /\ phase' = "parsed"
         \/ UNCHANGED <<ast, phase>>
  BY ReturnShape
<1>2. ASSUME NEW j \in 1 .. Len(frames) PROVE FullCall([frames[j] EXCEPT !.value = node])
  <2>1. frames[j] \in Frames
    BY ElementOfSeq DEF ShapeInv
  <2>2. /\ [frames[j] EXCEPT !.value = node].value = node
        /\ [frames[j] EXCEPT !.value = node].fn = frames[j].fn
        /\ [frames[j] EXCEPT !.value = node].first = frames[j].first
    BY <2>1 DEF Frames
  <2> QED BY <2>2 DEF FullCall
<1>3. \A i \in 1 .. Len(frames') : FullCall(frames'[i])
  BY <1>1, <1>2
<1> QED BY <1>1, <1>3

\* A new node with its children completes the heap.
LEMMA CompleteGrows ==
  ASSUME ShapeInv, TreeInv, Complete(heap), NEW node, GoodNode(node, Len(heap) + 1),
         Allocate(node), \A k \in 1 .. Len(node.children) : node.children[k] # Null
  PROVE  Complete(heap')
<1>1. /\ Len(heap') = Len(heap) + 1 /\ Len(heap) \in Nat
      /\ \A n \in 1 .. Len(heap) : heap'[n] = heap[n]
      /\ heap'[Len(heap) + 1] = node
  BY NodeAdded
<1>2. \A n \in 1 .. Len(heap) + 1 : n = Len(heap) + 1 \/ n \in 1 .. Len(heap)
  BY <1>1
<1> QED BY <1>1, <1>2 DEF Complete

\* A step that does not end the parsing of an expression without an error.
LEMMA StillSpotless ==
  ASSUME ErrorsInv, phase = "parsing", phase' \in {"parsing", "parsed"},
         \/ \E reports \in BOOLEAN : Scans(reports)
         \/ UNCHANGED compiler,
         Spotless /\ ~ compiler'.is_error => Spotless'
  PROVE  ErrorsInv'
<1>1. /\ compiler.is_error => compiler'.is_error
      /\ compiler'.is_panic => compiler'.is_error
  BY DEF Scans, ErrorsInv
<1>2. ~ compiler'.is_error => Spotless'
  BY <1>1 DEF ErrorsInv
<1> QED BY <1>1, <1>2 DEF ErrorsInv, CrashExplained

\* A return hands back a value, unless an error was reported.
LEMMA ReturnsKeepErrors ==
  PInv /\ TreeInv /\ ErrorsInv /\ (no_prefix \/ leave_precedence) => ErrorsInv'
<1>1. ASSUME PInv, TreeInv, ErrorsInv, no_prefix PROVE ErrorsInv'
  <2>1. /\ phase = "parsing" /\ Advance(scanned, TRUE) /\ Return(Null)
    BY <1>1 DEF no_prefix, AtPrefix
  <2>2. Scans(TRUE)
    BY <1>1, <2>1, Acting, AdvanceScans
  <2>3. compiler'.is_error
    BY <1>1, <2>2 DEF Scans, ErrorsInv
  <2>4. phase' \in {"parsing", "parsed"}
    BY <2>1 DEF Return
  <2> QED BY <1>1, <2>1, <2>2, <2>3, <2>4, StillSpotless
<1>2. ASSUME PInv, TreeInv, ErrorsInv, leave_precedence PROVE ErrorsInv'
  <2>1. /\ phase = "parsing" /\ Top.value # Pending /\ Return(Top.value)
        /\ UNCHANGED <<compiler, heap>>
    BY <1>2 DEF leave_precedence, AtInfix
  <2>2. /\ ShapeInv /\ OwnersInv /\ Top = frames[Len(frames)]
        /\ Len(frames) \in 1 .. Len(frames) /\ Top.value \in Int
    BY <1>2, <2>1, Acting DEF GoodCall, Frames
  <2>3. ASSUME Spotless PROVE Spotless'
    <3>1. Top.value # Null
      BY <2>2, <2>3 DEF Spotless, FullCall
    <3>2. /\ \A i \in 1 .. Len(frames') : FullCall(frames'[i])
          /\ phase' = "parsing" \/ (phase' = "parsed" /\ ast' # Null)
      BY <2>1, <2>2, <2>3, <3>1, FullReturn DEF Spotless
    <3> QED BY <2>1, <2>3, <3>2 DEF Spotless
  <2>4. phase' \in {"parsing", "parsed"}
    BY <2>1 DEF Return
  <2> QED BY <1>2, <2>1, <2>3, <2>4, StillSpotless
<1> QED BY <1>1, <1>2

\* A new node has all its children, unless an error was reported.
LEMMA NodesKeepErrors ==
  PInv /\ TreeInv /\ ErrorsInv /\ (parse_grouping \/ parse_unary \/ parse_binary)
    => ErrorsInv'
<1>0. ASSUME PInv, TreeInv, phase = "parsing", Top.value # Pending
      PROVE  /\ Top.value \in 0 .. Len(heap) /\ Top.first \in 0 .. Len(heap)
             /\ Len(heap) \in Nat /\ Top.operator \in Tokens /\ "none" \in Tokens
             /\ Top.fn = "unary" => Top.operator \in UnaryOperators
             /\ Top.fn = "binary" => Top.operator \in Operators
  <2>1. GoodCall(Top, Len(heap)) /\ Len(heap) \in Nat
    BY <1>0, Acting
  <2> QED BY <1>0, <2>1 DEF GoodCall, Frames, Pending, Tokens
<1>1. ASSUME PInv, TreeInv, ErrorsInv, phase = "parsing", Top.value # Pending,
             NEW children,
             \/ children = <<Top.value>>
             \/ children = <<Top.first, Top.value>> /\ Top.fn = "binary",
             NEW node, GoodNode(node, Len(heap) + 1), node.children = children,
             Allocate(node), Return(New),
             \/ \E reports \in BOOLEAN : Scans(reports)
             \/ UNCHANGED compiler
      PROVE  ErrorsInv'
  <2>1. /\ ShapeInv /\ OwnersInv /\ Top = frames[Len(frames)] /\ Len(heap) \in Nat
        /\ Len(frames) \in 1 .. Len(frames)
    BY <1>1, Acting
  <2>2. New \in Int /\ New # Null
    BY <2>1 DEF New, Null
  <2>3. ASSUME Spotless PROVE Spotless'
    <3>1. Top.value # Null /\ (Top.fn = "binary" => Top.first # Null)
      BY <2>1, <2>3 DEF Spotless, FullCall
    <3>2. \A k \in 1 .. Len(children) : children[k] # Null
      <4>1. CASE children = <<Top.value>>
        BY <3>1, <4>1
      <4>2. CASE children = <<Top.first, Top.value>> /\ Top.fn = "binary"
        <5>1. \A k \in 1 .. Len(children) : k = 1 \/ k = 2
          BY <4>2
        <5> QED BY <3>1, <4>2, <5>1
      <4> QED BY <1>1, <4>1, <4>2
    <3>3. Complete(heap')
      BY <1>1, <2>1, <2>3, <3>2, CompleteGrows DEF Spotless
    <3>4. /\ \A i \in 1 .. Len(frames') : FullCall(frames'[i])
          /\ phase' = "parsing" \/ (phase' = "parsed" /\ ast' # Null)
      BY <1>1, <2>1, <2>2, <2>3, FullReturn DEF Spotless
    <3> QED BY <3>3, <3>4 DEF Spotless
  <2>4. phase' \in {"parsing", "parsed"}
    BY <1>1 DEF Return
  <2> QED BY <1>1, <2>3, <2>4, StillSpotless
<1>2. ASSUME PInv, TreeInv, ErrorsInv, parse_grouping PROVE ErrorsInv'
  <2> DEFINE node == Node("grouping", "none", <<Top.value>>, "unknown", 0)
  <2>1. /\ phase = "parsing" /\ Top.value # Pending /\ Consume(")")
        /\ Allocate(node) /\ Return(New)
    BY <1>2 DEF parse_grouping, Returned
  <2>2. GoodNode(node, Len(heap) + 1)
    BY <1>0, <1>2, <2>1, MadeGood
  <2>3. Scans(FALSE)
    BY <1>2, <2>1, Acting, ConsumeScans
  <2>4. node.children = <<Top.value>>
    BY DEF Node
  <2> HIDE DEF node
  <2> QED BY <1>1, <1>2, <2>1, <2>2, <2>3, <2>4
<1>3. ASSUME PInv, TreeInv, ErrorsInv, parse_unary PROVE ErrorsInv'
  <2> DEFINE node == Node("unary", Top.operator, <<Top.value>>, "unknown", 0)
  <2>1. /\ phase = "parsing" /\ Top.value # Pending /\ Top.fn = "unary"
        /\ Allocate(node) /\ Return(New) /\ UNCHANGED compiler
    BY <1>3 DEF parse_unary, Returned
  <2>2. GoodNode(node, Len(heap) + 1)
    BY <1>0, <1>3, <2>1, MadeGood
  <2>4. node.children = <<Top.value>>
    BY DEF Node
  <2> HIDE DEF node
  <2> QED BY <1>1, <1>3, <2>1, <2>2, <2>4
<1>4. ASSUME PInv, TreeInv, ErrorsInv, parse_binary PROVE ErrorsInv'
  <2> DEFINE node == Node("binary", Top.operator, <<Top.first, Top.value>>, "unknown", 0)
  <2>1. /\ phase = "parsing" /\ Top.value # Pending /\ Top.fn = "binary"
        /\ Allocate(node) /\ Return(New) /\ UNCHANGED compiler
    BY <1>4 DEF parse_binary, Returned
  <2>2. GoodNode(node, Len(heap) + 1)
    BY <1>0, <1>4, <2>1, MadeGood
  <2>4. node.children = <<Top.first, Top.value>>
    BY DEF Node
  <2> HIDE DEF node
  <2> QED BY <1>1, <1>4, <2>1, <2>2, <2>4
<1> QED BY <1>2, <1>3, <1>4

\* A literal needs no child.
LEMMA LiteralKeepsErrors == PInv /\ TreeInv /\ ErrorsInv /\ parse_literal => ErrorsInv'
<1> SUFFICES ASSUME PInv, TreeInv, ErrorsInv, parse_literal PROVE ErrorsInv'
  OBVIOUS
<1> DEFINE L == Len(frames)
           node == Node("value", "none", << >>, compiler.current, Len(scanned))
           new == [frames[L] EXCEPT !.value = New]
<1>1. /\ phase = "parsing" /\ Advance(scanned, FALSE) /\ Allocate(node)
      /\ frames' = [frames EXCEPT ![L] = new]
      /\ UNCHANGED <<phase, reused, ast, freed>>
      /\ Prefix(compiler.current) = "literal"
  BY DEF parse_literal, AtPrefix
<1>2. /\ ShapeInv /\ Len(heap) \in Nat /\ L \in 1 .. L /\ frames \in Seq(Frames)
      /\ scanned \in Seq(TokenTypes \cup {"EOF", "ERROR"}) /\ frames[L] \in Frames
  BY <1>1, Acting DEF ShapeInv, GoodCall
<1>3. Scans(FALSE)
  BY <1>1, <1>2, AdvanceScans
<1>4. GoodNode(node, Len(heap) + 1) /\ node.children = << >>
  BY <1>1, <1>2, LiteralGood DEF Node
<1> HIDE DEF node
<1>5. /\ new \in Frames /\ new.fn = frames[L].fn /\ new.first = frames[L].first
      /\ new.value = New /\ New # Null
  <2>1. New \in Int /\ New # Null
    BY <1>2 DEF New, Null
  <2> QED BY <1>2, <2>1 DEF Frames
<1> HIDE DEF new
<1>6. Len(frames') = L /\ \A i \in 1 .. L : frames'[i] = IF i = L THEN new ELSE frames[i]
  BY <1>1, <1>2, <1>5, ExceptSeq
<1>7. ASSUME Spotless PROVE Spotless'
  <2>1. \A i \in 1 .. L : FullCall(frames[i])
    BY <1>7 DEF Spotless
  <2>2. FullCall(new)
    BY <1>2, <1>5, <2>1 DEF FullCall
  <2>3. Complete(heap')
    <3>1. \A k \in 1 .. Len(node.children) : node.children[k] # Null
      BY <1>4
    <3> QED BY <1>1, <1>2, <1>4, <1>7, <3>1, CompleteGrows DEF Spotless
  <2> QED BY <1>1, <1>6, <2>1, <2>2, <2>3 DEF Spotless
<1> QED BY <1>1, <1>3, <1>7, StillSpotless

\* A NULL function is explained when it is called.
LEMMA CallsKeepErrors ==
  PInv /\ TreeInv /\ ErrorsInv /\ (call_prefix \/ call_infix) => ErrorsInv'
<1>1. ASSUME NEW base \in Seq(Frames), NEW a \in Frames, NEW b \in Frames,
             \A i \in 1 .. Len(base) : FullCall(base[i]), FullCall(a), FullCall(b),
             frames' = base \o <<a, b>>
      PROVE  \A i \in 1 .. Len(frames') : FullCall(frames'[i])
  <2>1. \A i \in 1 .. Len(frames') :
          \/ \E j \in 1 .. Len(base) : frames'[i] = base[j]
          \/ frames'[i] = a
          \/ frames'[i] = b
    BY <1>1, TwoAdded
  <2> QED BY <1>1, <2>1
<1>2. ASSUME NEW operator, NEW fn, NEW first, NEW min \in Nat, operator \in Tokens,
             fn \in {"grouping", "unary"} \/ (fn = "binary" /\ first # Null),
             first \in Int
      PROVE  /\ Call(fn, operator, first) \in Frames /\ FullCall(Call(fn, operator, first))
             /\ Precedence(min) \in Frames /\ FullCall(Precedence(min))
  BY <1>2 DEF Call, Precedence, Frames, FullCall, Tokens, PREC_NONE, Pending, Null
<1>3. ASSUME PInv, TreeInv, ErrorsInv, call_prefix PROVE ErrorsInv'
  <2> DEFINE fn == Prefix(compiler.current)
             min == IF fn = "unary" THEN PREC_UNARY ELSE PREC_ASSIGNMENT
             a == Call(fn, compiler.current, Null)
             b == Precedence(min)
  <2>1. /\ phase = "parsing" /\ Advance(scanned, FALSE)
        /\ fn \in {"grouping", "unary"} /\ UNCHANGED <<phase, heap, ast>>
        /\ frames' = frames \o <<a, b>>
    BY <1>3 DEF call_prefix, AtPrefix
  <2>2. /\ ShapeInv /\ frames \in Seq(Frames) /\ compiler.current \in Tokens
        /\ scanned \in Seq(TokenTypes \cup {"EOF", "ERROR"})
    BY <1>3, <2>1, Acting DEF ShapeInv
  <2>3. Scans(FALSE)
    BY <2>1, <2>2, AdvanceScans
  <2>4. a \in Frames /\ b \in Frames /\ FullCall(a) /\ FullCall(b)
    <3>1. min \in Nat /\ Null \in Int
      BY DEF PREC_UNARY, PREC_ASSIGNMENT, Null
    <3> QED BY <1>2, <2>1, <2>2, <3>1
  <2> HIDE DEF a, b
  <2>5. ASSUME Spotless PROVE Spotless'
    <3>1. \A i \in 1 .. Len(frames') : FullCall(frames'[i])
      BY <1>1, <2>1, <2>2, <2>4, <2>5 DEF Spotless
    <3> QED BY <2>1, <2>5, <3>1 DEF Spotless
  <2> QED BY <1>3, <2>1, <2>3, <2>5, StillSpotless
<1>4. ASSUME PInv, TreeInv, ErrorsInv, call_infix PROVE ErrorsInv'
  <2>1. /\ phase = "parsing" /\ Advance(scanned, FALSE)
        /\ Top.fn = "precedence" /\ Top.value # Pending
        /\ Top.min <= PrecedenceOf(compiler.current) /\ UNCHANGED <<heap, ast>>
    BY <1>4 DEF call_infix, AtInfix
  <2>2. /\ ShapeInv /\ frames \in Seq(Frames) /\ compiler.current \in Tokens
        /\ scanned \in Seq(TokenTypes \cup {"EOF", "ERROR"})
        /\ GoodCall(Top, Len(heap)) /\ Top = frames[Len(frames)]
        /\ Len(frames) \in 1 .. Len(frames) /\ Top \in Frames
    BY <1>4, <2>1, Acting DEF ShapeInv, GoodCall
  <2>3. Scans(FALSE) /\ compiler'.previous = compiler.current
    BY <2>1, <2>2, AdvanceScans
  <2>4. CASE Infix(compiler.current) = "none"
    <3>1. phase' = "crashed"
      BY <1>4, <2>4 DEF call_infix
    <3>2. PrecedenceOf(compiler.current) >= PREC_ASSIGNMENT
      <4>1. Top.min >= PREC_ASSIGNMENT /\ Top.min \in Nat
        BY <2>1, <2>2 DEF GoodCall, Frames
      <4>2. PrecedenceOf(compiler.current) \in Nat
        BY TableEntries
      <4> QED BY <2>1, <4>1, <4>2 DEF PREC_ASSIGNMENT
    <3>3. compiler'.previous \in {"+=", "-=", "->"}
      BY <2>3, <2>4, <3>2, TableEntries
    <3>4. compiler'.is_panic => compiler'.is_error
      BY <1>4, <2>3 DEF Scans, ErrorsInv
    <3> QED BY <3>1, <3>3, <3>4 DEF ErrorsInv, CrashExplained
  <2>5. CASE Infix(compiler.current) # "none"
    <3> DEFINE L == Len(frames)
               hollow == [frames[L] EXCEPT !.value = Pending]
               base == [frames EXCEPT ![L] = hollow]
               a == Call("binary", compiler.current, Top.value)
               b == Precedence(PrecedenceOf(compiler.current) + 1)
    <3>1. frames' = base \o <<a, b>> /\ UNCHANGED phase
      BY <1>4, <2>5 DEF call_infix
    <3>2. /\ hollow \in Frames /\ hollow.value = Pending
          /\ hollow.fn = frames[L].fn /\ hollow.first = frames[L].first
      BY <2>2 DEF Frames, Pending
    <3> HIDE DEF hollow
    <3>3. /\ base \in Seq(Frames) /\ Len(base) = L
          /\ \A i \in 1 .. L : base[i] = IF i = L THEN hollow ELSE frames[i]
      BY <2>2, <3>2, ExceptSeq
    <3> HIDE DEF base
    <3>4. ASSUME Spotless PROVE Spotless'
      <4>1. \A i \in 1 .. L : FullCall(frames[i])
        BY <3>4 DEF Spotless
      <4>2. FullCall(hollow)
        BY <2>2, <3>2, <4>1 DEF FullCall, Pending, Null
      <4>3. \A i \in 1 .. Len(base) : FullCall(base[i])
        BY <3>3, <4>1, <4>2
      <4>4. Top.value # Null /\ Top.value \in Int
        BY <2>2, <4>1 DEF FullCall, Frames
      <4>5. PrecedenceOf(compiler.current) + 1 \in Nat
        BY TableEntries
      <4>6. a \in Frames /\ b \in Frames /\ FullCall(a) /\ FullCall(b)
        BY <1>2, <2>2, <4>4, <4>5
      <4> HIDE DEF a, b
      <4>7. \A i \in 1 .. Len(frames') : FullCall(frames'[i])
        BY <1>1, <3>1, <3>3, <4>3, <4>6
      <4> QED BY <2>1, <3>1, <3>4, <4>7 DEF Spotless
    <3> QED BY <1>4, <2>1, <2>3, <3>1, <3>4, StillSpotless
  <2> QED BY <2>4, <2>5
<1> QED BY <1>3, <1>4

\* The steps around the parse: a NULL child is explained.
LEMMA OthersKeepErrors ==
  PInv /\ TreeInv /\ ErrorsInv
  /\ (compiler_generate_ast \/ consume_eof \/ print \/ typecheck \/ free \/ compiler_init)
    => ErrorsInv'
<1>1. ASSUME PInv, TreeInv, ErrorsInv, compiler_generate_ast PROVE ErrorsInv'
  <2> DEFINE call == Precedence(PREC_ASSIGNMENT)
  <2>1. /\ Advance(<< >>, FALSE) /\ frames' = <<call>> /\ heap' = << >> /\ phase' = "parsing"
    BY <1>1 DEF compiler_generate_ast
  <2>2. Scans(FALSE)
    <3>1. << >> \in Seq(TokenTypes \cup {"EOF", "ERROR"})
      OBVIOUS
    <3> QED BY <1>1, <2>1, <3>1, AdvanceScans DEF PInv
  <2>3. FullCall(call)
    BY DEF FullCall, Precedence, Call, Pending, Null
  <2> HIDE DEF call
  <2>4. Len(frames') = 1 /\ frames'[1] = call /\ Len(heap') = 0
    BY <2>1
  <2>5. Spotless'
    BY <2>1, <2>3, <2>4 DEF Spotless, Complete
  <2>6. compiler'.is_panic => compiler'.is_error
    BY <1>1, <2>2 DEF Scans, ErrorsInv
  <2> QED BY <2>1, <2>5, <2>6 DEF ErrorsInv, CrashExplained
<1>2. ASSUME PInv, TreeInv, ErrorsInv, consume_eof PROVE ErrorsInv'
  <2>1. /\ phase = "parsed" /\ Consume("EOF") /\ UNCHANGED <<frames, heap, ast>>
        /\ phase' \in {"done", "print untyped"}
    BY <1>2 DEF consume_eof
  <2>2. Scans(FALSE)
    BY <1>2, <2>1, ConsumeScans DEF PInv
  <2>3. /\ compiler'.is_panic => compiler'.is_error
        /\ compiler.is_error => compiler'.is_error
    BY <1>2, <2>2 DEF Scans, ErrorsInv
  <2>4. Spotless => Spotless'
    BY <2>1 DEF Spotless
  <2> QED BY <1>2, <2>1, <2>3, <2>4 DEF ErrorsInv, CrashExplained
<1>3. ASSUME PInv, TreeInv, ErrorsInv, print PROVE ErrorsInv'
  <2>1. /\ phase \in {"print untyped", "print typed"}
        /\ phase' = IF Null \in ToSet(Postorder(heap, ast)) THEN "crashed"
                    ELSE IF phase = "print untyped" THEN "typecheck" ELSE "free"
        /\ UNCHANGED <<compiler, scanned, reused, frames, heap, ast, freed>>
    BY <1>3 DEF print
  <2>2. CASE Null \in ToSet(Postorder(heap, ast))
    <3>1. ~ Complete(heap)
      <4>1. ShapeInv /\ OwnersInv /\ Len(heap) \in Nat /\ ast # Null
        BY <1>3, <2>1, HeapFacts DEF PInv, TreeInv
      <4>2. Ordered(heap) /\ Rooted(heap, ast) /\ ast \in 1 .. Len(heap)
        <5>1. ast \in 0 .. Len(heap)
          BY <1>3 DEF TreeInv
        <5>2. ast \in 1 .. Len(heap)
          BY <4>1, <5>1 DEF Null
        <5>3. phase # "parsing"
          BY <2>1
        <5> QED BY <1>3, <4>1, <5>2, <5>3, GoodTree, TreeHangs
      <4> QED BY <2>2, <4>2, NullVisited DEF Visited
    <3>2. compiler.is_error
      BY <1>3, <2>1, <3>1 DEF ErrorsInv, Spotless
    <3>3. phase' = "crashed" /\ compiler' = compiler
      BY <2>1, <2>2
    <3> QED BY <1>3, <3>2, <3>3 DEF ErrorsInv, CrashExplained
  <2>3. CASE Null \notin ToSet(Postorder(heap, ast))
    <3>1. phase' \in {"typecheck", "free"} /\ UNCHANGED <<compiler, frames, heap, ast>>
      BY <2>1, <2>3
    <3>2. Spotless => Spotless'
      BY <3>1 DEF Spotless
    <3> QED BY <1>3, <2>1, <3>1, <3>2 DEF ErrorsInv, CrashExplained
  <2> QED BY <2>2, <2>3
<1>4. ASSUME PInv, TreeInv, ErrorsInv, typecheck PROVE ErrorsInv'
  <2>1. phase = "typecheck" /\ phase' = "print typed" /\ UNCHANGED <<compiler, frames>>
    BY <1>4 DEF typecheck
  <2>2. PICK type :
             /\ Len(heap') = Len(heap)
             /\ \A n \in 1 .. Len(heap) : heap'[n] = [heap[n] EXCEPT !.type = type[n]]
    BY <1>4, TypesWritten
  <2>3. \A n \in 1 .. Len(heap) : heap[n] \in Nodes
    BY <1>4 DEF TreeInv, GoodNode
  <2>4. \A n \in 1 .. Len(heap) : heap'[n].children = heap[n].children
    BY <2>2, <2>3 DEF Nodes
  <2>5. Complete(heap) => Complete(heap')
    BY <2>2, <2>4 DEF Complete
  <2>6. Spotless => Spotless'
    BY <2>1, <2>5 DEF Spotless
  <2> QED BY <1>4, <2>1, <2>6 DEF ErrorsInv, CrashExplained
<1>5. ASSUME PInv, TreeInv, ErrorsInv, free PROVE ErrorsInv'
  BY <1>5 DEF free, ErrorsInv, CrashExplained
<1>6. ASSUME PInv, TreeInv, ErrorsInv, compiler_init PROVE ErrorsInv'
  <2>1. phase' = "ready" /\ compiler' = [compiler EXCEPT !.is_error = FALSE, !.is_panic = FALSE]
    BY <1>6 DEF compiler_init
  <2>2. compiler'.is_panic = FALSE
    BY <1>6, <2>1 DEF PInv, ShapeInv, Compilers
  <2> QED BY <2>1, <2>2 DEF ErrorsInv, CrashExplained
<1> QED BY <1>1, <1>2, <1>3, <1>4, <1>5, <1>6

\* ErrorsInv is inductive.
LEMMA ErrorsHold == ParserInit => ErrorsInv
BY DEF ParserInit, ErrorsInv, CrashExplained

\* Every step of the parser keeps the errors as ErrorsInv says.
LEMMA ErrorsKept == PInv /\ TreeInv /\ ErrorsInv /\ [ParserNext]_parserVars => ErrorsInv'
<1> SUFFICES ASSUME PInv, TreeInv, ErrorsInv, [ParserNext]_parserVars PROVE ErrorsInv'
  OBVIOUS
<1>1. CASE UNCHANGED parserVars
  BY <1>1 DEF parserVars, ErrorsInv, Spotless, CrashExplained
<1>2. CASE ParserNext
  BY <1>2, ReturnsKeepErrors, NodesKeepErrors, LiteralKeepsErrors, CallsKeepErrors,
     OthersKeepErrors DEF ParserNext, ParserStep
<1> QED BY <1>1, <1>2

\* The compiler crashes only for sources that it does not accept: it has
\* reported an error, or has met an operator of a level it has no rule for.
THEOREM CrashesAreExplained == ParserSpec => []CrashExplained
<1>1. ErrorsInv => CrashExplained
  BY DEF ErrorsInv
<1> QED BY <1>1, ErrorsHold, ErrorsKept, InvariantHolds, InvariantKept, TreeInvHolds,
           TreeInvKept, PTL DEF ParserSpec
=============================================================================
