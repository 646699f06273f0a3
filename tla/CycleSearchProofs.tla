------------------------- MODULE CycleSearchProofs -------------------------
(***************************************************************************)
(* The depth-first search of _reject_cycles finds a cycle exactly when     *)
(* there is a ring, for any number of links of which no node has more than *)
(* two.                                                                    *)
(***************************************************************************)
EXTENDS CycleSearch, FiniteSetTheorems, TLAPS

EndsOf(links, i) == {links[i].from, links[i].to}

\* What the search may assume: a list of links, at most two of a node.
Listed(links) == Len(links) \in Nat /\ DOMAIN links = 1..Len(links) /\ ~Crowded(links)

-----------------------------------------------------------------------------
(* Rings without counting *)

Looped(links, S) ==
    /\ S # {}
    /\ \A i \in S : \A n \in EndsOf(links, i) :
         \E a, b \in Meets(links, n) \cap S : a # b

LEMMA MeetsAreFinite ==
    ASSUME NEW links, Len(links) \in Nat, DOMAIN links = 1..Len(links), NEW n
    PROVE  IsFiniteSet(Meets(links, n)) /\ Meets(links, n) \subseteq Joining(links)
<1>1. IsFiniteSet(DOMAIN links)
  BY FS_Interval
<1>2. Meets(links, n) \in SUBSET (DOMAIN links) /\ Meets(links, n) \subseteq Joining(links)
  BY DEF Meets, Joining
<1>3. QED
  BY <1>1, <1>2, FS_Subset

LEMMA MeetsAtMostTwo ==
    ASSUME NEW links, Listed(links), NEW n
    PROVE  Cardinality(Meets(links, n)) \in Nat /\ Cardinality(Meets(links, n)) <= 2
<1>1. Cardinality(Meets(links, n)) \in Nat
  BY MeetsAreFinite, FS_CardinalityType DEF Listed
<1>2. CASE n \in Ends(links)
  BY <1>1, <1>2 DEF Listed, Crowded
<1>3. CASE n \notin Ends(links)
  <2>1. Meets(links, n) = {}
    BY <1>3 DEF Meets, Ends
  <2>2. QED
    BY <1>1, <2>1, FS_EmptySet
<1>4. QED
  BY <1>2, <1>3

LEMMA TwoElements ==
    ASSUME NEW S, IsFiniteSet(S)
    PROVE  Cardinality(S) >= 2 <=> \E a, b \in S : a # b
<1>1. Cardinality(S) \in Nat
  BY FS_CardinalityType
<1>2. Cardinality(S) = 0 <=> S = {}
  BY FS_EmptySet
<1>3. Cardinality(S) = 1 <=> \E x : S = {x}
  BY FS_Singleton
<1>4. ASSUME NEW a \in S, NEW b \in S, a # b PROVE S # {} /\ ~\E x : S = {x}
  BY <1>4
<1>5. ASSUME S # {}, ~\E x : S = {x} PROVE \E a, b \in S : a # b
  BY <1>5
<1>6. QED
  BY <1>1, <1>2, <1>3, <1>4, <1>5

\* Three links of a node are not different.
LEMMA ThreeLinks ==
    ASSUME NEW links, Listed(links), NEW n,
           NEW a \in Meets(links, n), NEW b \in Meets(links, n), NEW c \in Meets(links, n)
    PROVE  a = b \/ a = c \/ b = c
<1> SUFFICES ASSUME a # b, a # c, b # c PROVE FALSE
  OBVIOUS
<1>1. IsFiniteSet({a}) /\ Cardinality({a}) = 1
  BY FS_Singleton
<1>2. IsFiniteSet({a} \cup {b}) /\ Cardinality({a} \cup {b}) = 2
  <2>1. b \notin {a}
    OBVIOUS
  <2>2. QED
    BY <1>1, <2>1, FS_AddElement
<1>3. IsFiniteSet(({a} \cup {b}) \cup {c}) /\ Cardinality(({a} \cup {b}) \cup {c}) = 3
  <2>1. c \notin {a} \cup {b}
    OBVIOUS
  <2>2. QED
    BY <1>2, <2>1, FS_AddElement
<1>4. ({a} \cup {b}) \cup {c} \in SUBSET Meets(links, n)
  OBVIOUS
<1>5. Cardinality(({a} \cup {b}) \cup {c}) <= Cardinality(Meets(links, n))
  BY <1>4, MeetsAreFinite, FS_Subset DEF Listed
<1>6. QED
  BY <1>3, <1>5, MeetsAtMostTwo

LEMMA RingIsLooped ==
    ASSUME NEW links, Listed(links), NEW S
    PROVE  Ring(links, S) <=> Looped(links, S)
<1>1. ASSUME NEW n
      PROVE  Cardinality(Meets(links, n) \cap S) = 2 <=> \E a, b \in Meets(links, n) \cap S : a # b
  <2> DEFINE M == Meets(links, n) \cap S
  <2>1. M \in SUBSET Meets(links, n)
    OBVIOUS
  <2>2. IsFiniteSet(M) /\ Cardinality(M) <= Cardinality(Meets(links, n)) /\ Cardinality(M) \in Nat
    BY <2>1, MeetsAreFinite, FS_Subset, FS_CardinalityType DEF Listed
  <2>3. Cardinality(M) >= 2 <=> \E a, b \in M : a # b
    BY <2>2, TwoElements
  <2>4. Cardinality(M) <= 2
    BY <2>2, MeetsAtMostTwo
  <2> HIDE DEF M
  <2>5. Cardinality(M) = 2 <=> Cardinality(M) >= 2
    BY <2>2, <2>4
  <2>6. QED
    BY <2>3, <2>5 DEF M
<1>2. QED
  BY <1>1 DEF Ring, Looped, EndsOf

-----------------------------------------------------------------------------
(* The invariant of the search *)

Frames(links) == [node : Ends(links), parent : SUBSET Ends(links), left : SUBSET Joining(links)]

\* The call of n has followed link i.
Followed(links, i, n) ==
    /\ n \in visited /\ i \in Meets(links, n)
    /\ \A k \in 1..Len(stack) : stack[k].node = n => i \notin stack[k].left

\* Another link joins the same nodes.
Twin(links, i) ==
    \E e \in Joining(links) : e # i /\ EndsOf(links, e) = EndsOf(links, i)

\* The links the search has followed, from either end, but those left at its root.
Known(links) ==
    {i \in Joining(links) : /\ \E n : Followed(links, i, n)
                            /\ stack # <<>> => i \notin stack[1].left}

\* The stack is a path of the graph, from its root.
PathInv(links) ==
    /\ visited \subseteq Ends(links) /\ stack \in Seq(Frames(links))
    /\ \A k \in 1..Len(stack) :
         /\ stack[k].node \in visited /\ stack[k].left \subseteq Meets(links, stack[k].node)
         /\ stack[k].parent = IF k = 1 THEN {} ELSE {stack[k - 1].node}
    /\ \A j, k \in 1..Len(stack) : stack[j].node = stack[k].node => j = k
    /\ \A k \in 1..Len(stack) : k # 1 =>
         \E e \in Meets(links, stack[k - 1].node) \cap Meets(links, stack[k].node) :
             e \notin stack[k - 1].left

\* What has been followed led to a visited node.
ReachInv(links) ==
    \A n, i : Followed(links, i, n) => EndsOf(links, i) \subseteq visited

\* A link that was followed from its other end, and is not the one that led here, is double.
TwinInv(links) ==
    \A k \in 1..Len(stack) : \A i \in stack[k].left : \A m \in EndsOf(links, i) :
        m # stack[k].node /\ {m} # stack[k].parent /\ Followed(links, i, m) => Twin(links, i)

\* No ring has gone unnoticed.
NoRingInv(links) == \A S \in SUBSET Known(links) : ~Looped(links, S)

SearchInv(links) ==
    PathInv(links) /\ ReachInv(links) /\ TwinInv(links) /\ NoRingInv(links)

LEMMA EndsOfLink ==
    ASSUME NEW links, NEW i, NEW n
    PROVE  /\ i \in Meets(links, n) <=> i \in Joining(links) /\ n \in EndsOf(links, i)
           /\ i \in Meets(links, n) => n \in Ends(links)
BY DEF Meets, EndsOf, Ends

\* The link a loop has come to joins the node on top with another.
LEMMA LinkAtTop ==
    ASSUME NEW links, PathInv(links), NEW i, At(i)
    PROVE  /\ Len(stack) \in Nat /\ Len(stack) \in 1..Len(stack)
           /\ i \in Joining(links) /\ i \in stack[Len(stack)].left
           /\ EndsOf(links, i) = {stack[Len(stack)].node, Far(links, i)}
           /\ Far(links, i) # stack[Len(stack)].node /\ Far(links, i) \in Ends(links)
           /\ i \in Meets(links, stack[Len(stack)].node) /\ i \in Meets(links, Far(links, i))
<1>1. Len(stack) \in Nat /\ Len(stack) \in 1..Len(stack)
  BY DEF PathInv, At
<1>2. i \in stack[Len(stack)].left /\ i \in Meets(links, stack[Len(stack)].node)
  BY <1>1 DEF PathInv, At, Top
<1>3. i \in Joining(links) /\ links[i].from # links[i].to
  BY <1>2 DEF Meets, Joining
<1>4. /\ EndsOf(links, i) = {stack[Len(stack)].node, Far(links, i)}
      /\ Far(links, i) # stack[Len(stack)].node
  BY <1>2, <1>3 DEF Meets, EndsOf, Far, Top
<1>5. i \in Meets(links, Far(links, i))
  BY <1>3, <1>4, EndsOfLink
<1>6. QED
  BY <1>1, <1>2, <1>3, <1>4, <1>5, EndsOfLink

LEMMA PassedFrames ==
    ASSUME NEW links, PathInv(links), NEW i, At(i)
    PROVE  /\ Passed(i) \in Seq(Frames(links)) /\ Len(Passed(i)) = Len(stack)
           /\ \A k \in 1..Len(stack) :
                /\ Passed(i)[k].node = stack[k].node /\ Passed(i)[k].parent = stack[k].parent
                /\ Passed(i)[k].left = IF k = Len(stack) THEN stack[k].left \ {i} ELSE stack[k].left
<1>1. stack \in Seq(Frames(links)) /\ Len(stack) \in 1..Len(stack)
  BY LinkAtTop DEF PathInv
<1>2. stack[Len(stack)] \in Frames(links)
  BY <1>1
<1>3. [stack[Len(stack)] EXCEPT !.left = @ \ {i}] \in Frames(links)
  BY <1>2 DEF Frames
<1>4. Passed(i) = [stack EXCEPT ![Len(stack)] = [stack[Len(stack)] EXCEPT !.left = @ \ {i}]]
  BY DEF Passed
<1>5. Passed(i) \in Seq(Frames(links)) /\ Len(Passed(i)) = Len(stack)
  BY <1>1, <1>3, <1>4
<1>6. ASSUME NEW k \in 1..Len(stack), k # Len(stack) PROVE Passed(i)[k] = stack[k]
  BY <1>1, <1>4, <1>6
<1>7. Passed(i)[Len(stack)] = [stack[Len(stack)] EXCEPT !.left = @ \ {i}]
  <2>1. Len(stack) \in DOMAIN stack
    BY <1>1
  <2>2. QED
    BY <1>4, <2>1, Zenon
<1>8. /\ Passed(i)[Len(stack)].node = stack[Len(stack)].node
      /\ Passed(i)[Len(stack)].parent = stack[Len(stack)].parent
      /\ Passed(i)[Len(stack)].left = stack[Len(stack)].left \ {i}
  BY <1>2, <1>7 DEF Frames
<1>9. QED
  BY <1>5, <1>6, <1>8

\* The K frames on the stack are as they were, but the K-th has followed link i.
SameFrames(K, i) ==
    /\ \A k \in 1..K : stack'[k].node = stack[k].node /\ stack'[k].parent = stack[k].parent
    /\ \A k \in 1..K : stack'[k].left \subseteq stack[k].left
    /\ \A k \in 1..K : \A j \in stack[k].left : (k # K \/ j # i) => j \in stack'[k].left
    /\ i \notin stack'[K].left

\* What holds of the stack after a loop has passed link i and visit was called with m.
LEMMA PushedFrames ==
    ASSUME NEW links, PathInv(links), NEW i, At(i), NEW m \in Ends(links),
           stack' = Append(Passed(i), Visit(links, m, {Top.node}))
    PROVE  /\ stack' \in Seq(Frames(links)) /\ Len(stack') = Len(stack) + 1
           /\ SameFrames(Len(stack), i)
           /\ stack'[Len(stack) + 1].node = m
           /\ stack'[Len(stack) + 1].parent = {stack[Len(stack)].node}
           /\ stack'[Len(stack) + 1].left = Meets(links, m)
<1> DEFINE f == Visit(links, m, {Top.node})
<1>1. /\ f.node = m /\ f.parent = {stack[Len(stack)].node} /\ f.left = Meets(links, m)
  BY DEF Visit, Top
<1>2. f \in Frames(links)
  <2>1. stack[Len(stack)].node \in Ends(links)
    BY LinkAtTop DEF PathInv
  <2>2. Meets(links, m) \subseteq Joining(links)
    BY DEF Meets
  <2>3. QED
    BY <2>1, <2>2 DEF Visit, Top, Frames
<1>3. /\ Len(stack) \in Nat /\ Len(stack) \in 1..Len(stack)
      /\ Passed(i) \in Seq(Frames(links)) /\ Len(Passed(i)) = Len(stack)
  BY LinkAtTop, PassedFrames
<1> HIDE DEF f
<1>4. stack' = Append(Passed(i), f)
  BY DEF f
<1>5. /\ stack' \in Seq(Frames(links)) /\ Len(stack') = Len(stack) + 1
      /\ stack'[Len(stack) + 1] = f
      /\ \A k \in 1..Len(stack) : stack'[k] = Passed(i)[k]
  BY <1>2, <1>3, <1>4
<1>6. ASSUME NEW k \in 1..Len(stack)
      PROVE  /\ stack'[k].node = stack[k].node /\ stack'[k].parent = stack[k].parent
             /\ stack'[k].left = IF k = Len(stack) THEN stack[k].left \ {i} ELSE stack[k].left
  <2>1. stack'[k] = Passed(i)[k]
    BY <1>5
  <2>2. /\ Passed(i)[k].node = stack[k].node /\ Passed(i)[k].parent = stack[k].parent
        /\ Passed(i)[k].left = IF k = Len(stack) THEN stack[k].left \ {i} ELSE stack[k].left
    BY PassedFrames
  <2>3. QED
    BY <2>1, <2>2
<1>7. SameFrames(Len(stack), i)
  <2>1. i \notin stack'[Len(stack)].left
    BY <1>3, <1>6
  <2>2. ASSUME NEW k \in 1..Len(stack)
        PROVE  /\ stack'[k].left \subseteq stack[k].left
               /\ \A j \in stack[k].left : (k # Len(stack) \/ j # i) => j \in stack'[k].left
    BY <1>6
  <2>3. QED
    BY <1>6, <2>1, <2>2 DEF SameFrames
<1>8. QED
  BY <1>1, <1>5, <1>7

\* What holds of the stack when a loop has passed link i.
LEMMA SkippedFrames ==
    ASSUME NEW links, PathInv(links), NEW i, At(i), stack' = Passed(i)
    PROVE  /\ stack' \in Seq(Frames(links)) /\ Len(stack') = Len(stack)
           /\ SameFrames(Len(stack), i)
<1>1. /\ Len(stack) \in 1..Len(stack)
      /\ stack' \in Seq(Frames(links)) /\ Len(stack') = Len(stack)
  BY LinkAtTop, PassedFrames
<1>2. ASSUME NEW k \in 1..Len(stack)
      PROVE  /\ stack'[k].node = stack[k].node /\ stack'[k].parent = stack[k].parent
             /\ stack'[k].left = IF k = Len(stack) THEN stack[k].left \ {i} ELSE stack[k].left
  BY PassedFrames
<1>3. i \notin stack'[Len(stack)].left
  BY <1>1, <1>2
<1>4. ASSUME NEW k \in 1..Len(stack)
      PROVE  /\ stack'[k].left \subseteq stack[k].left
             /\ \A j \in stack[k].left : (k # Len(stack) \/ j # i) => j \in stack'[k].left
  BY <1>2
<1>5. QED
  BY <1>1, <1>2, <1>3, <1>4 DEF SameFrames

\* What holds of the stack when a call has returned.
LEMMA ReturnedFrames ==
    ASSUME NEW links, PathInv(links), Return
    PROVE  /\ Len(stack) \in Nat \ {0} /\ stack \in Seq(Frames(links))
           /\ stack' \in Seq(Frames(links)) /\ Len(stack') = Len(stack) - 1
           /\ \A k \in 1..(Len(stack) - 1) : stack'[k] = stack[k]
<1> DEFINE K == Len(stack)
<1>1. K \in Nat \ {0} /\ stack \in Seq(Frames(links))
  BY DEF PathInv, Return
<1>2. stack' = SubSeq(stack, 1, K - 1)
  BY DEF Return
<1>3. Len(stack) = K /\ DOMAIN stack = 1..K /\ \A k \in 1..K : stack[k] \in Frames(links)
  BY <1>1
<1> HIDE DEF K
<1>4. K - 1 \in Nat /\ 1..(K - 1) \subseteq 1..K
  BY <1>1
<1>5. stack' = [k \in 1..(K - 1) |-> stack[k]]
  BY <1>1, <1>2, <1>3, <1>4
<1>6. stack' \in Seq(Frames(links))
  BY <1>3, <1>4, <1>5
<1>7. QED
  BY <1>1, <1>3, <1>4, <1>5, <1>6

-----------------------------------------------------------------------------
(* Calls that begin *)

LEMMA BeginKeeps ==
    ASSUME NEW links, Listed(links), SearchInv(links), Begin(links)
    PROVE  SearchInv(links)'
<1>1. PICK n \in Ends(links) \ visited :
        visited' = visited \cup {n} /\ stack' = <<Visit(links, n, {})>>
  BY DEF Begin
<1>2. stack = <<>> /\ Len(stack) = 0
  BY DEF Begin
<1>3. /\ Len(stack') = 1 /\ stack' # <<>> /\ stack'[1].node = n /\ stack'[1].parent = {}
      /\ stack'[1].left = Meets(links, n) /\ stack' \in Seq(Frames(links))
  BY <1>1 DEF Visit, Frames, Meets
<1>4. \A j, v : Followed(links, j, v)' => Followed(links, j, v) /\ v # n
  BY <1>1, <1>2, <1>3 DEF Followed
<1>5. PathInv(links)'
  BY <1>1, <1>3 DEF PathInv, SearchInv
<1>6. ReachInv(links)'
  BY <1>1, <1>4 DEF ReachInv, SearchInv
<1>7. TwinInv(links)'
  <2> SUFFICES ASSUME NEW i \in Meets(links, n), NEW m \in EndsOf(links, i), Followed(links, i, m)
               PROVE  FALSE
    BY <1>3, <1>4 DEF TwinInv
  <2>1. n \in EndsOf(links, i)
    BY EndsOfLink
  <2>2. QED
    BY <1>1, <2>1 DEF SearchInv, ReachInv
<1>8. NoRingInv(links)'
  <2>1. Known(links)' \subseteq Known(links)
    BY <1>2, <1>4 DEF Known
  <2>2. QED
    BY <2>1 DEF SearchInv, NoRingInv
<1>9. QED
  BY <1>5, <1>6, <1>7, <1>8 DEF SearchInv

LEMMA DescendKeeps ==
    ASSUME NEW links, Listed(links), SearchInv(links), Descend(links)
    PROVE  SearchInv(links)'
<1> DEFINE K == Len(stack)
<1>1. PICK i \in DOMAIN links :
        /\ At(i) /\ {Far(links, i)} # Top.parent /\ Far(links, i) \notin visited
        /\ visited' = visited \cup {Far(links, i)}
        /\ stack' = Append(Passed(i), Visit(links, Far(links, i), {Top.node}))
  BY DEF Descend
<1> DEFINE m == Far(links, i)
           n == stack[K].node
<1>2. PathInv(links) /\ ReachInv(links) /\ TwinInv(links) /\ NoRingInv(links)
  BY DEF SearchInv
<1>3. /\ K \in Nat /\ K \in 1..K /\ i \in Joining(links) /\ i \in stack[K].left
      /\ EndsOf(links, i) = {n, m} /\ m # n /\ m \in Ends(links)
      /\ i \in Meets(links, n) /\ i \in Meets(links, m) /\ m \notin visited /\ n \in visited
  <2>1. n \in visited
    BY <1>1, <1>2, LinkAtTop DEF PathInv
  <2>2. QED
    BY <1>1, <1>2, <2>1, LinkAtTop
<1>4. /\ stack' \in Seq(Frames(links)) /\ Len(stack') = K + 1
      /\ SameFrames(K, i)
      /\ stack'[K + 1].node = m /\ stack'[K + 1].parent = {n}
      /\ stack'[K + 1].left = Meets(links, m)
  <2>1. At(i) /\ m \in Ends(links) /\ PathInv(links)
    BY <1>1, <1>2, <1>3
  <2>2. stack' = Append(Passed(i), Visit(links, m, {Top.node}))
    BY <1>1
  <2> HIDE DEF m
  <2>3. QED
    BY <2>1, <2>2, PushedFrames
<1>5. visited' = visited \cup {m}
  BY <1>1
<1> HIDE DEF K, m, n
<1>4a. \A k \in 1..K : stack'[k].node = stack[k].node /\ stack'[k].parent = stack[k].parent
  BY <1>4 DEF SameFrames
<1>4b. \A k \in 1..K : stack'[k].left \subseteq stack[k].left
  BY <1>4 DEF SameFrames
<1>4c. \A k \in 1..K : \A j \in stack[k].left : (k # K \/ j # i) => j \in stack'[k].left
  BY <1>4 DEF SameFrames
<1>4d. i \notin stack'[K].left
  BY <1>4 DEF SameFrames
<1>4e. /\ Len(stack') = K + 1 /\ stack'[K + 1].node = m /\ stack'[K + 1].parent = {n}
       /\ stack'[K + 1].left = Meets(links, m)
  BY <1>4
<1>4f. 1..Len(stack') = (1..K) \cup {K + 1}
  BY <1>3, <1>4e
<1>4g. stack'[K].node = n
  BY <1>3, <1>4a DEF n
<1>6. ASSUME NEW j, NEW v, Followed(links, j, v)'
      PROVE  Followed(links, j, v) \/ (j = i /\ v = n)
  <2>1. /\ v \in visited' /\ j \in Meets(links, v)
        /\ \A k \in 1..Len(stack') : stack'[k].node = v => j \notin stack'[k].left
    BY <1>6 DEF Followed
  <2>2. v # m
    BY <1>4e, <1>4f, <2>1
  <2>3. v \in visited
    BY <1>5, <2>1, <2>2
  <2>4. ASSUME NEW k \in 1..K, stack[k].node = v, j \in stack[k].left
        PROVE  j = i /\ v = n
    <3>1. stack'[k].node = v /\ k \in 1..Len(stack')
      BY <1>4a, <1>4f, <2>4
    <3>2. j \notin stack'[k].left
      BY <2>1, <3>1
    <3>3. k = K /\ j = i
      BY <1>4c, <2>4, <3>2
    <3>4. QED
      BY <2>4, <3>3 DEF n
  <2>5. QED
    BY <2>1, <2>3, <2>4 DEF Followed, K
<1>7. PathInv(links)'
  <2>1. visited' \subseteq Ends(links)
    BY <1>2, <1>3, <1>5 DEF PathInv
  <2>2. ASSUME NEW k \in 1..Len(stack')
        PROVE  /\ stack'[k].node \in visited' /\ stack'[k].left \subseteq Meets(links, stack'[k].node)
               /\ stack'[k].parent = IF k = 1 THEN {} ELSE {stack'[k - 1].node}
    <3>1. CASE k \in 1..K
      <4>1. k # 1 => k - 1 \in 1..K
        BY <1>3, <3>1
      <4>2. /\ stack[k].node \in visited /\ stack[k].left \subseteq Meets(links, stack[k].node)
            /\ stack[k].parent = IF k = 1 THEN {} ELSE {stack[k - 1].node}
        BY <1>2, <3>1 DEF PathInv, K
      <4>3. stack'[k].node \in visited' /\ stack'[k].left \subseteq Meets(links, stack'[k].node)
        BY <1>4a, <1>4b, <1>5, <3>1, <4>2
      <4>4. stack'[k].parent = IF k = 1 THEN {} ELSE {stack'[k - 1].node}
        BY <1>4a, <3>1, <4>1, <4>2
      <4>5. QED
        BY <4>3, <4>4
    <3>2. CASE k = K + 1
      <4>1. k # 1 /\ k - 1 = K
        BY <1>3, <3>2
      <4>2. QED
        BY <1>4e, <1>4g, <1>5, <3>2, <4>1
    <3>3. QED
      BY <1>4f, <3>1, <3>2
  <2>3. ASSUME NEW j \in 1..Len(stack'), NEW k \in 1..Len(stack'), stack'[j].node = stack'[k].node
        PROVE  j = k
    <3>1. \A a \in 1..K : stack'[a].node # m
      <4>1. \A a \in 1..K : stack[a].node \in visited
        BY <1>2 DEF PathInv, K
      <4>2. QED
        BY <1>3, <1>4a, <4>1
    <3>2. j = K + 1 <=> k = K + 1
      BY <1>4e, <1>4f, <2>3, <3>1
    <3>3. ASSUME j \in 1..K, k \in 1..K PROVE j = k
      <4>1. stack[j].node = stack[k].node
        BY <1>4a, <2>3, <3>3
      <4>2. QED
        BY <1>2, <3>3, <4>1 DEF PathInv, K
    <3>4. QED
      BY <1>4f, <3>2, <3>3
  <2>4. ASSUME NEW k \in 1..Len(stack'), k # 1
        PROVE  \E e \in Meets(links, stack'[k - 1].node) \cap Meets(links, stack'[k].node) :
                   e \notin stack'[k - 1].left
    <3>1. CASE k \in 1..K
      <4>1. k - 1 \in 1..K
        BY <1>3, <2>4, <3>1
      <4>2. PICK e \in Meets(links, stack[k - 1].node) \cap Meets(links, stack[k].node) :
              e \notin stack[k - 1].left
        BY <1>2, <2>4, <3>1 DEF PathInv, K
      <4>3. e \in Meets(links, stack'[k - 1].node) \cap Meets(links, stack'[k].node)
        BY <1>4a, <3>1, <4>1, <4>2
      <4>4. e \notin stack'[k - 1].left
        BY <1>4b, <4>1, <4>2
      <4>5. QED
        BY <4>3, <4>4
    <3>2. CASE k = K + 1
      <4>1. k - 1 = K
        BY <1>3, <3>2
      <4>2. i \in Meets(links, stack'[k - 1].node) \cap Meets(links, stack'[k].node)
        BY <1>3, <1>4e, <1>4g, <3>2, <4>1
      <4>3. i \notin stack'[k - 1].left
        BY <1>4d, <4>1
      <4>4. QED
        BY <4>2, <4>3
    <3>3. QED
      BY <1>4f, <3>1, <3>2
  <2>5. QED
    BY <1>4, <2>1, <2>2, <2>3, <2>4 DEF PathInv
<1>8. ReachInv(links)'
  BY <1>2, <1>3, <1>5, <1>6 DEF ReachInv
<1>9. TwinInv(links)'
  <2> SUFFICES ASSUME NEW k \in 1..Len(stack'), NEW j \in stack'[k].left, NEW v \in EndsOf(links, j),
                      v # stack'[k].node, {v} # stack'[k].parent, Followed(links, j, v)'
               PROVE  Twin(links, j)
    BY DEF TwinInv, Twin
  <2>1. Followed(links, j, v) \/ (j = i /\ v = n)
    BY <1>6
  <2>2. CASE k \in 1..K
    <3>1. j \in stack[k].left /\ v # stack[k].node /\ {v} # stack[k].parent
      BY <1>4a, <1>4b, <2>2
    <3>2. CASE Followed(links, j, v)
      BY <1>2, <2>2, <3>1, <3>2 DEF TwinInv, K
    <3>3. CASE j = i /\ v = n
      <4>1. stack[k].node \in EndsOf(links, i) /\ stack[k].node \in visited
        BY <1>2, <2>2, <3>1, <3>3, EndsOfLink DEF PathInv, K
      <4>2. stack[k].node = m
        BY <1>3, <3>1, <3>3, <4>1
      <4>3. QED
        BY <1>3, <4>1, <4>2
    <3>4. QED
      BY <2>1, <3>2, <3>3
  <2>3. CASE k = K + 1
    <3>1. j \in Meets(links, m) /\ {v} # {n}
      BY <1>4e, <2>3
    <3>2. Followed(links, j, v) /\ m \in EndsOf(links, j)
      BY <2>1, <3>1, EndsOfLink
    <3>3. QED
      BY <1>2, <1>3, <3>2 DEF ReachInv
  <2>4. QED
    BY <1>4f, <2>2, <2>3
<1>10. NoRingInv(links)'
  <2>1. ASSUME NEW j \in Known(links)', j # i PROVE j \in Known(links)
    <3>1. PICK v : Followed(links, j, v)'
      BY <2>1 DEF Known
    <3>2. Followed(links, j, v)
      BY <1>6, <2>1, <3>1
    <3>3. stack' # <<>> /\ 1 \in 1..K
      BY <1>3, <1>4e
    <3>4. j \notin stack'[1].left
      BY <2>1, <3>3 DEF Known
    <3>5. j \notin stack[1].left
      BY <1>4c, <2>1, <3>3, <3>4
    <3>6. QED
      BY <2>1, <3>2, <3>5 DEF Known
  <2>2. ASSUME NEW S \in SUBSET Known(links)', Looped(links, S) PROVE FALSE
    <3>1. CASE i \notin S
      <4>1. S \in SUBSET Known(links)
        BY <2>1, <3>1
      <4>2. QED
        BY <1>2, <2>2, <4>1 DEF NoRingInv
    <3>2. CASE i \in S
      <4>1. PICK a \in Meets(links, m) \cap S : a # i
        BY <1>3, <2>2, <3>2 DEF Looped
      <4>2. a \in Known(links) /\ m \in EndsOf(links, a)
        BY <2>1, <4>1, EndsOfLink
      <4>3. PICK v : Followed(links, a, v)
        BY <4>2 DEF Known
      <4>4. QED
        BY <1>2, <1>3, <4>2, <4>3 DEF ReachInv
    <3>3. QED
      BY <3>1, <3>2
  <2>3. Looped(links, {}) = Looped(links, {})'
    BY DEF Looped
  <2>4. QED
    BY <2>2 DEF NoRingInv, Looped
<1>11. QED
  BY <1>7, <1>8, <1>9, <1>10 DEF SearchInv

-----------------------------------------------------------------------------
(* Calls that go on and return *)

LEMMA SkipKeeps ==
    ASSUME NEW links, Listed(links), SearchInv(links), Skip(links)
    PROVE  SearchInv(links)'
<1> DEFINE K == Len(stack)
<1>1. PICK i \in DOMAIN links :
        At(i) /\ {Far(links, i)} = Top.parent /\ stack' = Passed(i) /\ visited' = visited
  BY DEF Skip
<1> DEFINE m == Far(links, i)
           n == stack[K].node
<1>2. PathInv(links) /\ ReachInv(links) /\ TwinInv(links) /\ NoRingInv(links)
  BY DEF SearchInv
<1>3. /\ K \in Nat /\ K \in 1..K /\ i \in Joining(links) /\ i \in stack[K].left
      /\ EndsOf(links, i) = {n, m} /\ m # n
      /\ i \in Meets(links, n) /\ i \in Meets(links, m) /\ n \in visited
  <2>1. n \in visited
    BY <1>1, <1>2, LinkAtTop DEF PathInv
  <2>2. QED
    BY <1>1, <1>2, <2>1, LinkAtTop
<1>4. K # 1 /\ K - 1 \in 1..K /\ stack[K - 1].node = m /\ m \in visited
  <2>1. stack[K].parent = IF K = 1 THEN {} ELSE {stack[K - 1].node}
    BY <1>2, <1>3 DEF PathInv
  <2>2. stack[K].parent = {m}
    BY <1>1 DEF Top
  <2>3. K # 1 /\ stack[K - 1].node = m
    BY <2>1, <2>2
  <2>4. K - 1 \in 1..K
    <3>1. K \in Nat /\ K \in 1..K
      BY <1>3
    <3> HIDE DEF K
    <3>2. QED
      BY <2>3, <3>1
  <2>5. m \in visited
    <3>1. stack[K - 1].node \in visited
      BY <1>2, <2>4 DEF PathInv
    <3>2. QED
      BY <2>3, <3>1
  <2>6. QED
    BY <2>3, <2>4, <2>5
<1>5. stack' \in Seq(Frames(links)) /\ Len(stack') = K /\ SameFrames(K, i)
  BY <1>1, <1>2, SkippedFrames
<1>6. visited' = visited
  BY <1>1
<1> HIDE DEF K, m, n
<1>5a. \A k \in 1..K : stack'[k].node = stack[k].node /\ stack'[k].parent = stack[k].parent
  BY <1>5 DEF SameFrames
<1>5b. \A k \in 1..K : stack'[k].left \subseteq stack[k].left
  BY <1>5 DEF SameFrames
<1>5c. \A k \in 1..K : \A j \in stack[k].left : (k # K \/ j # i) => j \in stack'[k].left
  BY <1>5 DEF SameFrames
\* The link that led from m to n.
<1>7. PICK e \in Meets(links, m) \cap Meets(links, n) : e \notin stack[K - 1].left
  BY <1>2, <1>3, <1>4 DEF PathInv, K, n
<1>8. EndsOf(links, e) = EndsOf(links, i) /\ e \in Joining(links)
  BY <1>3, <1>7 DEF Meets, Joining, EndsOf
<1>9. ASSUME NEW j, NEW v, Followed(links, j, v)'
      PROVE  Followed(links, j, v) \/ (j = i /\ v = n)
  <2>1. /\ v \in visited /\ j \in Meets(links, v)
        /\ \A k \in 1..K : stack'[k].node = v => j \notin stack'[k].left
    BY <1>5, <1>6, <1>9 DEF Followed
  <2>2. ASSUME NEW k \in 1..K, stack[k].node = v, j \in stack[k].left
        PROVE  j = i /\ v = n
    <3>1. j \notin stack'[k].left
      BY <1>5a, <2>1, <2>2
    <3>2. k = K /\ j = i
      BY <1>5c, <2>2, <3>1
    <3>3. QED
      BY <2>2, <3>2 DEF n
  <2>3. QED
    BY <2>1, <2>2 DEF Followed, K
<1>10. PathInv(links)'
  <2>1. ASSUME NEW k \in 1..K
        PROVE  /\ stack'[k].node \in visited' /\ stack'[k].left \subseteq Meets(links, stack'[k].node)
               /\ stack'[k].parent = IF k = 1 THEN {} ELSE {stack'[k - 1].node}
    <3>1. k # 1 => k - 1 \in 1..K
      BY <1>3
    <3>2. /\ stack[k].node \in visited /\ stack[k].left \subseteq Meets(links, stack[k].node)
          /\ stack[k].parent = IF k = 1 THEN {} ELSE {stack[k - 1].node}
      BY <1>2 DEF PathInv, K
    <3>3. stack'[k].node \in visited' /\ stack'[k].left \subseteq Meets(links, stack'[k].node)
      BY <1>5a, <1>5b, <1>6, <3>2
    <3>4. stack'[k].parent = IF k = 1 THEN {} ELSE {stack'[k - 1].node}
      BY <1>5a, <3>1, <3>2
    <3>5. QED
      BY <3>3, <3>4
  <2>2. ASSUME NEW j \in 1..K, NEW k \in 1..K, stack'[j].node = stack'[k].node
        PROVE  j = k
    <3>1. stack[j].node = stack[k].node
      BY <1>5a, <2>2
    <3>2. QED
      BY <1>2, <3>1 DEF PathInv, K
  <2>3. ASSUME NEW k \in 1..K, k # 1
        PROVE  \E f \in Meets(links, stack'[k - 1].node) \cap Meets(links, stack'[k].node) :
                   f \notin stack'[k - 1].left
    <3>1. k - 1 \in 1..K
      BY <1>3, <2>3
    <3>2. PICK f \in Meets(links, stack[k - 1].node) \cap Meets(links, stack[k].node) :
            f \notin stack[k - 1].left
      BY <1>2, <2>3 DEF PathInv, K
    <3>3. f \in Meets(links, stack'[k - 1].node) \cap Meets(links, stack'[k].node)
      BY <1>5a, <3>1, <3>2
    <3>4. f \notin stack'[k - 1].left
      BY <1>5b, <3>1, <3>2
    <3>5. QED
      BY <3>3, <3>4
  <2>4. visited' \subseteq Ends(links)
    BY <1>2, <1>6 DEF PathInv
  <2>5. QED
    BY <1>5, <2>1, <2>2, <2>3, <2>4 DEF PathInv
<1>11. ReachInv(links)'
  BY <1>2, <1>3, <1>4, <1>6, <1>9 DEF ReachInv
<1>12. TwinInv(links)'
  <2> SUFFICES ASSUME NEW k \in 1..K, NEW j \in stack'[k].left, NEW v \in EndsOf(links, j),
                      v # stack'[k].node, {v} # stack'[k].parent, Followed(links, j, v)'
               PROVE  Twin(links, j)
    BY <1>5 DEF TwinInv, Twin
  <2>1. j \in stack[k].left /\ v # stack[k].node /\ {v} # stack[k].parent
    BY <1>5a, <1>5b
  <2>2. CASE Followed(links, j, v)
    BY <1>2, <2>1, <2>2 DEF TwinInv, K
  <2>3. CASE j = i /\ v = n
    <3>1. stack[k].node \in EndsOf(links, i)
      BY <1>2, <2>1, <2>3, EndsOfLink DEF PathInv, K
    <3>2. stack[k].node = m
      BY <1>3, <2>1, <2>3, <3>1
    <3>3. k = K - 1
      BY <1>2, <1>4, <3>2 DEF PathInv, K
    <3>4. e # i
      BY <1>7, <2>1, <2>3, <3>3
    <3>5. QED
      BY <1>8, <2>3, <3>4 DEF Twin
  <2>4. QED
    BY <1>9, <2>2, <2>3
\* Had the other call not followed the link, there would be three links of its node.
<1>13. ASSUME i \notin stack[1].left
       PROVE  Followed(links, i, m)
  <2>1. ASSUME NEW k \in 1..K, stack[k].node = m, i \in stack[k].left
        PROVE  FALSE
    <3>1. k = K - 1 /\ k # 1
      BY <1>2, <1>4, <1>13, <2>1 DEF PathInv, K
    <3>2. k - 1 \in 1..K
      BY <1>3, <3>1
    <3>3. PICK f \in Meets(links, stack[k - 1].node) \cap Meets(links, m) : TRUE
      BY <1>2, <2>1, <3>1 DEF PathInv, K
    <3>4. stack[k - 1].node # m /\ stack[k - 1].node # n
      <4>1. k - 1 # k /\ k - 1 # K
        BY <1>3, <3>1, <3>2
      <4>2. QED
        BY <1>2, <1>3, <2>1, <3>2, <4>1 DEF PathInv, K, n
    <3>5. f # i /\ f # e
      <4>1. stack[k - 1].node \in EndsOf(links, f)
        BY <3>3, EndsOfLink
      <4>2. stack[k - 1].node \notin EndsOf(links, i)
        BY <1>3, <3>4
      <4>3. QED
        BY <1>8, <4>1, <4>2
    <3>6. e # i
      BY <1>7, <2>1, <3>1
    <3>7. QED
      BY <1>3, <1>7, <3>3, <3>5, <3>6, ThreeLinks
  <2>2. QED
    BY <1>3, <1>4, <2>1 DEF Followed, K
<1>14. NoRingInv(links)'
  <2>1. ASSUME NEW j \in Known(links)' PROVE j \in Known(links)
    <3>1. PICK v : Followed(links, j, v)'
      BY <2>1 DEF Known
    <3>2. stack' # <<>> /\ 1 \in 1..K /\ 1 # K
      BY <1>3, <1>4, <1>5
    <3>3. j \notin stack'[1].left
      BY <2>1, <3>2 DEF Known
    <3>4. j \notin stack[1].left
      BY <1>5c, <3>2, <3>3
    <3>5. \E w : Followed(links, j, w)
      BY <1>9, <1>13, <3>1, <3>4
    <3>6. QED
      BY <2>1, <3>4, <3>5 DEF Known
  <2>2. Known(links)' \subseteq Known(links)
    BY <2>1
  <2>3. QED
    BY <1>2, <2>2 DEF NoRingInv
<1>15. QED
  BY <1>10, <1>11, <1>12, <1>14 DEF SearchInv

LEMMA ReturnKeeps ==
    ASSUME NEW links, Listed(links), SearchInv(links), Return
    PROVE  SearchInv(links)'
<1> DEFINE K == Len(stack)
<1>1. PathInv(links) /\ ReachInv(links) /\ TwinInv(links) /\ NoRingInv(links)
  BY DEF SearchInv
<1>2. /\ K \in Nat \ {0} /\ stack \in Seq(Frames(links))
      /\ stack' \in Seq(Frames(links)) /\ Len(stack') = K - 1
      /\ \A k \in 1..(K - 1) : stack'[k] = stack[k]
  BY <1>1, ReturnedFrames
<1>3. stack[K].left = {} /\ visited' = visited /\ stack' = SubSeq(stack, 1, K - 1)
  BY DEF Return, Top
<1>4. /\ stack' \in Seq(Frames(links)) /\ Len(stack') = K - 1
      /\ \A k \in 1..(K - 1) : stack'[k] = stack[k]
  BY <1>2
<1> HIDE DEF K
<1>5. 1..K = (1..(K - 1)) \cup {K}
  BY <1>2
<1>6. \A j, v : Followed(links, j, v)' <=> Followed(links, j, v)
  BY <1>3, <1>4, <1>5 DEF Followed, K
<1>7. PathInv(links)'
  <2>1. ASSUME NEW k \in 1..(K - 1)
        PROVE  /\ stack'[k].node \in visited' /\ stack'[k].left \subseteq Meets(links, stack'[k].node)
               /\ stack'[k].parent = IF k = 1 THEN {} ELSE {stack'[k - 1].node}
    <3>1. k # 1 => k - 1 \in 1..(K - 1)
      BY <1>2
    <3>2. /\ stack[k].node \in visited /\ stack[k].left \subseteq Meets(links, stack[k].node)
          /\ stack[k].parent = IF k = 1 THEN {} ELSE {stack[k - 1].node}
      BY <1>1, <1>5 DEF PathInv, K
    <3>3. QED
      BY <1>3, <1>4, <3>1, <3>2
  <2>2. ASSUME NEW j \in 1..(K - 1), NEW k \in 1..(K - 1), stack'[j].node = stack'[k].node
        PROVE  j = k
    BY <1>1, <1>4, <1>5, <2>2 DEF PathInv, K
  <2>3. ASSUME NEW k \in 1..(K - 1), k # 1
        PROVE  \E f \in Meets(links, stack'[k - 1].node) \cap Meets(links, stack'[k].node) :
                   f \notin stack'[k - 1].left
    <3>1. k - 1 \in 1..(K - 1)
      BY <1>2, <2>3
    <3>2. \E f \in Meets(links, stack[k - 1].node) \cap Meets(links, stack[k].node) :
                   f \notin stack[k - 1].left
      BY <1>1, <1>5, <2>3 DEF PathInv, K
    <3>3. QED
      BY <1>4, <3>1, <3>2
  <2>4. visited' \subseteq Ends(links)
    BY <1>1, <1>3 DEF PathInv
  <2>5. QED
    BY <1>4, <2>1, <2>2, <2>3, <2>4 DEF PathInv
<1>8. ReachInv(links)'
  BY <1>1, <1>3, <1>6 DEF ReachInv
<1>9. TwinInv(links)'
  <2> SUFFICES ASSUME NEW k \in 1..(K - 1), NEW j \in stack'[k].left, NEW v \in EndsOf(links, j),
                      v # stack'[k].node, {v} # stack'[k].parent, Followed(links, j, v)
               PROVE  Twin(links, j)
    BY <1>4, <1>6 DEF TwinInv, Twin
  <2>1. k \in 1..K /\ stack'[k] = stack[k]
    BY <1>4, <1>5
  <2>2. QED
    BY <1>1, <2>1 DEF TwinInv, K
<1>10. NoRingInv(links)'
  <2>1. ASSUME NEW j \in Known(links)' PROVE j \in Known(links)
    <3>1. j \in Joining(links) /\ \E v : Followed(links, j, v)
      BY <1>6, <2>1 DEF Known
    <3>2. j \notin stack[1].left
      <4>1. CASE K = 1
        BY <1>3, <4>1
      <4>2. CASE K # 1
        <5>1. 1 \in 1..(K - 1) /\ stack' # <<>>
          BY <1>2, <1>4, <4>2
        <5>2. QED
          BY <1>4, <2>1, <5>1 DEF Known
      <4>3. QED
        BY <4>1, <4>2
    <3>3. QED
      BY <3>1, <3>2 DEF Known
  <2>2. Known(links)' \subseteq Known(links)
    BY <2>1
  <2>3. QED
    BY <1>1, <2>2 DEF NoRingInv
<1>11. QED
  BY <1>7, <1>8, <1>9, <1>10 DEF SearchInv

\* The search keeps its invariant, from its beginning on.
LEMMA SearchBegins ==
    ASSUME NEW links, Idle
    PROVE  SearchInv(links)
<1>1. visited = {} /\ stack = <<>> /\ Len(stack) = 0 /\ stack \in Seq(Frames(links))
  BY DEF Idle
<1>2. \A j, v : ~Followed(links, j, v)
  BY <1>1 DEF Followed
<1>3. Known(links) = {}
  BY <1>2 DEF Known
<1>4. \A S \in SUBSET Known(links) : S = {}
  BY <1>3
<1>5. QED
  BY <1>1, <1>2, <1>4 DEF SearchInv, PathInv, ReachInv, TwinInv, NoRingInv, Looped

LEMMA SearchGoesOn ==
    ASSUME NEW links, Listed(links), SearchInv(links), Step(links)
    PROVE  SearchInv(links)'
BY BeginKeeps, DescendKeeps, SkipKeeps, ReturnKeeps DEF Step

-----------------------------------------------------------------------------
(* What the search finds *)

\* A search that ends has followed every link.
LEMMA SearchedWithoutRing ==
    ASSUME NEW links, Listed(links), SearchInv(links), Searched(links)
    PROVE  \A S \in SUBSET Joining(links) : ~Ring(links, S)
<1>1. stack = <<>> /\ Len(stack) = 0 /\ Ends(links) \subseteq visited
  BY DEF Searched
<1>2. ASSUME NEW i \in Joining(links) PROVE i \in Known(links)
  <2>1. i \in Meets(links, links[i].from)
    BY DEF Meets
  <2>2. links[i].from \in visited
    BY <1>1, <2>1, EndsOfLink
  <2>3. Followed(links, i, links[i].from)
    BY <1>1, <2>1, <2>2 DEF Followed
  <2>4. QED
    BY <1>1, <2>3 DEF Known
<1>3. \A S \in SUBSET Joining(links) : S \in SUBSET Known(links)
  BY <1>2
<1>4. QED
  BY <1>3, RingIsLooped DEF SearchInv, NoRingInv

\* The stack is a path, and the link that closes it makes it a ring.
LEMMA ClosedPath ==
    ASSUME NEW links, Listed(links), PathInv(links),
           NEW i, At(i), NEW a \in 1..Len(stack), stack[a].node = Far(links, i),
           {Far(links, i)} # stack[Len(stack)].parent
    PROVE  \E S \in SUBSET Joining(links) : Looped(links, S)
<1> DEFINE K == Len(stack)
           node(k) == stack[k].node
           edge(k) == CHOOSE e \in Joining(links) : EndsOf(links, e) = {node(k), node(k + 1)}
           S == {edge(k) : k \in a..(K - 1)} \cup {i}
<1>1. K \in Nat /\ K \in 1..K /\ i \in Joining(links) /\ EndsOf(links, i) = {node(K), node(a)}
      /\ node(a) # node(K)
  BY LinkAtTop
<1>2. \A j, k \in 1..K : node(j) = node(k) => j = k
  BY DEF PathInv
<1>3. \A k \in 1..K : stack[k].parent = IF k = 1 THEN {} ELSE {node(k - 1)}
  BY DEF PathInv
<1>4. \A k \in 1..K : k # 1 => Meets(links, node(k - 1)) \cap Meets(links, node(k)) # {}
  BY DEF PathInv
<1> HIDE DEF K, node
<1>5. a + 1 < K /\ a \in Nat /\ a >= 1 /\ a <= K
  <2>1. a \in Nat /\ a >= 1 /\ a <= K
    BY <1>1 DEF K
  <2>2. a # K
    BY <1>1
  <2>3. ASSUME a + 1 = K PROVE FALSE
    <3>1. K # 1 /\ K - 1 = a
      BY <2>1, <2>3
    <3>2. stack[K].parent = {node(a)}
      BY <1>1, <1>3, <3>1
    <3>3. QED
      BY <3>2 DEF K, node
  <2>4. QED
    BY <1>1, <2>1, <2>2, <2>3
<1>6. ASSUME NEW k \in a..(K - 1)
      PROVE  /\ k \in 1..K /\ k + 1 \in 1..K
             /\ edge(k) \in Joining(links) /\ EndsOf(links, edge(k)) = {node(k), node(k + 1)}
  <2>1. k \in 1..K /\ k + 1 \in 1..K /\ k + 1 # 1 /\ (k + 1) - 1 = k
    BY <1>1, <1>5
  <2>2. PICK e : e \in Meets(links, node(k)) /\ e \in Meets(links, node(k + 1))
    BY <1>4, <2>1
  <2>3. node(k) # node(k + 1)
    <3>1. k # k + 1
      BY <2>1
    <3>2. QED
      BY <1>2, <2>1, <3>1
  <2>4. e \in Joining(links) /\ EndsOf(links, e) = {node(k), node(k + 1)}
    BY <2>2, <2>3 DEF Meets, EndsOf
  <2>5. QED
    BY <2>1, <2>4
<1> HIDE DEF edge
\* Each node of the path has one link to either side.
<1>7. ASSUME NEW k \in a..K
      PROVE  \E x, y \in Meets(links, node(k)) \cap S : x # y
  <2>1. k \in 1..K /\ a \in 1..K /\ a # K
    BY <1>1, <1>5
  <2>2. CASE k = a
    <3>1. k \in a..(K - 1) /\ k + 1 # K /\ k + 1 # a /\ k + 1 \in 1..K
      BY <1>1, <1>5, <2>2
    <3>2. edge(k) \in Meets(links, node(k)) \cap S
      BY <1>6, <3>1, EndsOfLink
    <3>3. i \in Meets(links, node(k)) \cap S
      BY <1>1, <2>2, EndsOfLink
    <3>4. node(k + 1) # node(K) /\ node(k + 1) # node(a)
      BY <1>1, <1>2, <2>1, <3>1
    <3>5. edge(k) # i
      BY <1>1, <1>6, <3>1, <3>4
    <3>6. QED
      BY <3>2, <3>3, <3>5
  <2>3. CASE k = K
    <3>1. k - 1 \in a..(K - 1) /\ (k - 1) + 1 = k /\ k - 1 # K /\ k - 1 # a /\ k - 1 \in 1..K
      BY <1>1, <1>5, <2>3
    <3>2. edge(k - 1) \in Meets(links, node(k)) \cap S
      BY <1>6, <3>1, EndsOfLink
    <3>3. i \in Meets(links, node(k)) \cap S
      BY <1>1, <2>3, EndsOfLink
    <3>4. node(k - 1) # node(K) /\ node(k - 1) # node(a)
      BY <1>1, <1>2, <2>1, <3>1
    <3>5. edge(k - 1) # i
      BY <1>1, <1>6, <3>1, <3>4
    <3>6. QED
      BY <3>2, <3>3, <3>5
  <2>4. CASE k # a /\ k # K
    <3>1. /\ k - 1 \in a..(K - 1) /\ (k - 1) + 1 = k /\ k \in a..(K - 1)
          /\ k - 1 # k + 1 /\ k - 1 # k /\ k - 1 \in 1..K /\ k + 1 \in 1..K
      BY <1>1, <1>5, <2>4
    <3>2. edge(k - 1) \in Meets(links, node(k)) \cap S
      BY <1>6, <3>1, EndsOfLink
    <3>3. edge(k) \in Meets(links, node(k)) \cap S
      BY <1>6, <3>1, EndsOfLink
    <3>4. node(k - 1) # node(k) /\ node(k - 1) # node(k + 1)
      BY <1>2, <2>1, <3>1
    <3>5. edge(k - 1) # edge(k)
      <4>1. node(k - 1) \in EndsOf(links, edge(k - 1))
        BY <1>6, <3>1
      <4>2. node(k - 1) \notin EndsOf(links, edge(k))
        BY <1>6, <3>1, <3>4
      <4>3. QED
        BY <4>1, <4>2
    <3>6. QED
      BY <3>2, <3>3, <3>5
  <2>5. QED
    BY <2>2, <2>3, <2>4
<1>8. S \in SUBSET Joining(links) /\ S # {}
  BY <1>1, <1>6
<1>9. ASSUME NEW j \in S, NEW n \in EndsOf(links, j)
      PROVE  \E k \in a..K : n = node(k)
  <2>1. CASE j = i
    BY <1>1, <1>5, <2>1
  <2>2. CASE j # i
    <3>1. PICK k \in a..(K - 1) : j = edge(k)
      BY <2>2
    <3>2. k \in a..K /\ k + 1 \in a..K
      BY <1>1, <1>5
    <3>3. QED
      BY <1>6, <3>1, <3>2
  <2>3. QED
    BY <2>1, <2>2
<1>10. Looped(links, S)
  BY <1>7, <1>8, <1>9 DEF Looped
<1>11. QED
  BY <1>8, <1>10

\* An error is raised only about a ring.
LEMMA ClosingARing ==
    ASSUME NEW links, Listed(links), SearchInv(links), Closing(links)
    PROVE  \E S \in SUBSET Joining(links) : Ring(links, S)
<1>1. PICK i \in DOMAIN links :
        At(i) /\ {Far(links, i)} # Top.parent /\ Far(links, i) \in visited
  BY DEF Closing
<1> DEFINE K == Len(stack)
           m == Far(links, i)
<1>2. PathInv(links) /\ TwinInv(links)
  BY DEF SearchInv
<1>3. /\ K \in 1..K /\ i \in Joining(links) /\ i \in stack[K].left
      /\ EndsOf(links, i) = {stack[K].node, m} /\ m # stack[K].node
      /\ i \in Meets(links, m) /\ {m} # stack[K].parent
  BY <1>1, <1>2, LinkAtTop DEF Top
<1>4. CASE \E k \in 1..K : stack[k].node = m
  BY <1>1, <1>2, <1>3, <1>4, ClosedPath, RingIsLooped
<1>5. CASE \A k \in 1..K : stack[k].node # m
  <2>1. Followed(links, i, m)
    BY <1>1, <1>3, <1>5 DEF Followed
  <2>2. PICK e \in Joining(links) : e # i /\ EndsOf(links, e) = EndsOf(links, i)
    BY <1>2, <1>3, <2>1 DEF TwinInv, Twin
  <2>3. Looped(links, {i, e})
    <3>1. ASSUME NEW j \in {i, e}, NEW n \in EndsOf(links, j)
          PROVE  i \in Meets(links, n) /\ e \in Meets(links, n)
      BY <1>3, <2>2, EndsOfLink
    <3>2. QED
      BY <2>2, <3>1 DEF Looped
  <2>4. {i, e} \in SUBSET Joining(links)
    BY <1>3
  <2>5. QED
    BY <2>3, <2>4, RingIsLooped
<1>6. QED
  BY <1>4, <1>5

-----------------------------------------------------------------------------
(* The search ends *)

\* The links that the calls under way are still to follow.
Left(links) == {m \in (1..Len(stack)) \X Joining(links) : m[2] \in stack[m[1]].left}

\* A node that is visited puts a call on the stack and at most two links to follow.
Distance(links) == 4 * Cardinality(Ends(links) \ visited) + Cardinality(Left(links)) + Len(stack)

LEMMA EndsAreFinite ==
    ASSUME NEW links, Listed(links)
    PROVE  IsFiniteSet(Joining(links)) /\ IsFiniteSet(Ends(links))
<1> DEFINE S == Joining(links) \X {1, 2}
           f == [m \in S |-> IF m[2] = 1 THEN links[m[1]].from ELSE links[m[1]].to]
<1>1. IsFiniteSet(Joining(links))
  <2>1. IsFiniteSet(DOMAIN links)
    BY FS_Interval DEF Listed
  <2>2. Joining(links) \in SUBSET (DOMAIN links)
    BY DEF Joining
  <2>3. QED
    BY <2>1, <2>2, FS_Subset
<1>2. IsFiniteSet({1, 2})
  <2>1. IsFiniteSet({1} \cup {2})
    BY FS_Singleton, FS_AddElement
  <2>2. {1, 2} = {1} \cup {2}
    OBVIOUS
  <2>3. QED
    BY <2>1, <2>2
<1>3. IsFiniteSet(S)
  BY <1>1, <1>2, FS_Product
<1>4. f \in [S -> Ends(links)]
  <2>1. \A m \in S : f[m] \in Ends(links)
    BY DEF Ends
  <2>2. QED
    BY <2>1
<1>5. ASSUME NEW n \in Ends(links) PROVE \E m \in S : f[m] = n
  <2>1. PICK i \in Joining(links) : n = links[i].from \/ n = links[i].to
    BY DEF Ends
  <2>2. <<i, 1>> \in S /\ <<i, 2>> \in S
    BY <2>1
  <2>3. f[<<i, 1>>] = links[i].from /\ f[<<i, 2>>] = links[i].to
    BY <2>2
  <2>4. QED
    BY <2>1, <2>2, <2>3
<1> HIDE DEF f, S
<1>6. f \in Surjection(S, Ends(links))
  BY <1>4, <1>5 DEF Surjection
<1>7. QED
  BY <1>1, <1>3, <1>6, FS_Surjection

LEMMA LeftIsFinite ==
    ASSUME NEW links, Listed(links), PathInv(links)
    PROVE  /\ IsFiniteSet(Left(links)) /\ Cardinality(Left(links)) \in Nat
           /\ IsFiniteSet(Ends(links) \ visited) /\ Cardinality(Ends(links) \ visited) \in Nat
<1>1. Len(stack) \in Nat
  BY DEF PathInv
<1>2. IsFiniteSet((1..Len(stack)) \X Joining(links))
  <2>1. IsFiniteSet(1..Len(stack))
    BY <1>1, FS_Interval
  <2>2. IsFiniteSet(Joining(links))
    BY EndsAreFinite
  <2>3. QED
    BY <2>1, <2>2, FS_Product
<1>3. Left(links) \in SUBSET ((1..Len(stack)) \X Joining(links))
  BY DEF Left
<1>4. IsFiniteSet(Left(links))
  BY <1>2, <1>3, FS_Subset
<1>5. IsFiniteSet(Ends(links) \ visited)
  BY EndsAreFinite, FS_Difference
<1>6. QED
  BY <1>4, <1>5, FS_CardinalityType

\* The links that a call of visit finds at its node.
LEMMA LeftOfCall ==
    ASSUME NEW links, Listed(links), NEW k \in Nat, NEW n
    PROVE  /\ IsFiniteSet({k} \X Meets(links, n))
           /\ Cardinality({k} \X Meets(links, n)) \in Nat
           /\ Cardinality({k} \X Meets(links, n)) <= 2
<1>1. IsFiniteSet(Meets(links, n))
  BY MeetsAreFinite DEF Listed
<1>2. IsFiniteSet({k}) /\ Cardinality({k}) = 1
  BY FS_Singleton
<1>3. /\ IsFiniteSet({k} \X Meets(links, n))
      /\ Cardinality({k} \X Meets(links, n)) = 1 * Cardinality(Meets(links, n))
  BY <1>1, <1>2, FS_Product
<1>4. QED
  BY <1>3, MeetsAtMostTwo

LEMMA VisitedOneMore ==
    ASSUME NEW links, Listed(links), NEW n \in Ends(links) \ visited, visited' = visited \cup {n}
    PROVE  /\ Cardinality(Ends(links) \ visited) \in Nat
           /\ Cardinality(Ends(links) \ visited') = Cardinality(Ends(links) \ visited) - 1
<1>1. IsFiniteSet(Ends(links) \ visited)
  BY EndsAreFinite, FS_Difference
<1>2. Ends(links) \ visited' = (Ends(links) \ visited) \ {n}
  OBVIOUS
<1>3. QED
  BY <1>1, <1>2, FS_RemoveElement, FS_CardinalityType

\* The loop on top has one link less to follow.
LEMMA LeftWithout ==
    ASSUME NEW links, Listed(links), PathInv(links), NEW i, At(i)
    PROVE  /\ IsFiniteSet(Left(links) \ {<<Len(stack), i>>})
           /\ Cardinality(Left(links)) \in Nat
           /\ Cardinality(Left(links) \ {<<Len(stack), i>>}) = Cardinality(Left(links)) - 1
<1>1. <<Len(stack), i>> \in Left(links)
  BY LinkAtTop DEF Left
<1>2. QED
  BY <1>1, LeftIsFinite, FS_RemoveElement

LEMMA BeginIsCloser ==
    ASSUME NEW links, Listed(links), PathInv(links), Begin(links)
    PROVE  Distance(links)' < Distance(links)
<1>1. PICK n \in Ends(links) \ visited :
        visited' = visited \cup {n} /\ stack' = <<Visit(links, n, {})>>
  BY DEF Begin
<1>2. /\ Cardinality(Ends(links) \ visited) \in Nat
      /\ Cardinality(Ends(links) \ visited') = Cardinality(Ends(links) \ visited) - 1
  BY <1>1, VisitedOneMore
<1>3. Len(stack) = 0 /\ Cardinality(Left(links)) = 0
  <2>1. stack = <<>> /\ Len(stack) = 0
    BY DEF Begin
  <2>2. Left(links) = {}
    BY <2>1 DEF Left
  <2>3. QED
    BY <2>1, <2>2, FS_EmptySet
<1>4. Len(stack') = 1 /\ Cardinality(Left(links)') \in Nat /\ Cardinality(Left(links)') <= 2
  <2>1. Len(stack') = 1 /\ stack'[1].left = Meets(links, n)
    BY <1>1 DEF Visit
  <2> DEFINE New == {1} \X Meets(links, n)
  <2>2. Left(links)' \in SUBSET New
    BY <2>1 DEF Left
  <2>3. IsFiniteSet(New) /\ Cardinality(New) \in Nat /\ Cardinality(New) <= 2
    BY LeftOfCall
  <2> HIDE DEF New
  <2>4. IsFiniteSet(Left(links)') /\ Cardinality(Left(links)') <= Cardinality(New)
    BY <2>2, <2>3, FS_Subset
  <2>5. QED
    BY <2>1, <2>3, <2>4, FS_CardinalityType
<1>5. Distance(links)' = 4 * Cardinality(Ends(links) \ visited') + Cardinality(Left(links)') + Len(stack')
  BY DEF Distance
<1>6. QED
  BY <1>2, <1>3, <1>4, <1>5 DEF Distance

LEMMA DescendIsCloser ==
    ASSUME NEW links, Listed(links), PathInv(links), Descend(links)
    PROVE  Distance(links)' < Distance(links)
<1> DEFINE K == Len(stack)
<1>1. PICK i \in DOMAIN links :
        /\ At(i) /\ Far(links, i) \notin visited
        /\ visited' = visited \cup {Far(links, i)}
        /\ stack' = Append(Passed(i), Visit(links, Far(links, i), {Top.node}))
  BY DEF Descend
<1> DEFINE m == Far(links, i)
           New == {K + 1} \X Meets(links, m)
           Old == Left(links) \ {<<K, i>>}
<1>2. K \in Nat /\ m \in Ends(links)
  BY <1>1, LinkAtTop
<1>3. /\ Cardinality(Ends(links) \ visited) \in Nat
      /\ Cardinality(Ends(links) \ visited') = Cardinality(Ends(links) \ visited) - 1
  BY <1>1, <1>2, VisitedOneMore
<1>4. /\ Len(stack') = K + 1 /\ SameFrames(K, i) /\ stack'[K + 1].left = Meets(links, m)
  BY <1>1, <1>2, PushedFrames
<1>5. Left(links)' \in SUBSET (Old \cup New)
  <2> SUFFICES ASSUME NEW k \in 1..Len(stack'), NEW j \in Joining(links), j \in stack'[k].left
               PROVE  <<k, j>> \in Old \cup New
    BY DEF Left
  <2>1. CASE k = K + 1
    BY <1>4, <2>1
  <2>2. CASE k \in 1..K
    <3>1. j \in stack[k].left /\ (k # K \/ j # i)
      BY <1>4, <2>2 DEF SameFrames
    <3>2. QED
      BY <2>2, <3>1 DEF Left
  <2>3. QED
    BY <1>2, <1>4, <2>1, <2>2
<1>6. /\ IsFiniteSet(Old) /\ Cardinality(Left(links)) \in Nat
      /\ Cardinality(Old) = Cardinality(Left(links)) - 1
  BY <1>1, LeftWithout
<1>7. IsFiniteSet(New) /\ Cardinality(New) \in Nat /\ Cardinality(New) <= 2
  <2>1. K + 1 \in Nat
    BY <1>2
  <2> HIDE DEF K, m
  <2>2. QED
    BY <2>1, LeftOfCall
<1>8. Cardinality(Left(links)') \in Nat /\ Cardinality(Left(links)') <= Cardinality(Left(links)) + 1
  <2> HIDE DEF Old, New
  <2>1. /\ IsFiniteSet(Old \cup New) /\ Cardinality(Old \cap New) \in Nat
        /\ Cardinality(Old \cup New) = Cardinality(Old) + Cardinality(New) - Cardinality(Old \cap New)
    BY <1>6, <1>7, FS_Union, FS_Intersection, FS_CardinalityType
  <2>2. /\ Cardinality(Left(links)') \in Nat
        /\ Cardinality(Left(links)') <= Cardinality(Old \cup New)
    BY <1>5, <2>1, FS_Subset, FS_CardinalityType
  <2>3. Cardinality(Old \cup New) \in Nat
    BY <2>1, FS_CardinalityType
  <2>4. QED
    BY <1>6, <1>7, <2>1, <2>2, <2>3
<1>9. Distance(links)' = 4 * Cardinality(Ends(links) \ visited') + Cardinality(Left(links)') + Len(stack')
  BY DEF Distance
<1>10. QED
  BY <1>2, <1>3, <1>4, <1>6, <1>8, <1>9 DEF Distance

LEMMA SkipIsCloser ==
    ASSUME NEW links, Listed(links), PathInv(links), Skip(links)
    PROVE  Distance(links)' < Distance(links)
<1> DEFINE K == Len(stack)
<1>1. PICK i \in DOMAIN links : At(i) /\ stack' = Passed(i) /\ visited' = visited
  BY DEF Skip
<1>2. K \in Nat /\ Len(stack') = K /\ SameFrames(K, i)
  BY <1>1, LinkAtTop, SkippedFrames
<1>3. Left(links)' \in SUBSET (Left(links) \ {<<K, i>>})
  <2> SUFFICES ASSUME NEW k \in 1..Len(stack'), NEW j \in Joining(links), j \in stack'[k].left
               PROVE  <<k, j>> \in Left(links) \ {<<K, i>>}
    BY DEF Left
  <2>1. k \in 1..K /\ j \in stack[k].left /\ (k # K \/ j # i)
    BY <1>2 DEF SameFrames
  <2>2. QED
    BY <2>1 DEF Left
<1>4. /\ Cardinality(Left(links)) \in Nat /\ Cardinality(Left(links)') \in Nat
      /\ Cardinality(Left(links)') <= Cardinality(Left(links)) - 1
  <2> DEFINE Old == Left(links) \ {<<K, i>>}
  <2>1. /\ IsFiniteSet(Old) /\ Cardinality(Left(links)) \in Nat
        /\ Cardinality(Old) = Cardinality(Left(links)) - 1
    BY <1>1, LeftWithout
  <2>2. Left(links)' \in SUBSET Old
    BY <1>3
  <2> HIDE DEF Old
  <2>3. IsFiniteSet(Left(links)') /\ Cardinality(Left(links)') <= Cardinality(Old)
    BY <2>1, <2>2, FS_Subset
  <2>4. QED
    BY <2>1, <2>3, FS_CardinalityType
<1>5. Distance(links)' = 4 * Cardinality(Ends(links) \ visited) + Cardinality(Left(links)') + K
  BY <1>1, <1>2 DEF Distance
<1>6. Cardinality(Ends(links) \ visited) \in Nat
  BY LeftIsFinite
<1>7. QED
  BY <1>2, <1>4, <1>5, <1>6 DEF Distance

LEMMA ReturnIsCloser ==
    ASSUME NEW links, Listed(links), PathInv(links), Return
    PROVE  Distance(links)' < Distance(links)
<1> DEFINE K == Len(stack)
<1>1. /\ K \in Nat /\ Len(stack') = K - 1
      /\ \A k \in 1..(K - 1) : stack'[k] = stack[k]
  BY ReturnedFrames
<1>2. visited' = visited
  BY DEF Return
<1>3. Left(links)' \in SUBSET Left(links)
  BY <1>1 DEF Left
<1>4. /\ IsFiniteSet(Left(links)) /\ Cardinality(Left(links)) \in Nat
      /\ Cardinality(Ends(links) \ visited) \in Nat
  BY LeftIsFinite
<1>5. Cardinality(Left(links)') \in Nat /\ Cardinality(Left(links)') <= Cardinality(Left(links))
  BY <1>3, <1>4, FS_Subset, FS_CardinalityType
<1>6. Distance(links)' = 4 * Cardinality(Ends(links) \ visited) + Cardinality(Left(links)') + (K - 1)
  BY <1>1, <1>2 DEF Distance
<1>7. QED
  BY <1>1, <1>4, <1>5, <1>6 DEF Distance

\* Each step of the search brings it closer to its end.
LEMMA StepIsCloser ==
    ASSUME NEW links, Listed(links), SearchInv(links), Step(links)
    PROVE  Distance(links) \in Nat /\ Distance(links)' < Distance(links)
<1>1. PathInv(links)
  BY DEF SearchInv
<1>2. Distance(links) \in Nat
  <2>1. Len(stack) \in Nat
    BY <1>1 DEF PathInv
  <2>2. Cardinality(Left(links)) \in Nat /\ Cardinality(Ends(links) \ visited) \in Nat
    BY <1>1, LeftIsFinite
  <2>3. QED
    BY <2>1, <2>2 DEF Distance
<1>3. QED
  BY <1>1, <1>2, BeginIsCloser, DescendIsCloser, SkipIsCloser, ReturnIsCloser DEF Step

\* The guards of the steps of the search and of its two ends.
Movable(links) ==
    \/ stack = <<>> /\ Ends(links) \ visited # {}
    \/ \E i \in DOMAIN links : At(i) /\ ({Far(links, i)} = Top.parent \/ Far(links, i) \notin visited)
    \/ stack # <<>> /\ Top.left = {}
    \/ Closing(links)
    \/ Searched(links)

\* A loop that has links left has come to one of them.
LEMMA SearchIsMovable ==
    ASSUME NEW links, Listed(links), SearchInv(links)
    PROVE  Movable(links)
<1> SUFFICES ASSUME stack # <<>>, Top.left # {}
             PROVE  \E i \in DOMAIN links : At(i)
  BY DEF Movable, Closing, Searched
<1>1. Top.left \subseteq Meets(links, Top.node)
  <2>1. Len(stack) \in 1..Len(stack)
    BY DEF SearchInv, PathInv
  <2>2. QED
    BY <2>1 DEF SearchInv, PathInv, Top
<1>2. Top.left \subseteq DOMAIN links /\ DOMAIN links = 1..Len(links) /\ Len(links) \in Nat
  BY <1>1 DEF Meets, Joining, Listed
<1>3. PICK a \in Top.left : TRUE
  OBVIOUS
<1>4. CASE Top.left = {a}
  <2>1. At(a)
    BY <1>2, <1>4 DEF At
  <2>2. QED
    BY <1>2, <2>1
<1>5. CASE Top.left # {a}
  <2>1. PICK b \in Top.left : b # a
    BY <1>3, <1>5
  <2>2. \A c \in Top.left : c = a \/ c = b
    BY <1>1, <2>1, ThreeLinks
  <2>3. a \in Nat /\ b \in Nat
    BY <1>2
  <2>4. At(a) \/ At(b)
    BY <2>1, <2>2, <2>3 DEF At
  <2>5. QED
    BY <1>2, <2>4
<1>6. QED
  BY <1>4, <1>5

=============================================================================
