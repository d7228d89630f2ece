---------------------------- MODULE MpackTreeProofs ----------------------------
(***************************************************************************)
(* mpack's node API.  Whatever a message is, however it comes in and        *)
(* whatever fails: the tree frees what it allocated, once; and every node  *)
(* that it hands out is in its pages, belongs to one parent and has a byte *)
(* of the message behind it.  The first needs only the number of pages;    *)
(* the second is the invariant TreeInv, which relates the pages, the stack *)
(* of levels, the nodes and the bytes.  And of the getters, for every tree: *)
(* a number is read by every function whose type has it and by no other, a *)
(* lookup gives the value of the one key there is, and a text is UTF-8.    *)
(***************************************************************************)
EXTENDS MpackTree, MpackNode, TLAPS, WellFoundedInduction, FiniteSetTheorems, SequenceTheorems

\* The list of pages, whatever their sizes are.
IsList(s) == \E S : s \in Seq(S)

LEMMA EmptyList == IsList(<<>>) /\ Len(<<>>) = 0
<1>1. <<>> \in Seq({})
  OBVIOUS
<1>. QED
  BY <1>1 DEF IsList

LEMMA OneList ==
  ASSUME NEW e
  PROVE  IsList(<<e>>) /\ Len(<<e>>) = 1
<1>1. <<e>> \in Seq({e})
  OBVIOUS
<1>. QED
  BY <1>1 DEF IsList

LEMMA LongerList ==
  ASSUME NEW s, NEW e, IsList(s)
  PROVE  IsList(Append(s, e)) /\ Len(Append(s, e)) = Len(s) + 1
<1>1. PICK S : s \in Seq(S)
  BY DEF IsList
<1>2. s \in Seq(S \cup {e})
  BY <1>1
<1>3. Append(s, e) \in Seq(S \cup {e}) /\ Len(Append(s, e)) = Len(s) + 1
  BY <1>2
<1>. QED
  BY <1>3 DEF IsList

LEMMA ListLength ==
  ASSUME NEW s, IsList(s)
  PROVE  Len(s) \in Nat
BY DEF IsList

(***************************************************************************)
(* The inductive invariant: the accounts are right, and a destroyed tree   *)
(* has nothing to free.                                                    *)
(***************************************************************************)
Accounts ==
  /\ IsList(pages) /\ stack_owned \in BOOLEAN
  /\ blocks = Len(pages) + (IF stack_owned THEN 1 ELSE 0)
LeakInv ==
  /\ Accounts
  /\ pc = "destroyed" => pages = <<>> /\ ~stack_owned

LEMMA FreedIsNothing ==
  ASSUME Accounts
  PROVE  Freed = 0
BY ListLength DEF Accounts, Freed

LEMMA SameAccounts ==
  ASSUME LeakInv, UNCHANGED <<pages, stack_owned, blocks>>, pc' # "destroyed"
  PROVE  LeakInv'
BY DEF LeakInv, Accounts

\* Freed, and pages allocated anew.
LEMMA NewAccounts ==
  ASSUME NEW a, IsList(a), LeakInv, pages' = a, blocks' = Freed + Len(a), stack_owned' = FALSE,
         pc' = "destroyed" => a = <<>>
  PROVE  LeakInv'
<1>1. Freed = 0
  BY FreedIsNothing DEF LeakInv
<1>2. Len(a) \in Nat
  BY ListLength
<1>3. blocks' = Len(a)
  BY <1>1, <1>2
<1>4. IsList(pages')
  OBVIOUS
<1>5. stack_owned' \in BOOLEAN
  OBVIOUS
<1>6. blocks' = Len(pages') + (IF stack_owned' THEN 1 ELSE 0)
  BY <1>2, <1>3
<1>7. Accounts'
  BY <1>4, <1>5, <1>6 DEF Accounts
<1>8. pc' = "destroyed" => pages' = <<>> /\ ~stack_owned'
  OBVIOUS
<1>. QED
  BY <1>7, <1>8 DEF LeakInv

LEMMA NothingKept ==
  ASSUME LeakInv, pages' = <<>>, blocks' = Freed, stack_owned' = FALSE
  PROVE  LeakInv'
<1>1. Freed = 0
  BY FreedIsNothing DEF LeakInv
<1>2. IsList(<<>>) /\ Len(<<>>) = 0
  BY EmptyList
<1>3. blocks' = Freed + Len(<<>>)
  BY <1>1, <1>2
<1>. QED
  BY <1>2, <1>3, NewAccounts

LEMMA InitAccounts ==
  ASSUME Init
  PROVE  LeakInv
<1>1. pages = <<>> /\ stack_owned = FALSE /\ blocks = 0 /\ pc = "idle"
  BY DEF Init
<1>2. IsList(pages) /\ Len(pages) = 0
  BY <1>1, EmptyList
<1>3. stack_owned \in BOOLEAN
  BY <1>1
<1>4. blocks = Len(pages) + (IF stack_owned THEN 1 ELSE 0)
  BY <1>1, <1>2
<1>5. Accounts
  BY <1>2, <1>3, <1>4 DEF Accounts
<1>. QED
  BY <1>1, <1>5 DEF LeakInv

LEMMA StartKeeps ==
  ASSUME LeakInv, NEW c, mpack_tree_parse_start(c)
  PROVE  LeakInv'
<1>1. stack_owned' = FALSE
  BY DEF mpack_tree_parse_start
<1>2. CASE NotStarted /\ pc' = "idle"
  <2>1. pages' = <<>> /\ blocks' = Freed
    BY <1>2 DEF NotStarted
  <2>. QED
    BY <1>1, <2>1, NothingKept
<1>3. CASE NoPage
  <2>1. pages' = <<>> /\ blocks' = Freed
    BY <1>3 DEF NoPage
  <2>. QED
    BY <1>1, <2>1, NothingKept
<1>4. CASE Started(0, pool_count, <<>>)
  BY <1>1, <1>4, EmptyList, NewAccounts DEF Started, Goes
<1>5. CASE Started(1, NODES_PER_PAGE, <<NODES_PER_PAGE>>)
  <2>1. IsList(<<NODES_PER_PAGE>>)
    BY OneList
  <2>2. pages' = <<NODES_PER_PAGE>> /\ blocks' = Freed + Len(<<NODES_PER_PAGE>>) /\ pc' = "head"
    BY <1>5 DEF Started, Goes
  <2>. QED
    BY <1>1, <2>1, <2>2, NewAccounts
<1>6. \/ NotStarted /\ pc' = "idle"
      \/ NoPage
      \/ Started(0, pool_count, <<>>)
      \/ Started(1, NODES_PER_PAGE, <<NODES_PER_PAGE>>)
  BY DEF mpack_tree_parse_start, Fails
<1>. QED
  BY <1>2, <1>3, <1>4, <1>5, <1>6

\* A node without children allocates nothing.
LEMMA LeafKeeps ==
  ASSUME LeakInv, ParseHead \/ ParseBytes
  PROVE  LeakInv'
<1>1. UNCHANGED <<pages, stack_owned, blocks>>
  BY DEF ParseHead, ParseBytes
<1>2. pc' # "destroyed"
  <2>1. CASE ParseHead
    BY <2>1 DEF ParseHead, Fails, Goes, Parsed
  <2>2. CASE ParseBytes
    BY <2>2 DEF ParseBytes, Fails, Goes, Parsed
  <2>. QED
    BY <2>1, <2>2
<1>. QED
  BY <1>1, <1>2, SameAccounts

\* A page and a larger stack at most, and each is counted.
LEMMA PushKeeps ==
  ASSUME LeakInv, NEW p, Taken(p), Pushed(p, IF p.page > 0 THEN 1 ELSE 0)
  PROVE  LeakInv'
<1>. DEFINE new == IF p.page > 0 THEN 1 ELSE 0
<1>1. IsList(pages') /\ Len(pages') = Len(pages) + new
  BY LongerList, ListLength DEF Taken, LeakInv, Accounts
<1>2. pc' # "destroyed"
  BY DEF Pushed, Fails, Goes, Parsed
<1>3. Len(pages) \in Nat /\ new \in Nat
  BY ListLength DEF LeakInv, Accounts
<1>4. blocks = Len(pages) + (IF stack_owned THEN 1 ELSE 0) /\ stack_owned \in BOOLEAN
  BY DEF LeakInv, Accounts
<1>5. \/ stack_owned' = stack_owned /\ blocks' = blocks + new
      \/ /\ stack_owned' = (stack_owned \/ StackFull)
         /\ blocks' = blocks + new + (IF StackFull /\ ~stack_owned THEN 1 ELSE 0)
  BY DEF Pushed
<1>. HIDE DEF new
<1>6. CASE stack_owned' = stack_owned /\ blocks' = blocks + new
  <2>1. blocks' = Len(pages') + (IF stack_owned' THEN 1 ELSE 0)
    BY <1>1, <1>3, <1>4, <1>6
  <2>2. Accounts'
    BY <1>1, <1>4, <1>6, <2>1 DEF Accounts
  <2>. QED
    BY <1>2, <2>2 DEF LeakInv
<1>7. CASE /\ stack_owned' = (stack_owned \/ StackFull)
           /\ blocks' = blocks + new + (IF StackFull /\ ~stack_owned THEN 1 ELSE 0)
  <2>1. stack_owned' \in BOOLEAN
    BY <1>7
  <2>2. blocks' = Len(pages') + (IF stack_owned' THEN 1 ELSE 0)
    <3>1. CASE stack_owned
      <4>1. blocks = Len(pages) + 1
        BY <1>4, <3>1
      <4>2. stack_owned' /\ blocks' = blocks + new + 0
        BY <1>7, <3>1
      <4>. QED
        BY <1>1, <1>3, <4>1, <4>2
    <3>2. CASE ~stack_owned
      <4>1. blocks = Len(pages)
        BY <1>3, <1>4, <3>2
      <4>2. CASE StackFull
        <5>1. stack_owned' /\ blocks' = blocks + new + 1
          BY <1>7, <4>2, <3>2
        <5>. QED
          BY <1>1, <1>3, <4>1, <5>1
      <4>3. CASE ~StackFull
        <5>1. ~stack_owned' /\ blocks' = blocks + new + 0
          BY <1>7, <4>3, <3>2
        <5>. QED
          BY <1>1, <1>3, <4>1, <5>1
      <4>. QED
        BY <4>2, <4>3
    <3>. QED
      BY <3>1, <3>2
  <2>3. Accounts'
    BY <1>1, <2>1, <2>2 DEF Accounts
  <2>. QED
    BY <1>2, <2>3 DEF LeakInv
<1>. QED
  BY <1>5, <1>6, <1>7

LEMMA ChildrenKeep ==
  ASSUME LeakInv, ParseChildren
  PROVE  LeakInv'
<1>1. CASE Taken(Placed) /\ Pushed(Placed, IF Placed.page > 0 THEN 1 ELSE 0)
  BY <1>1, PushKeeps
<1>2. CASE UNCHANGED <<pages, stack_owned, blocks>> /\ pc' = "idle"
  BY <1>2, SameAccounts
<1>3. \/ Taken(Placed) /\ Pushed(Placed, IF Placed.page > 0 THEN 1 ELSE 0)
      \/ UNCHANGED <<pages, stack_owned, blocks>> /\ pc' = "idle"
  BY DEF ParseChildren, Unplaced, Fails
<1>. QED
  BY <1>1, <1>2, <1>3

LEMMA StepKeeps ==
  ASSUME LeakInv, [Next]_vars
  PROVE  LeakInv'
<1>1. CASE \E c \in ParseCalls : mpack_tree_parse_start(c)
  BY <1>1, StartKeeps
<1>2. CASE Resume
  BY <1>2, SameAccounts DEF Resume, Goes, parser
<1>3. CASE ParseHead \/ ParseBytes
  BY <1>3, LeafKeeps
<1>4. CASE ParseChildren
  BY <1>4, ChildrenKeep
<1>5. CASE mpack_tree_destroy
  <2>1. pages' = <<>> /\ blocks' = Freed /\ stack_owned' = FALSE
    BY <1>5 DEF mpack_tree_destroy
  <2>. QED
    BY <2>1, NothingKept
<1>6. CASE UNCHANGED vars
  BY <1>6 DEF vars, parser, LeakInv, Accounts
<1>. QED
  BY <1>1, <1>2, <1>3, <1>4, <1>5, <1>6 DEF Next, Node

\* mpack_tree_cleanup: what malloc gave is what is freed, and a destroyed tree has nothing
\* left, in whatever state it was destroyed.
THEOREM TreeFreesAll == Spec => []NothingLeaks
<1>1. Init => LeakInv
  BY InitAccounts
<1>2. LeakInv /\ [Next]_vars => LeakInv'
  BY StepKeeps
<1>3. LeakInv => NothingLeaks
  BY EmptyList DEF LeakInv, Accounts, NothingLeaks
<1>. QED
  BY <1>1, <1>2, <1>3, PTL DEF Spec

(***************************************************************************)
(* Sums along a stack.                                                     *)
(***************************************************************************)
LEMMA Least ==
  ASSUME NEW T \in SUBSET Nat, T # {}
  PROVE  \E m \in T : \A k \in T : m <= k
<1> DEFINE R == {ss \in Nat \X Nat : ss[1] < ss[2]}
<1>1. R = OpToRel(<, Nat)
  BY DEF OpToRel
<1>2. IsWellFoundedOn(R, Nat)
  BY <1>1, NatLessThanWellFounded, Zenon
<1>3. PICK x \in T : \A y \in T : ~ (<<y, x>> \in R)
  BY <1>2, WFMin, Zenon
<1>4. ASSUME NEW y \in T PROVE x <= y
  <2>1. x \in Nat /\ y \in Nat
    OBVIOUS
  <2>2. ~(y < x)
    BY <1>3, <2>1
  <2> QED
    BY <2>1, <2>2
<1> QED
  BY <1>4

\* The sums of the first numbers of v.
Sums(f, v, n) ==
  f = [i \in 0..n |-> IF i = 0 THEN 0 ELSE f[i - 1] + v[i]]

LEMMA SumsExist ==
  ASSUME NEW v, NEW n \in Nat
  PROVE  \E f : Sums(f, v, n)
<1> DEFINE T == {k \in Nat : ~\E f : Sums(f, v, k)}
<1>1. SUFFICES ASSUME T # {} PROVE FALSE
  OBVIOUS
<1>2. PICK m \in T : \A k \in T : m <= k
  BY <1>1, Least, Zenon
<1>3. CASE m = 0
  <2> DEFINE f == [i \in 0..0 |-> 0]
  <2>1. f = [i \in 0..0 |-> IF i = 0 THEN 0 ELSE f[i - 1] + v[i]]
    BY SMT
  <2> HIDE DEF f
  <2>2. Sums(f, v, 0)
    BY <2>1, Zenon DEF Sums
  <2> QED
    BY <1>2, <1>3, <2>2, Zenon
<1>4. CASE m # 0
  <2>1. m \in Nat /\ m - 1 \in Nat /\ ~(m <= m - 1)
    BY <1>2, <1>4, SMT
  <2>2. PICK g : Sums(g, v, m - 1)
    BY <1>2, <2>1, Zenon
  <2> DEFINE f == [i \in 0..m |-> IF i <= m - 1 THEN g[i] ELSE g[m - 1] + v[m]]
  <2>3. g = [i \in 0..(m - 1) |-> IF i = 0 THEN 0 ELSE g[i - 1] + v[i]]
    BY <2>2, Zenon DEF Sums
  <2>4. \A i \in 0..(m - 1) : g[i] = IF i = 0 THEN 0 ELSE g[i - 1] + v[i]
    BY <2>3, Zenon
  <2>5. ASSUME NEW i \in 0..m PROVE f[i] = IF i = 0 THEN 0 ELSE f[i - 1] + v[i]
    <3>1. CASE i = 0
      BY <3>1, <2>1, <2>4, SMT
    <3>2. CASE i # 0 /\ i <= m - 1
      <4>1. i - 1 \in 0..m /\ i - 1 <= m - 1 /\ i \in 0..(m - 1)
        BY <3>2, <2>1, SMT
      <4>2. f[i] = g[i] /\ f[i - 1] = g[i - 1]
        BY <3>2, <4>1, Zenon
      <4>3. g[i] = IF i = 0 THEN 0 ELSE g[i - 1] + v[i]
        BY <2>4, <4>1, Zenon
      <4> QED
        BY <4>2, <4>3, Zenon
    <3>3. CASE i = m
      <4>1. i - 1 \in 0..m /\ i - 1 <= m - 1 /\ ~(i <= m - 1) /\ i - 1 = m - 1
        BY <3>3, <2>1, SMT
      <4>2. f[i] = g[m - 1] + v[m] /\ f[i - 1] = g[m - 1]
        BY <4>1, Zenon
      <4> QED
        BY <4>2, <3>3, <1>4, Zenon
    <3>4. i = 0 \/ i = m \/ (i # 0 /\ i <= m - 1)
      BY <2>1, SMT
    <3> QED
      BY <3>1, <3>2, <3>3, <3>4, Zenon
  <2>6. f = [i \in 0..m |-> f[i]]
    BY Zenon
  <2> HIDE DEF f
  <2>7. f = [i \in 0..m |-> IF i = 0 THEN 0 ELSE f[i - 1] + v[i]]
    BY <2>5, <2>6, Zenon
  <2> QED
    BY <1>2, <2>7, Zenon DEF Sums
<1> QED
  BY <1>3, <1>4, Zenon

\* Sums do not depend on what comes behind.
Both(f, v, n, g, w, k) ==
  n \in Nat /\ k \in 0..n /\ Sums(f, v, n) /\ Sums(g, w, k) /\ \A i \in 1..k : v[i] = w[i]

LEMMA SumsAgree ==
  ASSUME NEW v, NEW w, NEW n, NEW k, NEW f, NEW g, Both(f, v, n, g, w, k)
  PROVE  f[k] = g[k]
<1>0. n \in Nat /\ k \in 0..n /\ Sums(f, v, n) /\ Sums(g, w, k) /\ \A i \in 1..k : v[i] = w[i]
  BY Zenon DEF Both
<1> USE <1>0
<1> DEFINE T == {i \in 0..k : f[i] # g[i]}
<1>1. SUFFICES ASSUME T # {} PROVE FALSE
  <2>1. k \in 0..k
    BY SMT
  <2> QED
    BY <1>1, <2>1, Zenon
<1>2. T \in SUBSET Nat
  BY SMT
<1>3. PICK m \in T : \A i \in T : m <= i
  BY <1>1, <1>2, Least, Zenon
<1>4. m \in 0..k /\ m \in 0..n /\ m \in Nat /\ f[m] # g[m]
  BY <1>3, SMT
<1>5. /\ f[m] = IF m = 0 THEN 0 ELSE f[m - 1] + v[m]
      /\ g[m] = IF m = 0 THEN 0 ELSE g[m - 1] + w[m]
  BY <1>4, Zenon DEF Sums
<1>6. m # 0
  BY <1>4, <1>5, Zenon
<1>7. m - 1 \in 0..k /\ m \in 1..k /\ ~(m <= m - 1)
  BY <1>4, <1>6, SMT
<1>8. f[m - 1] = g[m - 1]
  BY <1>3, <1>7, Zenon
<1> QED
  BY <1>4, <1>5, <1>6, <1>7, <1>8, Zenon

Lefts(s) == [i \in 1..Len(s) |-> s[i].left]

LEMMA PendingSums ==
  ASSUME NEW s, Len(s) \in Nat
  PROVE  \E f : /\ f = [i \in 0..Len(s) |-> IF i = 0 THEN 0 ELSE f[i - 1] + s[i].left]
                /\ Pending(s) = f[Len(s)]
<1> DEFINE upto[i \in 0..Len(s)] == IF i = 0 THEN 0 ELSE upto[i - 1] + s[i].left
<1>1. PICK f : Sums(f, Lefts(s), Len(s))
  BY SumsExist, Zenon
<1>2. f = [i \in 0..Len(s) |-> IF i = 0 THEN 0 ELSE f[i - 1] + s[i].left]
  <2>1. f = [i \in 0..Len(s) |-> IF i = 0 THEN 0 ELSE f[i - 1] + Lefts(s)[i]]
    BY <1>1, Zenon DEF Sums
  <2>2. \A i \in 0..Len(s) : i # 0 => i \in 1..Len(s)
    BY SMT
  <2>3. \A i \in 1..Len(s) : Lefts(s)[i] = s[i].left
    BY Zenon DEF Lefts
  <2>4. \A i \in 0..Len(s) : (IF i = 0 THEN 0 ELSE f[i - 1] + Lefts(s)[i]) = (IF i = 0 THEN 0 ELSE f[i - 1] + s[i].left)
    BY <2>2, <2>3, Zenon
  <2> QED
    BY <2>1, <2>4, Zenon
<1>3. upto = [i \in 0..Len(s) |-> IF i = 0 THEN 0 ELSE upto[i - 1] + s[i].left]
  BY <1>2, Zenon DEF upto
<1>4. Pending(s) = upto[Len(s)]
  BY Zenon DEF Pending, upto
<1> QED
  BY <1>3, <1>4, Zenon

Level == [child : Nat \X Nat, left : Nat]

LEMMA SumsType ==
  ASSUME NEW v, NEW n \in Nat, NEW f, Sums(f, v, n), \A i \in 1..n : v[i] \in Nat
  PROVE  f[0] = 0 /\ \A i \in 0..n : f[i] \in Nat
<1> DEFINE T == {i \in 0..n : f[i] \notin Nat}
<1>1. 0 \in 0..n /\ f[0] = 0
  BY SMT DEF Sums
<1>2. SUFFICES ASSUME T # {} PROVE FALSE
  BY <1>1, Zenon
<1>3. T \in SUBSET Nat
  BY SMT
<1>4. PICK m \in T : \A i \in T : m <= i
  BY <1>2, <1>3, Least, Zenon
<1>5. m \in 0..n /\ f[m] \notin Nat /\ f[m] = IF m = 0 THEN 0 ELSE f[m - 1] + v[m]
  BY <1>4, Zenon DEF Sums
<1>6. m # 0
  BY <1>5, SMT
<1>7. m - 1 \in 0..n /\ m \in 1..n /\ ~(m <= m - 1)
  BY <1>5, <1>6, SMT
<1>8. f[m - 1] \in Nat
  BY <1>4, <1>7, Zenon
<1> QED
  BY <1>5, <1>6, <1>7, <1>8, SMT

\* Zeros add nothing.
Idles(f, v, n, k) ==
  /\ n \in Nat /\ k \in 0..n /\ Sums(f, v, n)
  /\ \A i \in 1..n : v[i] \in Nat
  /\ \A i \in (k + 1)..n : v[i] = 0

LEMMA SumsStay ==
  ASSUME NEW v, NEW n, NEW f, NEW k, Idles(f, v, n, k)
  PROVE  f[n] = f[k]
<1>0. /\ n \in Nat /\ k \in 0..n /\ Sums(f, v, n)
      /\ \A i \in 1..n : v[i] \in Nat
      /\ \A i \in (k + 1)..n : v[i] = 0
  BY Zenon DEF Idles
<1> USE <1>0
<1> DEFINE T == {i \in k..n : f[i] # f[k]}
<1>1. SUFFICES ASSUME T # {} PROVE FALSE
  <2>1. n \in k..n
    BY SMT
  <2> QED
    BY <1>1, <2>1, Zenon
<1>2. T \in SUBSET Nat
  BY SMT
<1>3. PICK m \in T : \A i \in T : m <= i
  BY <1>1, <1>2, Least, Zenon
<1>4. m \in k..n /\ f[m] # f[k]
  BY <1>3, Zenon
<1>5. m # k
  BY <1>4, Zenon
<1>6. m \in 0..n /\ m # 0 /\ m - 1 \in k..n /\ m - 1 \in 0..n /\ m \in (k + 1)..n /\ ~(m <= m - 1)
  BY <1>4, <1>5, SMT
<1>7. f[m] = f[m - 1] + v[m]
  BY <1>6, Zenon DEF Sums
<1>8. f[m - 1] = f[k]
  BY <1>3, <1>6, Zenon
<1>9. f[m - 1] \in Nat /\ v[m] = 0
  BY <1>6, SumsType, Zenon
<1> QED
  BY <1>4, <1>7, <1>8, <1>9, SMT

LEMMA LevelFields ==
  ASSUME NEW s \in Seq(Level), NEW i \in 1..Len(s)
  PROVE  /\ s[i] \in Level /\ s[i].left \in Nat /\ s[i].child \in Nat \X Nat
         /\ Lefts(s)[i] = s[i].left
<1>1. s[i] \in Level
  BY SMT
<1>2. s[i].left \in Nat /\ s[i].child \in Nat \X Nat
  BY <1>1, Zenon DEF Level
<1> QED
  BY <1>1, <1>2, Zenon DEF Lefts

LEMMA PendingIs ==
  ASSUME NEW s \in Seq(Level)
  PROVE  \E f : Sums(f, Lefts(s), Len(s)) /\ Pending(s) = f[Len(s)]
<1>1. Len(s) \in Nat
  BY SMT
<1>2. PICK f : /\ f = [i \in 0..Len(s) |-> IF i = 0 THEN 0 ELSE f[i - 1] + s[i].left]
               /\ Pending(s) = f[Len(s)]
  BY <1>1, PendingSums, Zenon
<1>3. \A i \in 0..Len(s) : i # 0 => i \in 1..Len(s)
  BY SMT
<1>4. \A i \in 0..Len(s) : i # 0 => Lefts(s)[i] = s[i].left
  BY <1>3, LevelFields, Zenon
<1>5. \A i \in 0..Len(s) : (IF i = 0 THEN 0 ELSE f[i - 1] + Lefts(s)[i])
                         = (IF i = 0 THEN 0 ELSE f[i - 1] + s[i].left)
  BY <1>4, Zenon
<1> QED
  BY <1>2, <1>5, Zenon DEF Sums

LEMMA PendingType ==
  ASSUME NEW s \in Seq(Level)
  PROVE  Pending(s) \in Nat
<1>1. PICK f : Sums(f, Lefts(s), Len(s)) /\ Pending(s) = f[Len(s)]
  BY PendingIs, Zenon
<1>2. Len(s) \in Nat /\ Len(s) \in 0..Len(s)
  BY SMT
<1>3. \A i \in 1..Len(s) : Lefts(s)[i] \in Nat
  BY LevelFields, Zenon
<1> QED
  BY <1>1, <1>2, <1>3, SumsType, Zenon

\* What t adds to the levels it has in common with s, when all that s has more is empty.
LEMMA PendingPrefix ==
  ASSUME NEW s \in Seq(Level), NEW t \in Seq(Level), Len(t) <= Len(s),
         \A i \in 1..Len(t) : t[i] = s[i],
         \A i \in (Len(t) + 1)..Len(s) : s[i].left = 0
  PROVE  Pending(t) = Pending(s)
<1>1. PICK f : Sums(f, Lefts(s), Len(s)) /\ Pending(s) = f[Len(s)]
  BY PendingIs, Zenon
<1>2. PICK g : Sums(g, Lefts(t), Len(t)) /\ Pending(t) = g[Len(t)]
  BY PendingIs, Zenon
<1>3. Len(s) \in Nat /\ Len(t) \in Nat /\ Len(t) <= Len(t) /\ Len(t) \in 0..Len(s)
  BY SMT
<1>4. \A i \in 1..Len(s) : Lefts(s)[i] \in Nat /\ Lefts(s)[i] = s[i].left
  BY LevelFields, Zenon
<1>5. \A i \in 1..Len(t) : i \in 1..Len(s)
  BY <1>3, SMT
<1>6. ASSUME NEW i \in 1..Len(t) PROVE Lefts(s)[i] = Lefts(t)[i]
  <2>1. Lefts(t)[i] = t[i].left
    BY LevelFields, Zenon
  <2>2. Lefts(s)[i] = s[i].left
    BY <1>4, <1>5, Zenon
  <2> QED
    BY <2>1, <2>2, Zenon
<1>7. \A i \in (Len(t) + 1)..Len(s) : i \in 1..Len(s)
  <2> DEFINE k == Len(t)
             n == Len(s)
  <2>1. k \in Nat /\ n \in Nat
    BY <1>3, Zenon
  <2> HIDE DEF k, n
  <2>2. \A i \in (k + 1)..n : i \in 1..n
    BY <2>1, SMT
  <2> QED
    BY <2>2, Zenon DEF k, n
<1>8. \A i \in (Len(t) + 1)..Len(s) : Lefts(s)[i] = 0
  BY <1>4, <1>7, Zenon
<1> DEFINE n == Len(s)
           k == Len(t)
           v == Lefts(s)
           w == Lefts(t)
<1>n. /\ n \in Nat /\ k \in 0..n /\ Sums(f, v, n) /\ Sums(g, w, k)
      /\ \A i \in 1..k : v[i] = w[i]
      /\ \A i \in 1..n : v[i] \in Nat
      /\ \A i \in (k + 1)..n : v[i] = 0
  BY <1>1, <1>2, <1>3, <1>4, <1>6, <1>8, Zenon
<1> HIDE DEF n, k, v, w
<1>9. f[k] = g[k]
  <2>1. Both(f, v, n, g, w, k)
    BY <1>n, Zenon DEF Both
  <2> QED
    BY <2>1, SumsAgree, SMT
<1>10. f[n] = f[k]
  <2>1. Idles(f, v, n, k)
    BY <1>n, Zenon DEF Idles
  <2> QED
    BY <2>1, SumsStay, SMT
<1> QED
  BY <1>1, <1>2, <1>9, <1>10, Zenon DEF n, k

\* One level more.
LEMMA PendingMore ==
  ASSUME NEW s \in Seq(Level), NEW t \in Seq(Level), Len(t) = Len(s) + 1,
         \A i \in 1..Len(s) : t[i] = s[i]
  PROVE  Pending(t) = Pending(s) + t[Len(t)].left
<1>1. PICK f : Sums(f, Lefts(s), Len(s)) /\ Pending(s) = f[Len(s)]
  BY PendingIs, Zenon
<1>2. PICK g : Sums(g, Lefts(t), Len(t)) /\ Pending(t) = g[Len(t)]
  BY PendingIs, Zenon
<1> DEFINE n == Len(s)
           m == Len(t)
<1>3. n \in Nat /\ m \in Nat /\ n <= n /\ n <= m /\ m \in 1..m /\ m # 0 /\ m - 1 = n /\ m \in 0..m
  BY SMT
<1>4. \A i \in 1..n : i \in 1..m
  BY <1>3, SMT
<1>5. ASSUME NEW i \in 1..n PROVE Lefts(t)[i] = Lefts(s)[i]
  <2>1. Lefts(s)[i] = s[i].left
    BY LevelFields, Zenon
  <2>2. Lefts(t)[i] = t[i].left
    BY <1>4, LevelFields, Zenon
  <2> QED
    BY <2>1, <2>2, Zenon
<1>6. f[n] = g[n]
  <2> DEFINE v == Lefts(t)
             w == Lefts(s)
  <2>1. /\ m \in Nat /\ n \in 0..m /\ Sums(g, v, m) /\ Sums(f, w, n)
        /\ \A i \in 1..n : v[i] = w[i]
    <3>1. n \in 0..m
      BY <1>3, SMT
    <3> QED
      BY <1>1, <1>2, <1>3, <1>5, <3>1, Zenon
  <2> HIDE DEF n, m, v, w
  <2>2. Both(g, v, m, f, w, n)
    BY <2>1, Zenon DEF Both
  <2>3. g[n] = f[n]
    BY <2>2, SumsAgree, SMT
  <2> QED
    BY <2>3, Zenon
<1>7. g[m] = g[m - 1] + Lefts(t)[m]
  BY <1>2, <1>3, Zenon DEF Sums
<1>8. Lefts(t)[m] = t[m].left
  BY <1>3, LevelFields, Zenon
<1> QED
  BY <1>1, <1>2, <1>3, <1>6, <1>7, <1>8, Zenon

LEMMA PendingNone == Pending(<<>>) = 0
<1>1. <<>> \in Seq(Level) /\ Len(<<>>) = 0
  BY SMT
<1>2. PICK f : Sums(f, Lefts(<<>>), Len(<<>>)) /\ Pending(<<>>) = f[Len(<<>>)]
  BY <1>1, PendingIs, Zenon
<1>3. 0 \in 0..0
  BY SMT
<1>4. f[0] = 0
  BY <1>1, <1>2, <1>3, Zenon DEF Sums
<1> QED
  BY <1>1, <1>2, <1>4, Zenon

LEMMA PendingOne ==
  ASSUME NEW l \in Level
  PROVE  <<l>> \in Seq(Level) /\ Len(<<l>>) = 1 /\ <<l>>[1] = l /\ Pending(<<l>>) = l.left
<1>1. <<>> \in Seq(Level) /\ Len(<<>>) = 0 /\ \A i \in 1..0 : FALSE
  BY SMT
<1>2. <<l>> \in Seq(Level) /\ Len(<<l>>) = 1 /\ <<l>>[1] = l
  BY SMT
<1>3. l.left \in Nat
  BY Zenon DEF Level
<1> DEFINE s == <<>>
           t == <<l>>
<1>4. t \in Seq(Level) /\ Len(t) = Len(s) + 1 /\ s \in Seq(Level)
  BY <1>1, <1>2, SMT
<1>5. \A i \in 1..Len(s) : t[i] = s[i]
  BY <1>1, Zenon
<1>6. Pending(t) = Pending(s) + t[Len(t)].left
  <2> HIDE DEF s, t
  <2> QED
    BY <1>4, <1>5, PendingMore, Zenon
<1>7. Pending(s) = 0
  BY PendingNone, Zenon
<1> QED
  BY <1>2, <1>3, <1>6, <1>7, SMT

LEMMA LastIsMax ==
  ASSUME NEW n \in Nat, NEW S \in SUBSET (1..n), S # {}
  PROVE  Max(S) \in S /\ \A i \in S : i <= Max(S)
<1> DEFINE T == {k \in Nat : n - k \in S}
<1>1. PICK e : e \in S
  OBVIOUS
<1>2. n - e \in Nat /\ n - (n - e) = e
  BY <1>1, SMT
<1>3. T # {} /\ T \in SUBSET Nat
  BY <1>1, <1>2, Zenon
<1>4. PICK m \in T : \A k \in T : m <= k
  BY <1>3, Least, Zenon
<1>5. \A i \in S : n - m >= i
  <2> TAKE i \in S
  <2>1. i \in 1..n /\ n - i \in Nat /\ n - (n - i) = i
    BY SMT
  <2>2. n - i \in T /\ m \in Nat
    BY <2>1, <1>4, Zenon
  <2>3. m <= n - i
    BY <1>4, <2>2, Zenon
  <2> QED
    BY <2>1, <2>2, <2>3, SMT
<1>6. n - m \in S
  BY <1>4, Zenon
<1>7. Max(S) \in S /\ \A y \in S : Max(S) >= y
  BY <1>5, <1>6, Zenon DEF Max
<1> QED
  BY <1>7, SMT

\* The levels that are done go, and what is pending is pending.
LEMMA PoppedKeeps ==
  ASSUME NEW s \in Seq(Level)
  PROVE  /\ Popped(s) \in Seq(Level) /\ Len(Popped(s)) <= Len(s)
         /\ \A i \in 1..Len(Popped(s)) : i \in 1..Len(s) /\ Popped(s)[i] = s[i]
         /\ Popped(s) # <<>> => Len(Popped(s)) \in 1..Len(Popped(s)) /\ Popped(s)[Len(Popped(s))].left > 0
         /\ Pending(Popped(s)) = Pending(s)
<1> DEFINE n == Len(s)
           open == {i \in 1..n : s[i].left > 0}
           p == Popped(s)
<1>1. n \in Nat
  BY SMT
<1>2. CASE open = {}
  <2>1. p = <<>>
    BY <1>2, Zenon DEF Popped
  <2>2. p \in Seq(Level) /\ Len(p) = 0 /\ \A i \in 1..0 : FALSE
    BY <2>1, SMT
  <2>3. \A i \in (Len(p) + 1)..n : s[i].left = 0
    <3> TAKE i \in (Len(p) + 1)..n
    <3>1. i \in 1..n
      BY <2>2, SMT
    <3>2. s[i].left \in Nat /\ ~(s[i].left > 0)
      BY <3>1, <1>2, LevelFields, Zenon
    <3> QED
      BY <3>2, SMT
  <2>4. Len(p) <= n
    BY <1>1, <2>2, SMT
  <2>5. \A i \in 1..Len(p) : i \in 1..n /\ p[i] = s[i]
    BY <2>2, Zenon
  <2>6. Pending(p) = Pending(s)
    BY <2>2, <2>3, <2>4, <2>5, PendingPrefix, Zenon
  <2> QED
    BY <2>1, <2>2, <2>4, <2>5, <2>6, Zenon
<1>3. CASE open # {}
  <2> DEFINE m == Max(open)
  <2>1. m \in open /\ \A i \in open : i <= m
    BY <1>1, <1>3, LastIsMax, Zenon
  <2>2. m \in 1..n /\ s[m].left > 0
    BY <2>1, Zenon
  <2>3. p = SubSeq(s, 1, m)
    BY <1>3, Zenon DEF Popped
  <2> HIDE DEF m
  <2>4. /\ p \in Seq(Level) /\ Len(p) = m
        /\ \A i \in 1..m : p[i] = s[i]
    BY <1>1, <2>2, <2>3, SMT
  <2> HIDE DEF p
  <2>5. \A i \in (Len(p) + 1)..n : s[i].left = 0
    <3> TAKE i \in (Len(p) + 1)..n
    <3>1. i \in 1..n /\ ~(i <= m)
      BY <2>2, <2>4, SMT
    <3>2. s[i].left \in Nat /\ ~(s[i].left > 0)
      BY <3>1, <2>1, LevelFields, Zenon
    <3> QED
      BY <3>2, SMT
  <2>6. Len(p) <= n /\ \A i \in 1..Len(p) : i \in 1..n
    BY <1>1, <2>2, <2>4, SMT
  <2>7. Pending(p) = Pending(s)
    BY <2>4, <2>5, <2>6, PendingPrefix, SMT
  <2>8. Len(p) \in 1..Len(p) /\ p[Len(p)].left > 0
    <3>1. m \in 1..m
      BY <2>2, SMT
    <3> QED
      BY <2>2, <2>4, <3>1, Zenon
  <2> QED
    BY <2>4, <2>6, <2>7, <2>8, Zenon DEF p
<1> QED
  BY <1>2, <1>3, Zenon

LEMMA BlockLess ==
  ASSUME NEW l \in Level, l.left > 0
  PROVE  LET m == [child |-> <<l.child[1], l.child[2] + 1>>, left |-> l.left - 1]
         IN /\ m \in Level /\ m.left = l.left - 1
            /\ Block(m.child, m.left) \subseteq Block(l.child, l.left)
            /\ l.child \in Block(l.child, l.left)
<1> DEFINE m == [child |-> <<l.child[1], l.child[2] + 1>>, left |-> l.left - 1]
<1>1. l.left \in Nat /\ l.child \in Nat \X Nat
  BY Zenon DEF Level
<1>2. PICK a \in Nat, b \in Nat : l.child = <<a, b>>
  BY <1>1, SMT
<1>3. l.child[1] = a /\ l.child[2] = b
  BY <1>2, SMT
<1>4. m = [child |-> <<a, b + 1>>, left |-> l.left - 1]
  BY <1>3, Zenon
<1> DEFINE k == l.left
<1>5. k \in Nat /\ k - 1 \in Nat /\ b + 1 \in Nat
  BY <1>1, <1>2, SMT
<1> HIDE DEF m
<1>6. m \in Level /\ m.left = k - 1 /\ m.child = <<a, b + 1>>
  <2>1. m.left = k - 1 /\ m.child = <<a, b + 1>>
    BY <1>4, SMT
  <2>2. <<a, b + 1>> \in Nat \X Nat
    BY <1>5, Zenon
  <2> QED
    BY <1>4, <1>5, <2>1, <2>2, Zenon DEF Level
<1>7. m.child[1] = a /\ m.child[2] = b + 1
  BY <1>6, SMT
<1> HIDE DEF k
<1>8. ASSUME NEW i \in 0..((k - 1) - 1)
      PROVE  <<a, (b + 1) + i>> \in Block(l.child, k)
  <2>1. i + 1 \in 0..(k - 1) /\ (b + 1) + i = b + (i + 1)
    BY <1>5, SMT
  <2> QED
    BY <2>1, <1>3, Zenon DEF Block
<1>9. Block(m.child, m.left) \subseteq Block(l.child, k)
  BY <1>6, <1>7, <1>8, Zenon DEF Block
<1>10. l.child \in Block(l.child, k)
  <2>1. 0 \in 0..(k - 1) /\ b + 0 = b
    BY <1>5, SMT
  <2> QED
    BY <2>1, <1>2, <1>3, Zenon DEF Block
<1> QED
  BY <1>6, <1>9, <1>10, Zenon DEF m, k

Turned(s, pushed) ==
  LET top == s[Len(s)]
      child == <<top.child[1], top.child[2] + 1>>
  IN Popped(SubSeq(s, 1, Len(s) - 1) \o <<[child |-> child, left |-> top.left - 1]>> \o pushed)

\* One child less is pending, and its own children more; nothing is that was not.
TurnedWell(s, pushed) ==
  LET t == Turned(s, pushed)
  IN /\ t \in Seq(Level) /\ pushed \in Seq(Level)
     /\ Pending(s) - 1 \in Nat /\ Pending(t) = (Pending(s) - 1) + Pending(pushed)
     /\ t # <<>> => t[Len(t)].left > 0
     /\ \A i \in 1..Len(t) :
          \/ \E j \in 1..Len(s) :
               Block(t[i].child, t[i].left) \subseteq Block(s[j].child, s[j].left)
          \/ pushed # <<>> /\ t[i] = pushed[1]

LEMMA TurnKeeps ==
  ASSUME NEW s \in Seq(Level), s # <<>>, s[Len(s)].left > 0,
         NEW pushed, pushed = <<>> \/ \E l \in Level : pushed = <<l>>
  PROVE  TurnedWell(s, pushed)
<1> DEFINE n == Len(s)
           top == s[n]
           m == [child |-> <<top.child[1], top.child[2] + 1>>, left |-> top.left - 1]
           b == SubSeq(s, 1, n - 1)
           q == b \o <<m>>
           x == q \o pushed
           t == Popped(x)
<1>1. n \in Nat /\ n \in 1..n /\ n - 1 \in Nat /\ n = (n - 1) + 1
  BY SMT
<1>2. top \in Level /\ top.left \in Nat
  BY <1>1, LevelFields, Zenon
<1>3. /\ m \in Level /\ m.left = top.left - 1
      /\ Block(m.child, m.left) \subseteq Block(top.child, top.left)
  BY <1>2, BlockLess, Zenon
<1>4. b \in Seq(Level) /\ Len(b) = n - 1 /\ \A i \in 1..(n - 1) : b[i] = s[i] /\ i \in 1..n
  BY <1>1, SMT
<1>5. Pending(s) = Pending(b) + top.left
  <2> HIDE DEF b, n, top
  <2>1. Len(s) = Len(b) + 1 /\ \A i \in 1..Len(b) : s[i] = b[i]
    BY <1>1, <1>4, Zenon DEF n
  <2>2. Pending(s) = Pending(b) + s[Len(s)].left
    BY <1>4, <2>1, PendingMore, Zenon
  <2> QED
    BY <2>2, Zenon DEF top, n
<1> HIDE DEF m, b, top
<1>6. q \in Seq(Level) /\ Len(q) = n /\ q[n] = m /\ \A i \in 1..(n - 1) : q[i] = s[i]
  <2>1. q \in Seq(Level) /\ Len(q) = Len(b) + 1 /\ q[Len(b) + 1] = m /\ \A i \in 1..Len(b) : q[i] = b[i]
    BY <1>3, <1>4, SMT
  <2> QED
    BY <1>1, <1>4, <2>1, Zenon
<1> HIDE DEF q
<1>7. Pending(q) = Pending(b) + m.left
  <2>1. Len(q) = Len(b) + 1 /\ \A i \in 1..Len(b) : q[i] = b[i]
    BY <1>1, <1>4, <1>6, Zenon
  <2>2. Pending(q) = Pending(b) + q[Len(q)].left
    BY <1>4, <1>6, <2>1, PendingMore, Zenon
  <2> QED
    BY <1>6, <2>2, Zenon
<1>8. Pending(b) \in Nat /\ Pending(s) - 1 \in Nat /\ Pending(q) = Pending(s) - 1
  <2>1. Pending(b) \in Nat
    BY <1>4, PendingType, Zenon
  <2>2. top.left > 0
    BY Zenon DEF top, n
  <2> QED
    BY <1>2, <1>3, <1>5, <1>7, <2>1, <2>2, SMT
<1> HIDE DEF n
<1> DEFINE From(i) == \/ i \in 1..(n - 1) /\ x[i] = s[i]
                      \/ x[i] = m
                      \/ pushed # <<>> /\ x[i] = pushed[1]
           Added == /\ x \in Seq(Level) /\ pushed \in Seq(Level)
                    /\ Pending(x) = Pending(q) + Pending(pushed)
                    /\ \A i \in 1..Len(x) : From(i)
<1>9. Added
  <2>1. CASE pushed = <<>>
    <3>1. x = q
      BY <1>6, <2>1, SMT
    <3>2. pushed \in Seq(Level) /\ Pending(pushed) = 0
      BY <2>1, PendingNone, SMT
    <3>3. \A i \in 1..n : i \in 1..(n - 1) \/ i = n
      BY <1>1, SMT
    <3>4. \A i \in 1..Len(x) : From(i)
      BY <1>6, <3>1, <3>3, Zenon
    <3>5. Pending(q) + 0 = Pending(q)
      BY <1>8, SMT
    <3> QED
      BY <1>6, <3>1, <3>2, <3>4, <3>5, Zenon
  <2>2. ASSUME NEW l \in Level, pushed = <<l>>
        PROVE  Added
    <3>1. /\ pushed \in Seq(Level) /\ Len(pushed) = 1 /\ pushed[1] = l /\ Pending(pushed) = l.left
          /\ pushed # <<>>
      <4>1. Len(<<>>) = 0
        BY SMT
      <4> QED
        BY <2>2, <4>1, PendingOne, SMT
    <3>2. x = q \o <<l>>
      BY <2>2, Zenon
    <3> HIDE DEF x
    <3>3. x \in Seq(Level) /\ Len(x) = n + 1 /\ x[n + 1] = l /\ \A i \in 1..n : x[i] = q[i]
      BY <1>6, <3>2, SMT
    <3>4. Pending(x) = Pending(q) + l.left
      <4>1. Pending(x) = Pending(q) + x[Len(x)].left
        BY <1>6, <3>3, PendingMore, Zenon
      <4> QED
        BY <3>3, <4>1, Zenon
    <3>5. \A i \in 1..(n + 1) : \/ i \in 1..n /\ i \in 1..(n - 1)
                                \/ i = n /\ i \in 1..n
                                \/ i = n + 1
      BY <1>1, SMT
    <3>6. ASSUME NEW i \in 1..Len(x)
          PROVE  From(i)
      <4>1. CASE i \in 1..n /\ i \in 1..(n - 1)
        BY <4>1, <1>6, <3>3, Zenon
      <4>2. CASE i = n /\ i \in 1..n
        BY <4>2, <1>6, <3>3, Zenon
      <4>3. CASE i = n + 1
        BY <4>3, <3>1, <3>3, Zenon
      <4> QED
        BY <4>1, <4>2, <4>3, <3>3, <3>5, Zenon
    <3> QED
      BY <3>1, <3>3, <3>4, <3>6, Zenon
  <2> QED
    BY <2>1, <2>2, Zenon
<1> HIDE DEF x
<1>10. /\ t \in Seq(Level) /\ Pending(t) = Pending(x)
       /\ \A i \in 1..Len(t) : i \in 1..Len(x) /\ t[i] = x[i]
       /\ t # <<>> => t[Len(t)].left > 0
  BY <1>9, PoppedKeeps, Zenon
<1>11. t = Turned(s, pushed)
  BY Zenon DEF Turned, x, q, b, m, top, n
<1> HIDE DEF t
<1>12. ASSUME NEW i \in 1..Len(t)
       PROVE  \/ \E j \in 1..Len(s) :
                   Block(t[i].child, t[i].left) \subseteq Block(s[j].child, s[j].left)
              \/ pushed # <<>> /\ t[i] = pushed[1]
  <2>1. CASE i \in 1..(n - 1) /\ t[i] = s[i]
    <3>1. i \in 1..Len(s)
      BY <1>4, <2>1, Zenon DEF n
    <3> QED
      BY <2>1, <3>1, Zenon
  <2>2. CASE t[i] = m
    BY <2>2, <1>1, <1>3, Zenon DEF top, n
  <2> QED
    BY <2>1, <2>2, <1>9, <1>10, Zenon
<1>13. Pending(t) = (Pending(s) - 1) + Pending(pushed)
  BY <1>8, <1>9, <1>10, Zenon
<1> QED
  BY <1>8, <1>9, <1>10, <1>11, <1>12, <1>13, Zenon DEF TurnedWell

(***************************************************************************)
(* The inductive invariant of the tree.                                    *)
(***************************************************************************)
\* What holds in every state, whatever went wrong.
DataOK ==
  /\ source \in Seq(Byte) /\ how \in {"bare", "pool", "data", "stream"}
  /\ max.size \in Nat /\ max.nodes \in Nat /\ max.nodes > 0
  /\ pool_count \in Nat /\ (Pooled => pool_count > 0)
  /\ {base, got, size, capacity} \subseteq Nat /\ base <= got /\ got <= Len(source)
  /\ how = "stream" => got - base <= max.size /\ capacity <= max.size
StatesOK ==
  /\ state \in {"not_started", "in_progress", "parsed"}
  /\ state = "not_started" => size = 0
  /\ pc \in {"idle", "head", "contents", "destroyed"}
  /\ pc \in {"head", "contents"} => state = "in_progress" /\ error = "ok"

\* The node was handed out: its page is there, and it lies before the next one.
Handed(a) ==
  /\ a \in Nat \X Nat
  /\ a[1] <= Len(pages) /\ a[2] < PageSize(a[1])
  /\ a[1] = nodes[1] => a[2] < nodes[2]
PagesOK ==
  /\ pages \in Seq(Nat) /\ (Pooled \/ Len(pages) > 0)
  /\ nodes \in Nat \X Nat /\ nodes[1] <= Len(pages) /\ nodes[2] > 0
  /\ nodes_left \in Nat /\ nodes[2] + nodes_left = PageSize(nodes[1])
StackOK ==
  /\ stack \in Seq(Level)
  /\ \A i \in 1..Len(stack) : \A a \in Block(stack[i].child, stack[i].left) : Handed(a)
  /\ state = "in_progress" => stack # <<>> /\ stack[Len(stack)].left > 0
TreeOK ==
  /\ \A a \in DOMAIN node : Handed(a) /\ \A c \in Children(node[a]) : Handed(c) /\ c # Root
  /\ \A a, b \in DOMAIN node : a # b => Children(node[a]) \cap Children(node[b]) = {}
\* Every node took a byte, and every node to come has one.
CountOK ==
  /\ left \in Nat /\ left = data_length - size - Pending(stack)
  /\ IsFiniteSet(DOMAIN node) /\ Cardinality(DOMAIN node) <= size
  /\ node_count \in Nat /\ node_count <= max.nodes
  /\ Cardinality(DOMAIN node) + Pending(stack) <= node_count
\* The header of the node is there.
HeaderOK ==
  /\ Kind(Here) \in Compound \cup Data /\ ~Reserved(Here) /\ ~Extension(Here)
  /\ reserved = TagSize(Here) - 1 /\ reserved <= left

TreeInv ==
  /\ DataOK /\ StatesOK
  /\ Good => PagesOK /\ StackOK /\ TreeOK /\ CountOK
  /\ pc = "contents" => HeaderOK

(***************************************************************************)
(* What is read.                                                           *)
(***************************************************************************)
LEMMA MinOfTwo ==
  ASSUME NEW a \in Int, NEW b \in Int
  PROVE  Min({a, b}) \in Int /\ Min({a, b}) <= a /\ Min({a, b}) <= b /\ Min({a, b}) \in {a, b}
<1>1. \E x \in {a, b} : \A y \in {a, b} : x <= y
  BY SMT
<1> DEFINE m == CHOOSE x \in {a, b} : \A y \in {a, b} : x <= y
<1>2. m \in {a, b} /\ \A y \in {a, b} : m <= y
  BY <1>1, Zenon
<1>3. m = Min({a, b})
  BY Zenon DEF Min
<1> HIDE DEF m
<1> QED
  BY <1>2, <1>3, SMT

LEMMA MinOfMany ==
  ASSUME NEW S \in SUBSET Nat, S # {}
  PROVE  Min(S) \in S
<1>1. \E x \in S : \A y \in S : x <= y
  BY Least, Zenon
<1> QED
  BY <1>1, Zenon DEF Min

LEMMA GrownFits ==
  ASSUME DataOK, NEW need \in Nat, how = "stream"
  PROVE  Grown(need) \in Nat /\ Grown(need) <= max.size
<1> DEFINE start == IF capacity = 0 THEN BUFFER_SIZE ELSE capacity
           enough == {c \in need..max.size : c % start = 0 /\ c \div start \in {2 ^ k : k \in 0..30}}
<1>1. capacity \in Nat /\ max.size \in Nat /\ capacity <= max.size
  BY Zenon DEF DataOK
<1>2. CASE need <= capacity
  <2>1. ~(need > capacity)
    BY <1>1, <1>2, SMT
  <2>2. Grown(need) = capacity
    BY <1>2, <2>1, Zenon DEF Grown
  <2> QED
    BY <1>1, <2>2, Zenon
<1>3. CASE ~(need <= capacity)
  <2>1. need > capacity
    BY <1>1, <1>3, SMT
  <2>2. CASE enough # {}
    <3>1. Grown(need) = Min(enough)
      BY <1>3, <2>1, <2>2, Zenon DEF Grown
    <3>2. \A c \in enough : c \in need..max.size
      BY Zenon
    <3> HIDE DEF enough
    <3>3. enough \in SUBSET Nat
      BY <1>1, <3>2, SMT
    <3>4. Min(enough) \in need..max.size
      BY <2>2, <3>2, <3>3, MinOfMany, Zenon
    <3> QED
      BY <1>1, <3>1, <3>4, SMT
  <2>3. CASE enough = {}
    <3>1. Grown(need) = max.size
      BY <1>3, <2>3, Zenon DEF Grown
    <3>2. max.size <= max.size
      BY <1>1, SMT
    <3> QED
      BY <1>1, <3>1, <3>2, Zenon
  <2> QED
    BY <2>2, <2>3, Zenon
<1> QED
  BY <1>2, <1>3, Zenon

\* Whatever comes of asking for bytes, what was read is of the source and within the
\* limit, and it is enough when it says so.
LEMMA ReservesGive ==
  ASSUME DataOK, NEW have \in Nat, NEW length \in Nat, NEW need \in Nat, base' \in Nat,
         base' + length <= Len(source), how = "stream" => length <= max.size,
         NEW a \in Reserves(have, length, need)
  PROVE  /\ a.read \in Nat /\ base' + length + a.read <= Len(source)
         /\ a.ok => need <= have + a.read
         /\ a.capacity \in Nat
         /\ how = "stream" => length + a.read <= max.size /\ a.capacity <= max.size
<1> DEFINE c == Grown(length + need)
           rest == Len(source) - base' - length
           enough == (need - have)..Min({c - length, rest})
           short == 0..Min({need - have - 1, rest})
<1>1. /\ capacity \in Nat /\ max.size \in Nat /\ Len(source) \in Nat
      /\ how = "stream" => capacity <= max.size
  BY SMT DEF DataOK
<1>2. ASSUME NEW ok, NEW e, a = Answer(ok, e, 0, capacity), ok => need <= have
      PROVE  /\ a.read \in Nat /\ base' + length + a.read <= Len(source)
             /\ a.ok => need <= have + a.read
             /\ a.capacity \in Nat
             /\ how = "stream" => length + a.read <= max.size /\ a.capacity <= max.size
  <2>1. a.ok = ok /\ a.read = 0 /\ a.capacity = capacity
    BY <1>2, SMT DEF Answer
  <2> QED
    BY <1>1, <1>2, <2>1, SMT
<1>3. CASE need <= have
  <2>1. a = Answer(TRUE, "ok", 0, capacity)
    BY <1>3, Zenon DEF Reserves
  <2> QED
    BY <1>2, <1>3, <2>1, Zenon
<1>4. CASE ~(need <= have) /\ (~HasMalloc \/ length + need > max.size \/ how # "stream")
  <2>1. PICK e : a = Answer(FALSE, e, 0, capacity)
    BY <1>4, Zenon DEF Reserves
  <2> QED
    BY <1>2, <2>1, Zenon
<1>5. CASE ~(need <= have) /\ HasMalloc /\ ~(length + need > max.size) /\ how = "stream"
  <2>1. \/ \E n \in enough : a = Answer(TRUE, "ok", n, c)
        \/ \E n \in short : a = Answer(FALSE, "ok", n, c)
        \/ \E n \in short : a = Answer(FALSE, "io", n, c)
        \/ a = Answer(FALSE, "memory", 0, capacity)
    BY <1>5, Zenon DEF Reserves
  <2>2. length + need \in Nat /\ length + need <= max.size
    BY <1>1, <1>5, SMT
  <2>3. c \in Nat /\ c <= max.size
    BY <1>5, <2>2, GrownFits, Zenon
  <2> HIDE DEF c
  <2>4. /\ c - length \in Int /\ rest \in Int /\ need - have - 1 \in Int
    BY <1>1, <2>3, SMT
  <2> HIDE DEF rest
  <2>5. \A n \in enough : n \in Nat /\ n <= c - length /\ n <= rest /\ need - have <= n
    <3> TAKE n \in enough
    <3>1. /\ Min({c - length, rest}) \in Int /\ Min({c - length, rest}) <= c - length
          /\ Min({c - length, rest}) <= rest
      BY <2>4, MinOfTwo, Zenon
    <3> QED
      BY <1>5, <2>4, <3>1, SMT
  <2>6. \A n \in short : n \in Nat /\ n <= need - have - 1 /\ n <= rest
    <3> TAKE n \in short
    <3>1. /\ Min({need - have - 1, rest}) \in Int /\ Min({need - have - 1, rest}) <= need - have - 1
          /\ Min({need - have - 1, rest}) <= rest
      BY <2>4, MinOfTwo, Zenon
    <3> QED
      BY <2>4, <3>1, SMT
  <2>7. ASSUME NEW ok, NEW e, NEW n \in Nat, a = Answer(ok, e, n, c), n <= rest, length + n <= max.size,
               ok => need <= have + n
        PROVE  /\ a.read \in Nat /\ base' + length + a.read <= Len(source)
               /\ a.ok => need <= have + a.read
               /\ a.capacity \in Nat
               /\ how = "stream" => length + a.read <= max.size /\ a.capacity <= max.size
    <3>1. a.ok = ok /\ a.read = n /\ a.capacity = c
      BY <2>7, SMT DEF Answer
    <3>2. base' + length + n <= Len(source)
      BY <1>1, <2>7, SMT DEF rest
    <3> QED
      BY <2>3, <2>7, <3>1, <3>2, Zenon
  <2>8. ASSUME NEW n \in enough, a = Answer(TRUE, "ok", n, c)
        PROVE  /\ a.read \in Nat /\ base' + length + a.read <= Len(source)
               /\ a.ok => need <= have + a.read
               /\ a.capacity \in Nat
               /\ how = "stream" => length + a.read <= max.size /\ a.capacity <= max.size
    <3>1. n \in Nat /\ n <= c - length /\ n <= rest /\ need - have <= n
      BY <2>5, Zenon
    <3>2. length + n <= max.size /\ need <= have + n
      BY <1>1, <2>3, <3>1, SMT
    <3> QED
      BY <2>7, <2>8, <3>1, <3>2, Zenon
  <2>9. ASSUME NEW n \in short, NEW e, a = Answer(FALSE, e, n, c)
        PROVE  /\ a.read \in Nat /\ base' + length + a.read <= Len(source)
               /\ a.ok => need <= have + a.read
               /\ a.capacity \in Nat
               /\ how = "stream" => length + a.read <= max.size /\ a.capacity <= max.size
    <3>1. n \in Nat /\ n <= need - have - 1 /\ n <= rest
      BY <2>6, Zenon
    <3>2. length + n <= max.size
      BY <1>1, <2>2, <3>1, SMT
    <3> QED
      BY <2>7, <2>9, <3>1, <3>2, Zenon
  <2> QED
    BY <1>2, <2>1, <2>8, <2>9, Zenon
<1> QED
  BY <1>3, <1>4, <1>5, Zenon

(***************************************************************************)
(* A node's header.                                                        *)
(***************************************************************************)
LEMMA HeaderLength ==
  ASSUME NEW b \in Byte, ~Reserved(b), ~Extension(b), Kind(b) \in Compound \cup Data
  PROVE  b < 192 \/ TagSize(b) \in {2, 3, 5}
<1> SUFFICES ASSUME b >= 192, TagSize(b) \notin {2, 3, 5} PROVE FALSE
  BY SMT DEF Byte
<1>1. b \in Int /\ b >= 192 /\ b <= 255 /\ b # 193
  BY SMT DEF Byte, Reserved
<1>2. b \in {192, 194, 195, 203, 207, 211} \/ (b >= 224 /\ b <= 255)
  BY <1>1, SMT DEF TagSize, Extension
<1>3. CASE b = 192
  BY <1>3, SMT DEF Kind, Compound, Data
<1>4. CASE b = 194 \/ b = 195
  BY <1>4, SMT DEF Kind, Compound, Data
<1>5. CASE b = 203
  BY <1>5, SMT DEF Kind, Compound, Data
<1>6. CASE b = 207
  BY <1>6, SMT DEF Kind, Compound, Data
<1>7. CASE b = 211 \/ (b >= 224 /\ b <= 255)
  BY <1>1, <1>7, SMT DEF Kind, Compound, Data
<1> QED
  BY <1>2, <1>3, <1>4, <1>5, <1>6, <1>7, SMT

LEMMA LoadedType ==
  ASSUME NEW b \in Seq(Byte), Len(b) \in {1, 2, 4}
  PROVE  Loaded(b) \in Nat
<1>1. \A i \in 1..Len(b) : b[i] \in Nat
  <2>1. \A i \in 1..Len(b) : b[i] \in Byte
    BY SMT
  <2>2. \A x \in Byte : x \in Nat
    BY SMT DEF Byte
  <2> QED
    BY <2>1, <2>2, Zenon
<1>2. CASE Len(b) = 1
  <2>1. b[1] \in Nat
    BY <1>1, <1>2, SMT
  <2>2. Loaded(b) = b[1]
    BY <1>2, SMT DEF Loaded
  <2> QED
    BY <2>1, <2>2, Zenon
<1>3. CASE Len(b) = 2
  <2>1. b[1] \in Nat /\ b[2] \in Nat
    BY <1>1, <1>3, SMT
  <2>2. Loaded(b) = mpack_load_u16(b[1], b[2])
    BY <1>3, SMT DEF Loaded
  <2>3. mpack_load_u16(b[1], b[2]) \in Nat
    BY <2>1, SMT DEF mpack_load_u16
  <2> QED
    BY <2>2, <2>3, Zenon
<1>4. CASE Len(b) = 4
  <2>1. b[1] \in Nat /\ b[2] \in Nat /\ b[3] \in Nat /\ b[4] \in Nat
    BY <1>1, <1>4, SMT
  <2>2. Loaded(b) = IF b[1] > 0 THEN HUGE ELSE 65536 * b[2] + mpack_load_u16(b[3], b[4])
    BY <1>4, SMT DEF Loaded
  <2>3. mpack_load_u16(b[3], b[4]) \in Nat /\ HUGE \in Nat
    BY <2>1, SMT DEF mpack_load_u16, HUGE
  <2>4. 65536 * b[2] + mpack_load_u16(b[3], b[4]) \in Nat
    BY <2>1, <2>3, SMT
  <2> QED
    BY <2>2, <2>3, <2>4, SMT
<1> QED
  BY <1>2, <1>3, <1>4, SMT

LEMMA LengthType ==
  ASSUME NEW b \in Byte, ~Reserved(b), ~Extension(b), Kind(b) \in Compound \cup Data,
         NEW h \in Seq(Byte), Len(h) = TagSize(b) - 1
  PROVE  Length(b, h) \in Nat
<1>0. b \in Int /\ 0 <= b /\ b <= 255
  BY SMT DEF Byte
<1>1. CASE b >= 128 /\ b <= 159
  <2>0. b \in 128..159
    BY <1>0, <1>1, SMT
  <2>1. ~(b \in 160..191)
    BY <1>0, <1>1, SMT
  <2>2. Length(b, h) = b % 16
    BY <2>0, <2>1, ZenonT(40) DEF Length
  <2> QED
    BY <1>0, <2>2, SMT
<1>2. CASE b >= 160 /\ b <= 191
  <2>0. b \in 160..191
    BY <1>0, <1>2, SMT
  <2>1. ~(b \in 128..159)
    BY <1>0, <1>2, SMT
  <2>2. Length(b, h) = b % 32
    BY <2>0, <2>1, ZenonT(40) DEF Length
  <2> QED
    BY <1>0, <2>2, SMT
<1>3. CASE b < 128 \/ b > 191
  <2>1. b >= 192
    <3> SUFFICES ASSUME b <= 127 PROVE FALSE
      BY <1>0, <1>3, SMT
    <3>1. /\ b \notin 128..143 \cup {222, 223}
          /\ b \notin 144..159 \cup {220, 221}
          /\ b \notin 160..191 \cup 217..219
          /\ b # 192 /\ b \notin {194, 195} /\ b \notin 196..198 /\ b # 202 /\ b # 203
          /\ ~(b \in 208..211 \/ b >= 224)
      BY <1>0, SMT
    <3>2. Kind(b) = "uint"
      BY <1>0, <3>1, ZenonT(40) DEF Kind
    <3> QED
      BY <3>2, SMT DEF Compound, Data
  <2>2. Len(h) \in {1, 2, 4}
    BY <1>0, <2>1, HeaderLength, SMT
  <2>3. ~(b \in 128..159)
    BY <1>0, <2>1, SMT
  <2>4. ~(b \in 160..191)
    BY <1>0, <2>1, SMT
  <2>5. Length(b, h) = Loaded(h)
    BY <2>3, <2>4, Zenon DEF Length
  <2> QED
    BY <2>2, <2>5, LoadedType, Zenon
<1> QED
  BY <1>0, <1>1, <1>2, <1>3, SMT

\* While the tree is being read the next byte is there.
LEMMA HereIsThere ==
  ASSUME DataOK, StackOK, CountOK, state = "in_progress"
  PROVE  /\ base \in Nat /\ got \in Nat /\ size \in Nat /\ left \in Nat
         /\ Pending(stack) \in Nat /\ Pending(stack) - 1 \in Nat
         /\ data_length \in Nat /\ base + data_length = got /\ got <= Len(source) /\ Len(source) \in Nat
         /\ left = data_length - size - Pending(stack)
         /\ base + size + 1 <= got /\ Here \in Byte
         /\ TagSize(Here) \in Nat /\ TagSize(Here) - 1 \in Nat
<1>1. /\ base \in Nat /\ got \in Nat /\ size \in Nat /\ base <= got /\ got <= Len(source)
      /\ source \in Seq(Byte)
  BY Zenon DEF DataOK
<1>2. Len(source) \in Nat
  BY <1>1, SMT
<1>3. left \in Nat /\ left = data_length - size - Pending(stack)
  BY Zenon DEF CountOK
<1>4. stack \in Seq(Level) /\ stack # <<>> /\ stack[Len(stack)].left > 0
  BY Zenon DEF StackOK
<1>5. Pending(stack) \in Nat /\ Pending(stack) - 1 \in Nat
  <2>1. TurnedWell(stack, <<>>)
    BY <1>4, TurnKeeps, Zenon
  <2> QED
    BY <1>4, <2>1, PendingType, Zenon DEF TurnedWell
<1>6. data_length \in Nat /\ base + data_length = got
  BY <1>1, SMT DEF data_length
<1>7. base + size + 1 <= got
  BY <1>1, <1>3, <1>5, <1>6, SMT
<1>8. Here \in Byte
  <2>1. base + size + 1 \in 1..Len(source)
    BY <1>1, <1>2, <1>7, SMT
  <2>2. source[base + size + 1] \in Byte
    BY <1>1, <2>1, SMT
  <2> QED
    BY <2>2, Zenon DEF Here, Load
<1>9. TagSize(Here) \in Nat /\ TagSize(Here) - 1 \in Nat
  BY SMT DEF TagSize
<1> QED
  BY <1>1, <1>2, <1>3, <1>5, <1>6, <1>7, <1>8, <1>9, Zenon

LEMMA LenType ==
  ASSUME DataOK, StackOK, CountOK, HeaderOK, state = "in_progress"
  PROVE  len \in Nat /\ total \in Nat /\ reserved \in Nat
<1>1. /\ base \in Nat /\ got \in Nat /\ size \in Nat /\ left \in Nat
      /\ Pending(stack) \in Nat /\ Pending(stack) - 1 \in Nat
      /\ data_length \in Nat /\ base + data_length = got /\ got <= Len(source) /\ Len(source) \in Nat
      /\ left = data_length - size - Pending(stack)
      /\ Here \in Byte /\ TagSize(Here) \in Nat /\ TagSize(Here) - 1 \in Nat
  BY HereIsThere, Zenon
<1>2. /\ Kind(Here) \in Compound \cup Data /\ ~Reserved(Here) /\ ~Extension(Here)
      /\ reserved = TagSize(Here) - 1 /\ reserved <= left
  BY Zenon DEF HeaderOK
<1> DEFINE n == TagSize(Here)
           p == base + size + 1
<1>3. Header = SubSeq(source, p + 1, p + (n - 1))
  <2>1. base + size + 2 = p + 1 /\ base + size + TagSize(Here) = p + (n - 1)
    BY <1>1, SMT
  <2> QED
    BY <2>1, Zenon DEF Header
<1>4. p \in Nat /\ n - 1 \in Nat /\ p + (n - 1) <= Len(source)
  BY <1>1, <1>2, SMTT(30)
<1> HIDE DEF n, p
<1>5. Header \in Seq(Byte) /\ Len(Header) = n - 1
  <2>1. source \in Seq(Byte)
    BY Zenon DEF DataOK
  <2> QED
    BY <1>3, <1>4, <2>1, SMT
<1>6. len \in Nat
  BY <1>1, <1>2, <1>5, LengthType, Zenon DEF len, n
<1>7. total \in Nat
  BY <1>6, SMT DEF total
<1> QED
  BY <1>1, <1>2, <1>6, <1>7, Zenon

(***************************************************************************)
(* Where the children go.                                                  *)
(***************************************************************************)
LEMMA PlaceFields ==
  ASSUME NEW at, NEW next, NEW rest, NEW page
  PROVE  /\ Place(at, next, rest, page).at = at /\ Place(at, next, rest, page).next = next
         /\ Place(at, next, rest, page).left = rest /\ Place(at, next, rest, page).page = page
BY SMT DEF Place

\* The new block: handed out now and not before.
Fresh(c) == Handed(c)' /\ ~Handed(c) /\ c # Root

LEMMA InBlock ==
  ASSUME NEW k \in Nat, NEW b \in Nat, NEW n \in Nat, NEW c \in Block(<<k, b>>, n)
  PROVE  c \in Nat \X Nat /\ c[1] = k /\ c[2] >= b /\ c[2] < b + n
<1>1. <<k, b>>[1] = k /\ <<k, b>>[2] = b
  BY SMT
<1>2. PICK i \in 0..(n - 1) : c = <<k, b + i>>
  BY <1>1, Zenon DEF Block
<1>3. i \in Nat /\ i < n /\ b + i \in Nat
  BY SMT
<1>4. c[1] = k /\ c[2] = b + i
  BY <1>2, SMT
<1>5. c \in Nat \X Nat
  BY <1>2, <1>3, Zenon
<1> QED
  BY <1>3, <1>4, <1>5, SMT

LEMMA PagesFields ==
  ASSUME PagesOK
  PROVE  /\ pages \in Seq(Nat) /\ Len(pages) \in Nat /\ nodes_left \in Nat
         /\ nodes[1] \in Nat /\ nodes[2] \in Nat /\ nodes = <<nodes[1], nodes[2]>>
         /\ nodes[1] <= Len(pages) /\ nodes[2] > 0
         /\ nodes[2] + nodes_left = PageSize(nodes[1])
BY SMT DEF PagesOK

\* The same page.
LEMMA SamePage ==
  ASSUME DataOK, PagesOK, NEW n \in Nat, n <= nodes_left, pool_count' = pool_count,
         nodes' = <<nodes[1], nodes[2] + n>>, nodes_left' = nodes_left - n, pages' = pages, how' = how
  PROVE  /\ PagesOK'
         /\ \A a : Handed(a) => Handed(a)'
         /\ \A c \in Block(nodes, n) : Fresh(c)
<1>0. PICK k, b : k = nodes[1] /\ b = nodes[2]
  BY Zenon
<1>1. /\ pages \in Seq(Nat) /\ Len(pages) \in Nat /\ nodes_left \in Nat
      /\ k \in Nat /\ b \in Nat /\ nodes = <<k, b>>
      /\ k <= Len(pages) /\ b > 0 /\ b + nodes_left = PageSize(k)
  BY <1>0, PagesFields, Zenon
<1>2. nodes' = <<k, b + n>> /\ (nodes[1])' = k /\ (nodes[2])' = b + n
  BY <1>0, SMT
<1>3. \A j : PageSize(j)' = PageSize(j)
  BY Zenon DEF PageSize
<1>4. b + n \in Nat /\ b + n > 0 /\ nodes_left - n \in Nat /\ (b + n) + (nodes_left - n) = b + nodes_left
  BY <1>1, SMT
<1>5. PagesOK'
  <2>1. <<k, b + n>> \in Nat \X Nat
    BY <1>1, <1>4, Zenon
  <2>2. nodes' \in Nat \X Nat
    BY <1>2, <2>1, Zenon
  <2>3. (Pooled \/ Len(pages) > 0)'
    BY Zenon DEF PagesOK, Pooled
  <2>4. (nodes[2] + nodes_left = PageSize(nodes[1]))'
    <3>1. PageSize(nodes[1])' = PageSize(k)
      BY <1>2, <1>3, Zenon DEF PageSize
    <3> QED
      BY <1>1, <1>2, <1>4, <3>1, Zenon
  <2>5. nodes_left' \in Nat
    BY <1>4, Zenon
  <2>6. nodes'[1] <= Len(pages') /\ nodes'[2] > 0 /\ pages' \in Seq(Nat)
    BY <1>1, <1>2, <1>4, Zenon
  <2> QED
    BY <2>2, <2>3, <2>4, <2>5, <2>6, Zenon DEF PagesOK
<1>6. ASSUME NEW a, Handed(a) PROVE Handed(a)'
  <2>1. a \in Nat \X Nat /\ a[1] <= Len(pages) /\ a[2] < PageSize(a[1]) /\ (a[1] = k => a[2] < b)
    BY <1>0, <1>6, Zenon DEF Handed
  <2>2. a[2] \in Nat
    BY <2>1, SMT
  <2>3. a[1] = k => a[2] < b + n
    BY <1>1, <2>1, <2>2, SMT
  <2>4. a[2] < PageSize(a[1])'
    BY <1>3, <2>1, Zenon
  <2> QED
    BY <1>2, <2>1, <2>3, <2>4, Zenon DEF Handed
<1>7. ASSUME NEW c \in Block(nodes, n) PROVE Fresh(c)
  <2>1. c \in Nat \X Nat /\ c[1] = k /\ c[2] >= b /\ c[2] < b + n
    BY <1>1, InBlock, Zenon
  <2>2. c[2] \in Nat
    BY <2>1, SMT
  <2>3. ~(c[2] < b) /\ c[2] # 0 /\ c[2] < b + nodes_left
    BY <1>1, <2>1, <2>2, SMT
  <2>4. ~Handed(c)
    BY <1>0, <2>1, <2>3, Zenon DEF Handed
  <2>5. c # Root
    <3>1. Root[2] = 0
      BY SMT DEF Root
    <3> QED
      BY <2>3, <3>1, Zenon
  <2>6. Handed(c)'
    <3>1. c[2] < PageSize(c[1])'
      BY <1>1, <1>3, <2>1, <2>3, Zenon
    <3>2. c[1] <= Len(pages')
      BY <1>1, <2>1, Zenon
    <3> QED
      BY <1>2, <2>1, <3>1, <3>2, Zenon DEF Handed
  <2> QED
    BY <2>4, <2>5, <2>6, Zenon DEF Fresh
<1> QED
  BY <1>5, <1>6, <1>7, Zenon

\* A new page of size m for n nodes; further nodes come from it or, when it is the
\* children's own, from the page they came from.
LEMMA NewPage ==
  ASSUME DataOK, PagesOK, NEW n \in Nat, NEW m \in Nat, n <= m, m > 0, ~Pooled,
         pool_count' = pool_count, how' = how, pages' = Append(pages, m),
         \/ nodes' = nodes /\ nodes_left' = nodes_left
         \/ nodes' = <<Len(pages) + 1, n>> /\ nodes_left' = m - n /\ n > 0
  PROVE  /\ PagesOK'
         /\ \A a : Handed(a) => Handed(a)'
         /\ \A c \in Block(<<Len(pages) + 1, 0>>, n) : Fresh(c)
<1>0. PICK k, b, f : k = nodes[1] /\ b = nodes[2] /\ f = Len(pages) + 1
  BY Zenon
<1>1. /\ pages \in Seq(Nat) /\ Len(pages) \in Nat /\ nodes_left \in Nat
      /\ k \in Nat /\ b \in Nat /\ nodes = <<k, b>>
      /\ k <= Len(pages) /\ b > 0 /\ b + nodes_left = PageSize(k)
  BY <1>0, PagesFields, Zenon
<1>2. Len(pages) > 0
  BY Zenon DEF PagesOK
<1>3. f \in Nat /\ ~(f <= Len(pages)) /\ f # 1 /\ f # k /\ f # 0
  BY <1>0, <1>1, <1>2, SMT
<1>4. pages' \in Seq(Nat) /\ Len(pages') = f /\ pages'[f] = m /\ \A j \in 1..Len(pages) : pages'[j] = pages[j]
  BY <1>0, <1>1, SMT
<1>5. ASSUME NEW j \in Nat, j <= Len(pages) PROVE PageSize(j)' = PageSize(j)
  <2>1. j = 0 \/ j \in 1..Len(pages)
    BY <1>1, <1>5, SMT
  <2> QED
    BY <1>4, <2>1, Zenon DEF PageSize
<1>6. PageSize(f)' = m
  BY <1>3, <1>4, Zenon DEF PageSize
<1>7. \/ nodes' = <<k, b>> /\ (nodes[1])' = k /\ (nodes[2])' = b /\ nodes_left' = nodes_left
      \/ nodes' = <<f, n>> /\ (nodes[1])' = f /\ (nodes[2])' = n /\ nodes_left' = m - n /\ n > 0
  <2>1. CASE nodes' = nodes /\ nodes_left' = nodes_left
    BY <1>0, <1>1, <2>1, Zenon
  <2>2. CASE nodes' = <<Len(pages) + 1, n>> /\ nodes_left' = m - n /\ n > 0
    <3>1. nodes' = <<f, n>>
      BY <1>0, <2>2, Zenon
    <3>2. (nodes[1])' = f /\ (nodes[2])' = n
      BY <3>1, SMT
    <3> QED
      BY <2>2, <3>1, <3>2, Zenon
  <2> QED
    BY <2>1, <2>2, Zenon
<1>8. PagesOK'
  <2>1. (Pooled \/ Len(pages) > 0)'
    BY <1>1, <1>2, <1>3, <1>4, SMT
  <2>2. k <= f /\ f <= f
    BY <1>0, <1>1, SMT
  <2>3. CASE nodes' = <<k, b>> /\ (nodes[1])' = k /\ (nodes[2])' = b /\ nodes_left' = nodes_left
    <3>1. PageSize(nodes[1])' = PageSize(k)
      BY <1>1, <1>5, <2>3, Zenon DEF PageSize
    <3> QED
      BY <1>1, <1>4, <2>1, <2>2, <2>3, <3>1, Zenon DEF PagesOK
  <2>4. CASE nodes' = <<f, n>> /\ (nodes[1])' = f /\ (nodes[2])' = n /\ nodes_left' = m - n /\ n > 0
    <3>1. PageSize(nodes[1])' = m
      BY <1>6, <2>4, Zenon DEF PageSize
    <3>2. m - n \in Nat /\ n + (m - n) = m
      BY SMT
    <3> QED
      BY <1>3, <1>4, <2>1, <2>2, <2>4, <3>1, <3>2, Zenon DEF PagesOK
  <2> QED
    BY <1>7, <2>3, <2>4, Zenon
<1>9. ASSUME NEW a, Handed(a) PROVE Handed(a)'
  <2>1. a \in Nat \X Nat /\ a[1] <= Len(pages) /\ a[2] < PageSize(a[1]) /\ (a[1] = k => a[2] < b)
    BY <1>0, <1>9, Zenon DEF Handed
  <2>2. a[1] \in Nat /\ a[1] # f /\ a[1] <= f
    BY <1>1, <1>3, <2>1, <1>0, SMT
  <2>3. a[2] < PageSize(a[1])'
    BY <1>5, <2>1, <2>2, Zenon
  <2>4. (a[1] = nodes[1] => a[2] < nodes[2])'
    BY <1>7, <2>1, <2>2, Zenon
  <2> QED
    BY <1>4, <2>1, <2>2, <2>3, <2>4, Zenon DEF Handed
<1>10. ASSUME NEW c \in Block(<<Len(pages) + 1, 0>>, n) PROVE Fresh(c)
  <2>1. c \in Nat \X Nat /\ c[1] = f /\ c[2] >= 0 /\ c[2] < 0 + n
    <3>1. 0 \in Nat
      BY SMT
    <3> QED
      BY <1>0, <1>3, <3>1, InBlock, Zenon
  <2>2. c[2] \in Nat /\ c[2] < n /\ c[2] < m
    <3>1. c[2] \in Nat
      BY <2>1, SMT
    <3> QED
      BY <2>1, <3>1, SMT
  <2>3. ~Handed(c)
    BY <1>3, <2>1, Zenon DEF Handed
  <2>4. c # Root
    <3>1. Root[1] = 1
      BY SMT DEF Root
    <3> QED
      BY <1>3, <2>1, <3>1, Zenon
  <2>5. Handed(c)'
    <3>1. c[2] < PageSize(c[1])'
      BY <1>6, <2>1, <2>2, Zenon
    <3>2. c[1] <= Len(pages')
      <4>1. f <= f
        BY <1>3, SMT
      <4> QED
        BY <1>4, <2>1, <4>1, Zenon
    <3>3. (c[1] = nodes[1] => c[2] < nodes[2])'
      BY <1>3, <1>7, <2>1, <2>2, Zenon
    <3> QED
      BY <2>1, <3>1, <3>2, <3>3, Zenon DEF Handed
  <2> QED
    BY <2>3, <2>4, <2>5, Zenon DEF Fresh
<1> QED
  BY <1>8, <1>9, <1>10, Zenon

\* Wherever mpack_tree_parse_children puts them, the children's nodes are new ones.
LEMMA PlacedKeeps ==
  ASSUME DataOK, PagesOK, total \in Nat, total <= nodes_left \/ ~Pooled, Taken(Placed),
         pool_count' = pool_count, how' = how
  PROVE  /\ PagesOK' /\ Placed.at \in Nat \X Nat
         /\ \A a : Handed(a) => Handed(a)'
         /\ \A c \in Block(Placed.at, total) : Fresh(c)
<1>1. /\ pages \in Seq(Nat) /\ Len(pages) \in Nat /\ nodes_left \in Nat
      /\ nodes[1] \in Nat /\ nodes[2] \in Nat /\ nodes = <<nodes[1], nodes[2]>>
  BY PagesFields, Zenon
<1>2. NODES_PER_PAGE \in Nat /\ NODES_PER_PAGE > 0
  BY SizesAssumption, SMT
<1>3. /\ nodes' = Placed.next /\ nodes_left' = Placed.left
      /\ pages' = IF Placed.page > 0 THEN Append(pages, Placed.page) ELSE pages
  BY Zenon DEF Taken
<1>4. <<Len(pages) + 1, 0>> \in Nat \X Nat
  BY <1>1, SMT
<1>5. CASE total <= nodes_left
  <2>1. Placed = Place(nodes, <<nodes[1], nodes[2] + total>>, nodes_left - total, 0)
    BY <1>5, Zenon DEF Placed
  <2> HIDE DEF Placed
  <2>2. /\ Placed.at = nodes /\ Placed.next = <<nodes[1], nodes[2] + total>>
        /\ Placed.left = nodes_left - total /\ Placed.page = 0
    BY <2>1, SMT DEF Place
  <2>3. pages' = pages /\ nodes \in Nat \X Nat
    BY <1>3, <2>2, SMT DEF PagesOK
  <2> QED
    BY <1>3, <1>5, <2>2, <2>3, SamePage, Zenon
<1>6. CASE ~(total <= nodes_left) /\ (total > NODES_PER_PAGE \/ nodes_left > NODES_PER_PAGE \div 8)
  <2>1. Placed = Place(<<Len(pages) + 1, 0>>, nodes, nodes_left, total)
    BY <1>6, Zenon DEF Placed
  <2> HIDE DEF Placed
  <2>2. /\ Placed.at = <<Len(pages) + 1, 0>> /\ Placed.next = nodes
        /\ Placed.left = nodes_left /\ Placed.page = total
    BY <2>1, SMT DEF Place
  <2>3. total > 0 /\ total <= total
    BY <1>1, <1>6, SMT
  <2>4. pages' = Append(pages, total) /\ nodes' = nodes /\ nodes_left' = nodes_left
    BY <1>3, <2>2, <2>3, Zenon
  <2> QED
    BY <1>4, <1>6, <2>2, <2>3, <2>4, NewPage, Zenon
<1>7. CASE ~(total <= nodes_left) /\ ~(total > NODES_PER_PAGE \/ nodes_left > NODES_PER_PAGE \div 8)
  <2>1. Placed = Place(<<Len(pages) + 1, 0>>, <<Len(pages) + 1, total>>, NODES_PER_PAGE - total, NODES_PER_PAGE)
    BY <1>7, Zenon DEF Placed
  <2> HIDE DEF Placed
  <2>2. /\ Placed.at = <<Len(pages) + 1, 0>> /\ Placed.next = <<Len(pages) + 1, total>>
        /\ Placed.left = NODES_PER_PAGE - total /\ Placed.page = NODES_PER_PAGE
    BY <2>1, SMT DEF Place
  <2>3. total > 0 /\ total <= NODES_PER_PAGE
    BY <1>1, <1>2, <1>7, SMT
  <2>4. /\ pages' = Append(pages, NODES_PER_PAGE) /\ nodes' = <<Len(pages) + 1, total>>
        /\ nodes_left' = NODES_PER_PAGE - total
    BY <1>2, <1>3, <2>2, Zenon
  <2> QED
    BY <1>2, <1>4, <1>7, <2>2, <2>3, <2>4, NewPage, Zenon
<1> QED
  BY <1>5, <1>6, <1>7, Zenon

\* The bytes that came are in data.
LEMMA DataKept ==
  ASSUME DataOK, UNCHANGED here, size' \in Nat, NEW have \in Nat, NEW need \in Nat,
         NEW a \in Reserves(have, data_length, need), Got(a)
  PROVE  /\ DataOK' /\ a.read \in Nat /\ got' = got + a.read /\ data_length' = data_length + a.read
         /\ a.ok => need <= have + a.read
<1>1. /\ source' = source /\ how' = how /\ pool_count' = pool_count /\ max' = max /\ base' = base
  BY Zenon DEF here, given
<1>2. /\ base \in Nat /\ got \in Nat /\ base <= got /\ got <= Len(source) /\ max.size \in Nat
      /\ how = "stream" => got - base <= max.size
  BY SMT DEF DataOK
<1>3. /\ data_length \in Nat /\ base + data_length = got
  BY <1>2, SMT DEF data_length
<1>4. how = "stream" => data_length <= max.size
  BY <1>2, Zenon DEF data_length
<1>5. /\ a.read \in Nat /\ base' + data_length + a.read <= Len(source)
      /\ a.ok => need <= have + a.read
      /\ a.capacity \in Nat
      /\ how = "stream" => data_length + a.read <= max.size /\ a.capacity <= max.size
  BY <1>1, <1>2, <1>3, <1>4, ReservesGive, Zenon
<1>6. got' = got + a.read /\ capacity' = a.capacity
  BY Zenon DEF Got
<1>7. got' \in Nat /\ base <= got' /\ got' <= Len(source) /\ got' - base = data_length + a.read
  <2>1. Len(source) \in Nat
    BY SMT DEF DataOK
  <2> DEFINE n == a.read
             d == data_length
             l == Len(source)
  <2>2. /\ n \in Nat /\ d \in Nat /\ l \in Nat /\ base \in Nat
        /\ base + d + n <= l /\ got' = got + n /\ base + d = got /\ got \in Nat
    BY <1>1, <1>2, <1>3, <1>5, <1>6, <2>1, Zenon
  <2> HIDE DEF n, d, l
  <2>3. got' \in Nat /\ base <= got' /\ got' <= l /\ got' - base = d + n
    BY <2>2, SMT
  <2> QED
    BY <2>3, Zenon DEF n, d, l
<1>8. data_length' = data_length + a.read
  BY <1>1, <1>7, Zenon DEF data_length
<1>9. DataOK'
  <2>1. /\ source \in Seq(Byte) /\ how \in {"bare", "pool", "data", "stream"}
        /\ max.size \in Nat /\ max.nodes \in Nat /\ max.nodes > 0
        /\ pool_count \in Nat /\ (Pooled => pool_count > 0)
    BY Zenon DEF DataOK
  <2>2. Pooled' = Pooled
    BY <1>1, Zenon DEF Pooled
  <2>3. how = "stream" => got' - base' <= max.size /\ capacity' <= max.size
    BY <1>1, <1>5, <1>6, <1>7, Zenon
  <2>4. {base', got', size', capacity'} \subseteq Nat
    BY <1>1, <1>2, <1>5, <1>6, <1>7, Zenon
  <2> QED
    BY <1>1, <1>7, <2>1, <2>2, <2>3, <2>4, Zenon DEF DataOK
<1> QED
  BY <1>5, <1>6, <1>8, <1>9, Zenon

LEMMA NoBlock ==
  ASSUME NEW at
  PROVE  Block(at, 0) = {}
<1>1. 0..(0 - 1) = {}
  BY SMT
<1> QED
  BY <1>1, Zenon DEF Block

LEMMA NodeFields ==
  ASSUME NEW offset, NEW at
  PROVE  /\ Kind(Here) \in Compound => Children(NodeOf(offset, at)) = Block(at, total)
         /\ Kind(Here) \notin Compound => Children(NodeOf(offset, at)) = Block(at, 0)
<1> DEFINE n == NodeOf(offset, at)
<1>1. n.type = Kind(Here) /\ n.len = len /\ n.children = at
  BY SMT DEF NodeOf
<1> HIDE DEF n
<1>2. "map" # "array"
  BY SMT
<1>3. Children(n) = Block(at, IF Kind(Here) = "map" THEN 2 * len ELSE IF Kind(Here) = "array" THEN len ELSE 0)
  BY <1>1, Zenon DEF Children
<1>4. CASE Kind(Here) = "map"
  BY <1>2, <1>3, <1>4, Zenon DEF total, Compound, n
<1>5. CASE Kind(Here) = "array"
  BY <1>2, <1>3, <1>5, Zenon DEF total, Compound, n
<1>6. CASE Kind(Here) # "map" /\ Kind(Here) # "array"
  BY <1>3, <1>6, Zenon DEF Compound, n
<1> QED
  BY <1>4, <1>5, <1>6, Zenon

\* The node that is done is one more, and no other changes.
LEMMA NodeAdded ==
  ASSUME NEW f, NEW k, NEW n, IsFiniteSet(DOMAIN f)
  PROVE  LET g == [a \in DOMAIN f \cup {k} |-> IF a = k THEN n ELSE f[a]]
         IN /\ DOMAIN g = DOMAIN f \cup {k}
            /\ \A a \in DOMAIN g : (a \in DOMAIN f /\ g[a] = f[a]) \/ (a = k /\ g[a] = n)
            /\ IsFiniteSet(DOMAIN g)
            /\ Cardinality(DOMAIN f) \in Nat /\ Cardinality(DOMAIN g) \in Nat
            /\ Cardinality(DOMAIN g) <= Cardinality(DOMAIN f) + 1
<1> DEFINE g == [a \in DOMAIN f \cup {k} |-> IF a = k THEN n ELSE f[a]]
<1>3. /\ DOMAIN g = DOMAIN f \cup {k}
      /\ \A a \in DOMAIN g : (a \in DOMAIN f /\ g[a] = f[a]) \/ (a = k /\ g[a] = n)
  BY Zenon
<1> HIDE DEF g
<1>4. /\ IsFiniteSet(DOMAIN f \cup {k})
      /\ Cardinality(DOMAIN f \cup {k}) = IF k \in DOMAIN f THEN Cardinality(DOMAIN f)
                                          ELSE Cardinality(DOMAIN f) + 1
  BY FS_AddElement, Zenon
<1>5. Cardinality(DOMAIN f) \in Nat /\ Cardinality(DOMAIN f \cup {k}) \in Nat
  BY <1>4, FS_CardinalityType, Zenon
<1>6. Cardinality(DOMAIN g) <= Cardinality(DOMAIN f) + 1
  BY <1>3, <1>4, <1>5, SMT
<1> QED
  BY <1>3, <1>4, <1>5, <1>6, Zenon DEF g

\* The next level's child is one that was handed out.
LEMMA TopIsHanded ==
  ASSUME StackOK, state = "in_progress"
  PROVE  /\ stack \in Seq(Level) /\ stack # <<>> /\ stack[Len(stack)].left > 0
         /\ Handed(stack[Len(stack)].child)
<1>1. stack \in Seq(Level) /\ stack # <<>> /\ stack[Len(stack)].left > 0
  BY Zenon DEF StackOK
<1>2. Len(stack) \in 1..Len(stack)
  BY <1>1, SMT
<1>3. stack[Len(stack)] \in Level
  BY <1>1, <1>2, LevelFields, Zenon
<1> DEFINE l == stack[Len(stack)]
<1>4. l.child \in Block(l.child, l.left)
  <2> HIDE DEF l
  <2>1. l \in Level /\ l.left > 0
    BY <1>1, <1>3, Zenon DEF l
  <2> QED
    BY <2>1, BlockLess, Zenon
<1> QED
  BY <1>1, <1>2, <1>4, Zenon DEF StackOK

\* The node at the top is done, and its children, if it has any, get nodes that nobody has.
LEMMA ParsedKeeps ==
  ASSUME DataOK, StackOK, TreeOK, CountOK, state = "in_progress", error = "ok",
         NEW n, NEW at \in Nat \X Nat, NEW count \in Nat, NEW pushed,
         pushed = IF count = 0 THEN <<>> ELSE <<[child |-> at, left |-> count]>>,
         Children(n) = Block(at, count),
         Parsed(n, count, pushed),
         NEW more \in Nat, got' = got + more, data_length' = data_length + more,
         reserved' \in Nat, count <= reserved', reserved' <= left + more,
         left' = left + more - reserved', how' = how, max' = max,
         node_count' \in Nat, node_count + count <= node_count', node_count' <= max.nodes,
         \A a : Handed(a) => Handed(a)',
         \A c \in Block(at, count) : Fresh(c)
  PROVE  /\ StackOK' /\ TreeOK' /\ CountOK' /\ StatesOK'
         /\ size' \in Nat /\ pc' # "contents"
<1> DEFINE top == stack[Len(stack)]
           k == top.child
           t == Turned(stack, pushed)
<1>1. /\ stack \in Seq(Level) /\ stack # <<>> /\ top.left > 0 /\ Handed(k)
  BY TopIsHanded, Zenon
<1>2. /\ node' = [a \in DOMAIN node \cup {k} |-> IF a = k THEN n ELSE node[a]]
      /\ size' = size + reserved' + 1 - count
      /\ stack' = t
      /\ \/ t = <<>> /\ state' = "parsed" /\ pc' = "idle" /\ error' = error
         \/ t # <<>> /\ state' = state /\ pc' = "head" /\ error' = error
  BY Zenon DEF Parsed, Turned, Goes
<1>3. \/ pushed = <<>> /\ count = 0
      \/ \E l \in Level : pushed = <<l>> /\ l.child = at /\ l.left = count
  <2>1. CASE count = 0
    BY <2>1, Zenon
  <2>2. CASE count # 0
    <3> DEFINE l == [child |-> at, left |-> count]
    <3>1. l \in Level
      BY Zenon DEF Level
    <3>2. l.child = at /\ l.left = count
      BY SMT
    <3> HIDE DEF l
    <3>3. pushed = <<l>>
      BY <2>2, Zenon DEF l
    <3> QED
      BY <3>1, <3>2, <3>3, Zenon
  <2> QED
    BY <2>1, <2>2, Zenon
<1>4. pushed = <<>> \/ \E l \in Level : pushed = <<l>>
  BY <1>3, Zenon
<1>5. Pending(pushed) = count /\ (pushed # <<>> => pushed[1].child = at /\ pushed[1].left = count)
  <2>1. CASE pushed = <<>> /\ count = 0
    BY <2>1, PendingNone, Zenon
  <2>2. ASSUME NEW l \in Level, pushed = <<l>>, l.child = at, l.left = count
        PROVE  Pending(pushed) = count /\ pushed[1].child = at /\ pushed[1].left = count
    BY <2>2, PendingOne, Zenon
  <2> QED
    BY <1>3, <2>1, <2>2, Zenon
<1>6. /\ t \in Seq(Level)
      /\ Pending(stack) - 1 \in Nat /\ Pending(t) = (Pending(stack) - 1) + Pending(pushed)
      /\ t # <<>> => t[Len(t)].left > 0
      /\ \A i \in 1..Len(t) :
           \/ \E j \in 1..Len(stack) :
                Block(t[i].child, t[i].left) \subseteq Block(stack[j].child, stack[j].left)
           \/ pushed # <<>> /\ t[i] = pushed[1]
  <2>1. TurnedWell(stack, pushed)
    BY <1>1, <1>4, TurnKeeps, Zenon
  <2> QED
    BY <2>1, Zenon DEF TurnedWell
<1> HIDE DEF top, k, t
<1>7. StackOK'
  <2>1. ASSUME NEW i \in 1..Len(t), NEW a \in Block(t[i].child, t[i].left)
        PROVE  Handed(a)'
    <3>1. ASSUME NEW j \in 1..Len(stack),
                 Block(t[i].child, t[i].left) \subseteq Block(stack[j].child, stack[j].left)
          PROVE  Handed(a)'
      <4>1. Handed(a)
        BY <3>1, Zenon DEF StackOK
      <4> QED
        BY <4>1, Zenon
    <3>2. CASE pushed # <<>> /\ t[i] = pushed[1]
      <4>1. a \in Block(at, count)
        BY <1>5, <3>2, Zenon
      <4> QED
        BY <4>1, Zenon DEF Fresh
    <3> QED
      BY <1>6, <3>1, <3>2, Zenon
  <2>2. state' = "in_progress" => t # <<>>
    BY <1>2, SMT
  <2>3. state' = "in_progress" => t # <<>> /\ t[Len(t)].left > 0
    BY <1>6, <2>2, Zenon
  <2> QED
    BY <1>2, <1>6, <2>1, <2>3, Zenon DEF StackOK
<1>8. /\ IsFiniteSet(DOMAIN node) /\ Cardinality(DOMAIN node) <= size
      /\ left \in Nat /\ left = data_length - size - Pending(stack)
      /\ node_count \in Nat /\ node_count <= max.nodes
      /\ Cardinality(DOMAIN node) + Pending(stack) <= node_count
  BY Zenon DEF CountOK
<1>9. /\ DOMAIN node' = DOMAIN node \cup {k}
      /\ \A a \in DOMAIN node' : (a \in DOMAIN node /\ node'[a] = node[a]) \/ (a = k /\ node'[a] = n)
      /\ IsFiniteSet(DOMAIN node')
      /\ Cardinality(DOMAIN node) \in Nat /\ Cardinality(DOMAIN node') \in Nat
      /\ Cardinality(DOMAIN node') <= Cardinality(DOMAIN node) + 1
  BY <1>2, <1>8, NodeAdded, Zenon
<1>10. TreeOK'
  <2>1. \A a \in DOMAIN node : Handed(a) /\ \A c \in Children(node[a]) : Handed(c) /\ c # Root
    BY Zenon DEF TreeOK
  <2>2. Root' = Root
    BY Zenon DEF Root, Pooled
  <2>3. ASSUME NEW a \in DOMAIN node'
        PROVE  Handed(a)' /\ \A c \in Children(node'[a]) : Handed(c)' /\ c # Root
    <3>1. CASE a \in DOMAIN node /\ node'[a] = node[a]
      BY <2>1, <3>1, Zenon
    <3>2. CASE a = k /\ node'[a] = n
      BY <1>1, <3>2, Zenon DEF Fresh
    <3> QED
      BY <1>9, <3>1, <3>2, Zenon
  <2>4. ASSUME NEW a \in DOMAIN node', NEW b \in DOMAIN node', a # b
        PROVE  Children(node'[a]) \cap Children(node'[b]) = {}
    <3>1. CASE a \in DOMAIN node /\ node'[a] = node[a] /\ b \in DOMAIN node /\ node'[b] = node[b]
      BY <2>4, <3>1, Zenon DEF TreeOK
    <3>2. CASE a \in DOMAIN node /\ node'[a] = node[a] /\ node'[b] = n
      BY <2>1, <3>2, Zenon DEF Fresh
    <3>3. CASE b \in DOMAIN node /\ node'[b] = node[b] /\ node'[a] = n
      BY <2>1, <3>3, Zenon DEF Fresh
    <3> QED
      BY <1>9, <2>4, <3>1, <3>2, <3>3, Zenon
  <2> QED
    BY <2>2, <2>3, <2>4, Zenon DEF TreeOK
<1>11. data_length \in Nat /\ size \in Nat
  <2>1. /\ base \in Nat /\ got \in Nat /\ base <= got /\ size \in Nat
    BY Zenon DEF DataOK
  <2> QED
    BY <2>1, SMT DEF data_length
<1>12. size' \in Nat /\ CountOK'
  <2> DEFINE d == data_length
             p == Pending(stack)
             q == Pending(t)
             x == Cardinality(DOMAIN node)
             y == Cardinality(DOMAIN node')
  <2>1. /\ d \in Nat /\ size \in Nat /\ p \in Int /\ p - 1 \in Nat /\ x \in Nat /\ y \in Nat /\ left \in Nat
        /\ left = d - size - p /\ q = (p - 1) + count /\ x <= size /\ x + p <= node_count
        /\ y <= x + 1 /\ size' = size + reserved' + 1 - count
    <3>1. p \in Int
      BY <1>1, PendingType, SMT
    <3> QED
      BY <1>2, <1>5, <1>6, <1>8, <1>9, <1>11, <3>1, Zenon
  <2>2. node_count \in Nat /\ node_count' \in Nat /\ node_count + count <= node_count' /\ node_count' <= max.nodes
    BY <1>8, Zenon
  <2> HIDE DEF d, p, q, x, y
  <2>3. size' \in Nat /\ y <= size'
    <3> DEFINE r == reserved'
    <3>1. r \in Nat /\ count <= r /\ size' = size + r + 1 - count
      BY <2>1, Zenon
    <3> HIDE DEF r
    <3>2. size + r + 1 - count \in Nat /\ y <= size + r + 1 - count
      BY <2>1, <3>1, SMT
    <3> QED
      BY <3>1, <3>2, Zenon
  <2>4. left' \in Nat /\ left' = (d + more) - size' - q
    <3> DEFINE r == reserved'
               l == left
    <3>1. /\ r \in Nat /\ r <= l + more /\ size' = size + r + 1 - count /\ left' = l + more - r
          /\ l \in Nat /\ l = d - size - p
      BY <2>1, Zenon
    <3> HIDE DEF r, l
    <3>2. l + more - r \in Nat /\ l + more - r = (d + more) - (size + r + 1 - count) - q
      BY <2>1, <3>1, SMT
    <3> QED
      BY <3>1, <3>2, Zenon
  <2>5. y + q <= node_count'
    BY <2>1, <2>2, SMT
  <2> QED
    BY <1>2, <1>9, <2>2, <2>3, <2>4, <2>5, Zenon DEF CountOK, d, q, y
<1>13. StatesOK' /\ pc' # "contents"
  <2>1. /\ state' \in {"parsed", "in_progress"} /\ error' = "ok"
        /\ pc' \in {"idle", "head"} /\ (pc' = "head" => state' = "in_progress")
    BY <1>2, SMT
  <2> QED
    BY <2>1, SMT DEF StatesOK
<1> QED
  BY <1>7, <1>10, <1>12, <1>13, Zenon

\* After an error that is one, nothing but the data matters.
LEMMA Stops ==
  ASSUME NEW e, e # "ok", Fails(e)
  PROVE  pc' = "idle" /\ error' # "ok" /\ ~Good'
<1>1. pc' = "idle" /\ error' = e
  BY Zenon DEF Fails, Incomplete
<1> QED
  BY <1>1, Zenon DEF Good

LEMMA SameData ==
  ASSUME DataOK, UNCHANGED <<given, read, base, size>>
  PROVE  DataOK'
<1>1. /\ source' = source /\ how' = how /\ pool_count' = pool_count /\ max' = max /\ base' = base
      /\ got' = got /\ capacity' = capacity /\ size' = size
  BY Zenon DEF given, read
<1> QED
  BY <1>1, Zenon DEF DataOK, Pooled

\* Bytes came, and no node is done.
LEMMA Waits ==
  ASSUME PagesOK, StackOK, TreeOK, CountOK, Unparsed, how' = how, pool_count' = pool_count, max' = max,
         nodes' = nodes, nodes_left' = nodes_left, pages' = pages,
         data_length \in Nat, NEW more \in Nat, data_length' = data_length + more, left' = left + more,
         size \in Nat, node_count' \in Nat, node_count <= node_count', node_count' <= max.nodes
  PROVE  PagesOK' /\ StackOK' /\ TreeOK' /\ CountOK'
<1>1. node' = node /\ size' = size /\ stack' = stack /\ state' = state
  BY Zenon DEF Unparsed
<1>2. \A k : PageSize(k)' = PageSize(k)
  BY Zenon DEF PageSize
<1>3. Pooled' = Pooled /\ Root' = Root
  BY Zenon DEF Pooled, Root
<1>4. PagesOK'
  <2>1. PageSize(nodes[1])' = PageSize(nodes[1])
    BY Zenon DEF PageSize
  <2> QED
    BY <1>3, <2>1, Zenon DEF PagesOK
<1>5. \A a : Handed(a)' = Handed(a)
  BY <1>2, Zenon DEF Handed
<1>6. StackOK'
  BY <1>1, <1>5, Zenon DEF StackOK
<1>7. TreeOK'
  BY <1>1, <1>3, <1>5, Zenon DEF TreeOK
<1>8. CountOK'
  <2>1. /\ left \in Nat /\ left = data_length - size - Pending(stack)
        /\ IsFiniteSet(DOMAIN node) /\ Cardinality(DOMAIN node) <= size
        /\ node_count \in Nat
        /\ Cardinality(DOMAIN node) + Pending(stack) <= node_count
        /\ stack \in Seq(Level)
    BY Zenon DEF CountOK, StackOK
  <2>2. Pending(stack) \in Nat /\ Cardinality(DOMAIN node) \in Nat
    BY <2>1, PendingType, FS_CardinalityType, Zenon
  <2> DEFINE p == Pending(stack)
             x == Cardinality(DOMAIN node)
             d == data_length
             l == left
             c == node_count
             e == node_count'
  <2>3. /\ p \in Nat /\ x \in Nat /\ l \in Nat /\ d \in Nat /\ c \in Nat /\ e \in Nat /\ l = d - size - p
        /\ x + p <= c /\ c <= e
    BY <2>1, <2>2, Zenon
  <2> HIDE DEF p, x, d, l, c, e
  <2>4. l + more \in Nat /\ l + more = (d + more) - size - p
    BY <2>3, SMT
  <2>5. x + p <= e
    BY <2>3, SMT
  <2> QED
    BY <1>1, <2>1, <2>4, <2>5, Zenon DEF CountOK, p, x, d, l, e
<1> QED
  BY <1>4, <1>6, <1>7, <1>8, Zenon

LEMMA OneNode ==
  ASSUME NEW k \in Nat, NEW a \in Block(<<k, 0>>, 1)
  PROVE  a = <<k, 0>>
<1>1. /\ a \in Nat \X Nat /\ a[1] = k /\ a[2] >= 0 /\ a[2] < 0 + 1
  <2>1. 0 \in Nat /\ 1 \in Nat
    BY SMT
  <2> QED
    BY <2>1, InBlock, Zenon
<1> QED
  BY <1>1, SMT

\* The root is the first node of the first page or of the pool.
LEMMA StartedKeeps ==
  ASSUME DataOK', NEW k \in Nat, NEW count \in Nat, count > 0, NEW allocated \in Seq(Nat),
         Started(k, count, allocated), size' = 0, left' = got' - base' - 1, got' - base' - 1 \in Nat,
         error = "ok", k <= Len(allocated), Pooled' \/ Len(allocated) > 0,
         (k = 0 /\ pool_count' = count) \/ (k # 0 /\ allocated[k] = count)
  PROVE  PagesOK' /\ StackOK' /\ TreeOK' /\ CountOK' /\ StatesOK' /\ pc' # "contents"
<1>1. /\ state' = "in_progress" /\ node_count' = 1 /\ pages' = allocated /\ node' = << >>
      /\ nodes' = <<k, 1>> /\ nodes_left' = count - 1 /\ pc' = "head" /\ error' = "ok"
      /\ stack' = <<[child |-> <<k, 0>>, left |-> 1]>>
  BY Zenon DEF Started, Goes
<1>2. (nodes[1])' = k /\ (nodes[2])' = 1
  BY <1>1, SMT
<1>3. PageSize(k)' = count
  BY <1>1, Zenon DEF PageSize
<1>4. count - 1 \in Nat /\ 1 + (count - 1) = count /\ 1 > 0 /\ 1 \in Nat /\ 0 \in Nat /\ 0 < 1 /\ 0 < count
  BY SMT
<1>5. <<k, 0>> \in Nat \X Nat /\ <<k, 1>> \in Nat \X Nat
  BY <1>4, Zenon
<1>6. PagesOK'
  <2>1. PageSize(nodes[1])' = count
    BY <1>2, <1>3, Zenon DEF PageSize
  <2> QED
    BY <1>1, <1>2, <1>4, <1>5, <2>1, Zenon DEF PagesOK
<1>7. Handed(<<k, 0>>)'
  <2>1. <<k, 0>>[1] = k /\ <<k, 0>>[2] = 0
    BY SMT
  <2> QED
    BY <1>1, <1>2, <1>3, <1>4, <1>5, <2>1, Zenon DEF Handed
<1> DEFINE l == [child |-> <<k, 0>>, left |-> 1]
<1>8. l \in Level /\ l.child = <<k, 0>> /\ l.left = 1
  <2>1. l \in Level
    BY <1>4, <1>5, Zenon DEF Level
  <2>2. l.child = <<k, 0>> /\ l.left = 1
    BY SMT
  <2> QED
    BY <2>1, <2>2, Zenon
<1> HIDE DEF l
<1>9. stack' = <<l>>
  BY <1>1, Zenon DEF l
<1>10. <<l>> \in Seq(Level) /\ Len(<<l>>) = 1 /\ <<l>>[1] = l /\ Pending(<<l>>) = 1
  BY <1>8, PendingOne, Zenon
<1>11. StackOK'
  <2>1. ASSUME NEW i \in 1..1, NEW a \in Block(<<l>>[i].child, <<l>>[i].left)
        PROVE  Handed(a)'
    <3>1. i = 1
      BY SMT
    <3>2. a = <<k, 0>>
      BY <1>8, <1>10, <3>1, OneNode, Zenon
    <3> QED
      BY <1>7, <3>2, Zenon
  <2>2. <<l>> # <<>>
    BY SMT
  <2> QED
    BY <1>4, <1>8, <1>9, <1>10, <2>1, <2>2, Zenon DEF StackOK
<1>12. DOMAIN node' = {}
  BY <1>1, SMT
<1>13. TreeOK'
  BY <1>12, Zenon DEF TreeOK
<1>14. CountOK'
  <2>1. IsFiniteSet({}) /\ Cardinality({}) = 0
    BY FS_EmptySet, Zenon
  <2>2. max'.nodes \in Nat /\ max'.nodes > 0
    BY Zenon DEF DataOK
  <2>3. 1 <= max'.nodes /\ 0 + 1 <= 1 /\ 0 <= 0
    BY <2>2, SMT
  <2>4. data_length' = got' - base'
    BY Zenon DEF data_length
  <2>5. left' = data_length' - size' - 1
    <3>1. got' \in Nat /\ base' \in Nat
      BY Zenon DEF DataOK
    <3> QED
      BY <2>4, <3>1, SMT
  <2> QED
    BY <1>1, <1>4, <1>9, <1>10, <1>12, <2>1, <2>3, <2>5, Zenon DEF CountOK
<1>15. StatesOK' /\ pc' # "contents"
  BY <1>1, SMT DEF StatesOK
<1> QED
  BY <1>6, <1>11, <1>13, <1>14, <1>15, Zenon

LEMMA InitTree ==
  ASSUME Init
  PROVE  TreeInv
<1>1. /\ source \in Sources /\ how \in Inits /\ max \in Limits
      /\ pool_count \in IF Pooled THEN Pools ELSE {0}
      /\ error = "ok" /\ state = "not_started" /\ size = 0
      /\ base = 0 /\ got = (IF how = "stream" THEN 0 ELSE Len(source)) /\ capacity = 0 /\ pc = "idle"
  BY Zenon DEF Init
<1>2. source \in Seq(Byte) /\ Len(source) \in Nat
  <2>1. source \in Seq(Byte)
    BY <1>1, SourcesAssumption, Zenon
  <2> QED
    BY <2>1, SMT
<1>3. /\ how \in {"bare", "pool", "data", "stream"}
      /\ max.size \in Nat /\ max.nodes \in Nat /\ max.nodes > 0 /\ 0 <= max.size
  <2>1. how \in {"bare", "pool", "data", "stream"}
    BY <1>1, SizesAssumption, Zenon
  <2>2. {max.size, max.nodes} \subseteq Nat \ {0}
    BY <1>1, SizesAssumption, Zenon
  <2>3. max.size \in Nat \ {0} /\ max.nodes \in Nat \ {0}
    BY <2>2, Zenon
  <2> QED
    BY <2>1, <2>3, SMT
<1>4. pool_count \in Nat /\ (Pooled => pool_count > 0)
  <2>1. CASE Pooled
    <3>1. pool_count \in Nat \ {0}
      BY <1>1, <2>1, SizesAssumption, Zenon
    <3> QED
      BY <3>1, SMT
  <2>2. CASE ~Pooled
    <3>1. pool_count = 0
      BY <1>1, <2>2, Zenon
    <3> QED
      BY <2>2, <3>1, SMT
  <2> QED
    BY <2>1, <2>2, Zenon
<1>5. DataOK
  <2>1. got \in Nat /\ 0 <= got /\ got <= Len(source) /\ (how = "stream" => got - base <= max.size)
    <3>1. CASE how = "stream"
      BY <1>1, <1>2, <1>3, <3>1, SMT
    <3>2. CASE how # "stream"
      <4>1. got = Len(source)
        BY <1>1, <3>2, Zenon
      <4> QED
        BY <1>2, <3>2, <4>1, SMT
    <3> QED
      BY <3>1, <3>2, Zenon
  <2>2. 0 \in Nat
    BY SMT
  <2> QED
    BY <1>1, <1>2, <1>3, <1>4, <2>1, <2>2, Zenon DEF DataOK
<1>6. StatesOK /\ ~Good /\ pc # "contents"
  BY <1>1, SMT DEF StatesOK, Good
<1> QED
  BY <1>5, <1>6, Zenon DEF TreeInv

\* A message begins behind the one before.
LEMMA NextBase ==
  ASSUME TreeInv, pc = "idle", error = "ok", state # "in_progress"
  PROVE  base + size \in Nat /\ base + size <= got
<1>1. /\ base \in Nat /\ got \in Nat /\ base <= got /\ size \in Nat
  BY Zenon DEF TreeInv, DataOK
<1>2. CASE state = "not_started"
  <2>1. size = 0
    BY <1>2, Zenon DEF TreeInv, StatesOK
  <2> QED
    BY <1>1, <2>1, SMT
<1>3. CASE state = "parsed"
  <2>1. Good
    BY <1>3, SMT DEF Good
  <2>2. left \in Nat /\ left = data_length - size - Pending(stack) /\ stack \in Seq(Level)
    BY <2>1, Zenon DEF TreeInv, CountOK, StackOK
  <2>3. Pending(stack) \in Nat
    BY <2>2, PendingType, Zenon
  <2>4. data_length = got - base
    BY Zenon DEF data_length
  <2> QED
    BY <1>1, <2>2, <2>3, <2>4, SMT
<1> QED
  BY <1>2, <1>3, Zenon DEF TreeInv, StatesOK

LEMMA StepStart ==
  ASSUME TreeInv, NEW c, mpack_tree_parse_start(c)
  PROVE  TreeInv'
<1>1. /\ pc = "idle" /\ error = "ok" /\ state # "in_progress"
      /\ base' = base + size /\ size' = 0 /\ UNCHANGED given
  BY Zenon DEF mpack_tree_parse_start
<1>2. PICK a \in Reserves(got - base', got - base', 1) :
        /\ Got(a)
        /\ \/ ~a.ok /\ left' = got' - base' /\ NotStarted /\ Fails(a.error)
           \/ /\ a.ok /\ left' = got' - base' - 1
              /\ \/ Pooled /\ Started(0, pool_count, <<>>)
                 \/ ~Pooled /\ Started(1, NODES_PER_PAGE, <<NODES_PER_PAGE>>)
                 \/ ~Pooled /\ failing /\ NoPage
  BY Zenon DEF mpack_tree_parse_start
<1>3. DataOK
  BY Zenon DEF TreeInv
<1>4. /\ source' = source /\ how' = how /\ pool_count' = pool_count /\ max' = max
  BY <1>1, Zenon DEF given
<1>5. /\ base \in Nat /\ got \in Nat /\ size \in Nat /\ base <= got /\ got <= Len(source)
      /\ Len(source) \in Nat /\ max.size \in Nat
      /\ how = "stream" => got - base <= max.size
  BY <1>3, SMT DEF DataOK
<1>6. base' \in Nat /\ base' <= got
  BY <1>1, NextBase, Zenon
<1>7. PICK l : l = got - base'
  BY Zenon
<1>8. l \in Nat /\ base' + l = got /\ (how = "stream" => l <= max.size)
  BY <1>1, <1>5, <1>6, <1>7, SMT
<1>9. /\ a.read \in Nat /\ base' + l + a.read <= Len(source)
      /\ a.ok => 1 <= l + a.read
      /\ a.capacity \in Nat
      /\ how = "stream" => l + a.read <= max.size /\ a.capacity <= max.size
  <2>1. 1 \in Nat /\ base' + l <= Len(source)
    BY <1>5, <1>8, SMT
  <2>2. a \in Reserves(l, l, 1)
    BY <1>2, <1>7, Zenon
  <2> QED
    BY <1>3, <1>6, <1>8, <2>1, <2>2, ReservesGive, Zenon
<1>10. got' = got + a.read /\ capacity' = a.capacity
  BY <1>2, Zenon DEF Got
<1>11. got' \in Nat /\ base' <= got' /\ got' <= Len(source) /\ got' - base' = l + a.read
  <2> DEFINE n == a.read
             b == base'
             m == Len(source)
  <2>1. n \in Nat /\ b \in Nat /\ m \in Nat /\ b + l + n <= m /\ got' = got + n /\ b + l = got
    BY <1>5, <1>6, <1>8, <1>9, <1>10, Zenon
  <2> HIDE DEF n, b, m
  <2>2. got' \in Nat /\ b <= got' /\ got' <= m /\ got' - b = l + n
    BY <1>5, <1>8, <2>1, SMT
  <2> QED
    BY <2>2, Zenon DEF n, b, m
<1>12. DataOK'
  <2>1. /\ source \in Seq(Byte) /\ how \in {"bare", "pool", "data", "stream"}
        /\ max.size \in Nat /\ max.nodes \in Nat /\ max.nodes > 0
        /\ pool_count \in Nat /\ (Pooled => pool_count > 0)
    BY <1>3, Zenon DEF DataOK
  <2>2. Pooled' = Pooled
    BY <1>4, Zenon DEF Pooled
  <2>3. how = "stream" => got' - base' <= max.size /\ capacity' <= max.size
    BY <1>9, <1>10, <1>11, Zenon
  <2>4. {base', got', size', capacity'} \subseteq Nat
    <3>1. 0 \in Nat
      BY SMT
    <3> QED
      BY <1>1, <1>6, <1>9, <1>10, <1>11, <3>1, Zenon
  <2> QED
    BY <1>4, <1>11, <2>1, <2>2, <2>3, <2>4, Zenon DEF DataOK
<1>13. CASE ~a.ok /\ NotStarted /\ Fails(a.error)
  <2>1. state' = "not_started" /\ pc' = "idle"
    BY <1>13, Zenon DEF NotStarted, Fails
  <2>2. ~Good' /\ StatesOK' /\ pc' # "contents"
    BY <1>1, <2>1, SMT DEF Good, StatesOK
  <2> QED
    BY <1>12, <2>2, Zenon DEF TreeInv
<1>14. CASE ~Pooled /\ failing /\ NoPage
  <2>1. state' = "in_progress" /\ pc' = "idle" /\ error' = "memory"
    BY <1>14, Zenon DEF NoPage
  <2>2. ~Good' /\ StatesOK' /\ pc' # "contents"
    BY <1>1, <2>1, SMT DEF Good, StatesOK
  <2> QED
    BY <1>12, <2>2, Zenon DEF TreeInv
<1>15. ASSUME a.ok, left' = got' - base' - 1
       PROVE  got' - base' - 1 \in Nat
  <2> DEFINE n == a.read
             g == got' - base'
  <2>1. n \in Nat /\ 1 <= l + n /\ g = l + n
    BY <1>9, <1>11, <1>15, Zenon
  <2> HIDE DEF n, g
  <2>2. g - 1 \in Nat
    BY <1>8, <2>1, SMT
  <2> QED
    BY <2>2, Zenon DEF g
<1>16. CASE a.ok /\ left' = got' - base' - 1 /\ Pooled /\ Started(0, pool_count, <<>>)
  <2>1. pool_count \in Nat /\ pool_count > 0 /\ Pooled' /\ pool_count' = pool_count
    BY <1>3, <1>4, <1>16, Zenon DEF DataOK, Pooled
  <2>2. <<>> \in Seq(Nat) /\ 0 \in Nat /\ 0 <= Len(<<>>)
    BY SMT
  <2>3. got' - base' - 1 \in Nat
    BY <1>15, <1>16, Zenon
  <2>4. PICK count : count = pool_count
    BY Zenon
  <2>5. Started(0, count, <<>>) /\ count \in Nat /\ count > 0 /\ pool_count' = count
    BY <1>16, <2>1, <2>4, Zenon
  <2>6. PagesOK' /\ StackOK' /\ TreeOK' /\ CountOK' /\ StatesOK' /\ pc' # "contents"
    BY <1>1, <1>12, <1>16, <2>1, <2>2, <2>3, <2>5, StartedKeeps, Zenon
  <2> QED
    BY <1>12, <2>6, Zenon DEF TreeInv
<1>17. CASE a.ok /\ left' = got' - base' - 1 /\ ~Pooled /\ Started(1, NODES_PER_PAGE, <<NODES_PER_PAGE>>)
  <2>1. NODES_PER_PAGE \in Nat /\ NODES_PER_PAGE > 0
    BY SizesAssumption, SMT
  <2> DEFINE p == <<NODES_PER_PAGE>>
  <2>2. /\ p \in Seq(Nat) /\ 1 \in Nat /\ 1 # 0 /\ 1 <= Len(p) /\ Len(p) > 0 /\ p[1] = NODES_PER_PAGE
    BY <2>1, SMT
  <2>3. got' - base' - 1 \in Nat
    BY <1>15, <1>17, Zenon
  <2> HIDE DEF p
  <2>4. Started(1, NODES_PER_PAGE, p)
    BY <1>17, Zenon DEF p
  <2>5. PagesOK' /\ StackOK' /\ TreeOK' /\ CountOK' /\ StatesOK' /\ pc' # "contents"
    BY <1>1, <1>12, <1>17, <2>1, <2>2, <2>3, <2>4, StartedKeeps, Zenon
  <2> QED
    BY <1>12, <2>5, Zenon DEF TreeInv
<1> QED
  BY <1>2, <1>13, <1>14, <1>16, <1>17, Zenon

LEMMA StepResume ==
  ASSUME TreeInv, Resume
  PROVE  TreeInv'
<1>1. /\ pc = "idle" /\ error = "ok" /\ state = "in_progress" /\ pc' = "head" /\ error' = error
      /\ UNCHANGED <<given, read, parser, state, base, size, node_count, left, reserved>>
  BY Zenon DEF Resume, Goes
<1>2. DataOK'
  BY <1>1, SameData, Zenon DEF TreeInv
<1>3. StatesOK' /\ Good /\ pc' # "contents"
  BY <1>1, SMT DEF StatesOK, Good
<1>4. PagesOK /\ StackOK /\ TreeOK /\ CountOK
  BY <1>3, Zenon DEF TreeInv
<1>5. /\ how' = how /\ pool_count' = pool_count /\ max' = max /\ got' = got
      /\ nodes' = nodes /\ nodes_left' = nodes_left /\ pages' = pages /\ Unparsed
  BY <1>1, Zenon DEF given, read, parser, Unparsed
<1>6. data_length \in Nat /\ size \in Nat /\ base \in Nat /\ got \in Nat /\ left \in Nat
  <2>1. /\ base \in Nat /\ got \in Nat /\ base <= got /\ size \in Nat
    BY Zenon DEF TreeInv, DataOK
  <2>2. left \in Nat
    BY <1>4, Zenon DEF CountOK
  <2> QED
    BY <2>1, <2>2, SMT DEF data_length
<1>7. 0 \in Nat /\ left' = left + 0
  BY <1>1, <1>6, SMT
<1>8. data_length' = data_length + 0
  <2>1. data_length' = data_length
    BY <1>1, <1>5, Zenon DEF data_length
  <2> QED
    BY <1>6, <2>1, SMT
<1>9. node_count' \in Nat /\ node_count <= node_count' /\ node_count' <= max.nodes
  <2>1. node_count \in Nat /\ node_count <= max.nodes /\ node_count' = node_count
    BY <1>1, <1>4, Zenon DEF CountOK
  <2> QED
    BY <2>1, SMT
<1>10. PagesOK' /\ StackOK' /\ TreeOK' /\ CountOK'
  BY <1>4, <1>5, <1>6, <1>7, <1>8, <1>9, Waits, Zenon
<1> QED
  BY <1>2, <1>3, <1>10, Zenon DEF TreeInv

\* What the handlers of a node start from.
LEMMA AtNode ==
  ASSUME TreeInv, pc \in {"head", "contents"}, UNCHANGED here
  PROVE  /\ DataOK /\ PagesOK /\ StackOK /\ TreeOK /\ CountOK /\ StatesOK
         /\ state = "in_progress" /\ error = "ok"
         /\ source' = source /\ how' = how /\ pool_count' = pool_count /\ max' = max /\ base' = base
         /\ base \in Nat /\ got \in Nat /\ size \in Nat /\ left \in Nat /\ data_length \in Nat
         /\ Here \in Byte /\ TagSize(Here) - 1 \in Nat
         /\ node_count \in Nat /\ node_count <= max.nodes
<1>1. DataOK /\ StatesOK /\ state = "in_progress" /\ error = "ok"
  BY Zenon DEF TreeInv, StatesOK
<1>2. Good
  BY <1>1, SMT DEF Good
<1>3. PagesOK /\ StackOK /\ TreeOK /\ CountOK
  BY <1>2, Zenon DEF TreeInv
<1>4. /\ source' = source /\ how' = how /\ pool_count' = pool_count /\ max' = max /\ base' = base
  BY Zenon DEF here, given
<1>5. /\ base \in Nat /\ got \in Nat /\ size \in Nat /\ left \in Nat /\ data_length \in Nat
      /\ Here \in Byte /\ TagSize(Here) - 1 \in Nat
  BY <1>1, <1>3, HereIsThere, Zenon
<1>6. node_count \in Nat /\ node_count <= max.nodes
  BY <1>3, Zenon DEF CountOK
<1> QED
  BY <1>1, <1>3, <1>4, <1>5, <1>6, Zenon

LEMMA Idle ==
  ASSUME state = "in_progress", Unparsed, pc' = "idle"
  PROVE  StatesOK' /\ pc' # "contents"
<1>1. state' = state
  BY Zenon DEF Unparsed
<1> QED
  BY <1>1, SMT DEF StatesOK

LEMMA LeafBlock ==
  ASSUME NEW offset, Kind(Here) \notin Compound
  PROVE  /\ <<0, 0>> \in Nat \X Nat
         /\ Children(NodeOf(offset, <<0, 0>>)) = Block(<<0, 0>>, 0)
         /\ \A c \in Block(<<0, 0>>, 0) : Fresh(c)
<1>1. <<0, 0>> \in Nat \X Nat
  BY SMT
<1>2. Block(<<0, 0>>, 0) = {}
  BY NoBlock, Zenon
<1> QED
  BY <1>1, <1>2, NodeFields, Zenon

\* A node without children is done.
LEMMA NodeKeeps ==
  ASSUME DataOK, PagesOK, StackOK, TreeOK, CountOK, state = "in_progress", error = "ok",
         NEW offset, Kind(Here) \notin Compound, Parsed(NodeOf(offset, <<0, 0>>), 0, <<>>),
         NEW more \in Nat, got' = got + more, data_length' = data_length + more,
         reserved' \in Nat, reserved' <= left + more, left' = Rest(more),
         how' = how, pool_count' = pool_count, max' = max, node_count' = node_count,
         nodes' = nodes, nodes_left' = nodes_left, pages' = pages
  PROVE  /\ PagesOK' /\ StackOK' /\ TreeOK' /\ CountOK' /\ StatesOK'
         /\ size' \in Nat /\ pc' # "contents"
<1>1. \A a : Handed(a) => Handed(a)'
  <2>1. \A k : PageSize(k)' = PageSize(k)
    BY Zenon DEF PageSize
  <2> QED
    BY <2>1, Zenon DEF Handed
<1>2. PagesOK'
  <2>1. PageSize(nodes[1])' = PageSize(nodes[1])
    BY Zenon DEF PageSize
  <2> QED
    BY <2>1, Zenon DEF PagesOK, Pooled
<1> DEFINE n == NodeOf(offset, <<0, 0>>)
           at == <<0, 0>>
           pushed == <<>>
<1>3. at \in Nat \X Nat /\ Children(n) = Block(at, 0) /\ \A c \in Block(at, 0) : Fresh(c)
  BY LeafBlock, Zenon
<1>4. 0 \in Nat /\ 0 <= reserved'
  BY SMT
<1>5. node_count' \in Nat /\ node_count + 0 <= node_count' /\ node_count' <= max.nodes
  <2>1. node_count \in Nat /\ node_count <= max.nodes
    BY Zenon DEF CountOK
  <2> QED
    BY <2>1, SMT
<1>6. left' = left + more - reserved'
  BY Zenon DEF Rest
<1>7. pushed = IF 0 = 0 THEN <<>> ELSE <<[child |-> at, left |-> 0]>>
  BY Zenon
<1>8. Parsed(n, 0, pushed)
  BY Zenon
<1> HIDE DEF n, at, pushed
<1>9. StackOK' /\ TreeOK' /\ CountOK' /\ StatesOK' /\ size' \in Nat /\ pc' # "contents"
  BY <1>1, <1>3, <1>4, <1>5, <1>6, <1>7, <1>8, ParsedKeeps, Zenon
<1> QED
  BY <1>2, <1>9, Zenon

\* Nothing is done yet: the bytes that came are kept, and maybe the header is complete.
LEMMA PausedKeeps ==
  ASSUME DataOK', PagesOK, StackOK, TreeOK, CountOK, state = "in_progress", Unparsed,
         how' = how, pool_count' = pool_count, max' = max,
         nodes' = nodes, nodes_left' = nodes_left, pages' = pages,
         data_length \in Nat, NEW more \in Nat, data_length' = data_length + more, left' = left + more,
         size \in Nat, node_count' \in Nat, node_count <= node_count', node_count' <= max.nodes,
         pc' = "idle"
  PROVE  TreeInv'
<1>1. PagesOK' /\ StackOK' /\ TreeOK' /\ CountOK'
  BY Waits, Zenon
<1>2. StatesOK' /\ pc' # "contents"
  BY Idle, Zenon
<1> QED
  BY <1>1, <1>2, Zenon DEF TreeInv

\* An error, and nothing is done.
LEMMA StoppedKeeps ==
  ASSUME DataOK', state = "in_progress", Unparsed, NEW e, e # "ok", Fails(e)
  PROVE  TreeInv'
<1>1. pc' = "idle" /\ ~Good'
  BY Stops, Zenon
<1>2. StatesOK' /\ pc' # "contents"
  BY <1>1, Idle, Zenon
<1> QED
  BY <1>1, <1>2, Zenon DEF TreeInv

LEMMA StepHead ==
  ASSUME TreeInv, ParseHead
  PROVE  TreeInv'
<1>1. /\ pc = "head" /\ UNCHANGED here
      /\ UNCHANGED <<node_count, nodes, nodes_left, stack_capacity, stack_owned, pages, blocks>>
  BY Zenon DEF ParseHead
<1>2. /\ DataOK /\ PagesOK /\ StackOK /\ TreeOK /\ CountOK /\ StatesOK
      /\ state = "in_progress" /\ error = "ok"
      /\ source' = source /\ how' = how /\ pool_count' = pool_count /\ max' = max /\ base' = base
      /\ base \in Nat /\ got \in Nat /\ size \in Nat /\ left \in Nat /\ data_length \in Nat
      /\ Here \in Byte /\ TagSize(Here) - 1 \in Nat
      /\ node_count \in Nat /\ node_count <= max.nodes
  <2>1. pc \in {"head", "contents"}
    BY <1>1, Zenon
  <2> QED
    BY <1>1, <2>1, AtNode, Zenon
<1>3. node_count' \in Nat /\ node_count <= node_count' /\ node_count' <= max.nodes
  <2>1. node_count' = node_count
    BY <1>1, Zenon
  <2> QED
    BY <1>2, <2>1, SMT
<1>4. ASSUME NEW e, e # "ok", Fails(e), Unparsed, UNCHANGED <<read, left>>
      PROVE  TreeInv'
  <2>1. UNCHANGED <<given, read, base, size>>
    BY <1>1, <1>4, Zenon DEF here, Unparsed
  <2>2. DataOK'
    BY <1>2, <2>1, SameData, Zenon
  <2> QED
    BY <1>2, <1>4, <2>2, StoppedKeeps, Zenon
<1>5. ASSUME ~Reserved(Here), ~Extension(Here), reserved' = TagSize(Here) - 1,
             NEW a \in Reserves(left, data_length, reserved'), Got(a), Unparsed, left' = left + a.read,
             \/ Fails(a.error)
             \/ a.ok /\ Kind(Here) \in Compound \cup Data /\ Goes("contents")
      PROVE  TreeInv'
  <2>1. PICK need \in Nat : need = reserved' /\ need = TagSize(Here) - 1
    BY <1>2, <1>5, Zenon
  <2>2. size' = size /\ size' \in Nat
    BY <1>2, <1>5, Zenon DEF Unparsed
  <2>3. /\ DataOK' /\ a.read \in Nat /\ got' = got + a.read /\ data_length' = data_length + a.read
        /\ a.ok => need <= left + a.read
    <3>1. a \in Reserves(left, data_length, need)
      BY <1>5, <2>1, Zenon
    <3> QED
      BY <1>1, <1>2, <1>5, <2>2, <3>1, DataKept, Zenon
  <2>4. CASE Fails(a.error)
    <3>1. pc' = "idle"
      BY <2>4, Zenon DEF Fails
    <3> QED
      BY <1>1, <1>2, <1>3, <1>5, <2>3, <3>1, PausedKeeps, Zenon
  <2>5. CASE a.ok /\ Kind(Here) \in Compound \cup Data /\ Goes("contents")
    <3>1. PagesOK' /\ StackOK' /\ TreeOK' /\ CountOK'
      BY <1>1, <1>2, <1>3, <1>5, <2>3, Waits, Zenon
    <3>2. pc' = "contents" /\ error' = "ok" /\ state' = "in_progress"
      BY <1>2, <1>5, <2>5, Zenon DEF Goes, Unparsed
    <3>3. StatesOK'
      BY <3>2, SMT DEF StatesOK
    <3>4. Here' = Here
      BY <1>2, <2>2, Zenon DEF Here, Load
    <3>5. HeaderOK'
      BY <1>5, <2>1, <2>3, <2>5, <3>4, Zenon DEF HeaderOK
    <3> QED
      BY <2>3, <3>1, <3>3, <3>5, Zenon DEF TreeInv
  <2> QED
    BY <1>5, <2>4, <2>5, Zenon
<1>6. ASSUME ~Reserved(Here), ~Extension(Here), reserved' = TagSize(Here) - 1,
             NEW a \in Reserves(left, data_length, reserved'), Got(a), a.ok,
             Kind(Here) \notin Compound \cup Data, left' = Rest(a.read),
             Parsed(NodeOf(0, <<0, 0>>), 0, <<>>)
      PROVE  TreeInv'
  <2>1. PICK need \in Nat : need = reserved' /\ need = TagSize(Here) - 1
    BY <1>2, <1>6, Zenon
  <2>2. size' \in Nat
    <3>1. size' = size + reserved' + 1 - 0
      BY <1>6, Zenon DEF Parsed
    <3>2. size' = size + need + 1 - 0
      BY <2>1, <3>1, Zenon
    <3> QED
      BY <1>2, <3>2, SMT
  <2>3. /\ DataOK' /\ a.read \in Nat /\ got' = got + a.read /\ data_length' = data_length + a.read
        /\ need <= left + a.read
    <3>1. a \in Reserves(left, data_length, need)
      BY <1>6, <2>1, Zenon
    <3> QED
      BY <1>1, <1>2, <1>6, <2>2, <3>1, DataKept, ZenonT(30)
  <2>4. Kind(Here) \notin Compound /\ reserved' \in Nat /\ reserved' <= left + a.read
    BY <1>6, <2>1, <2>3, Zenon
  <2>5. /\ PagesOK' /\ StackOK' /\ TreeOK' /\ CountOK' /\ StatesOK'
        /\ size' \in Nat /\ pc' # "contents"
    BY <1>1, <1>2, <1>6, <2>3, <2>4, NodeKeeps, Zenon
  <2> QED
    BY <2>3, <2>5, Zenon DEF TreeInv
<1>7. "invalid" # "ok" /\ "unsupported" # "ok"
  BY SMT
<1>8. CASE Reserved(Here) /\ reserved' = 0 /\ Fails("invalid") /\ Unparsed /\ UNCHANGED <<read, left>>
  BY <1>4, <1>7, <1>8, Zenon
<1>9. CASE Extension(Here) /\ reserved' = 0 /\ Fails("unsupported") /\ Unparsed /\ UNCHANGED <<read, left>>
  BY <1>4, <1>7, <1>9, Zenon
<1>10. CASE /\ ~Reserved(Here) /\ ~Extension(Here) /\ reserved' = TagSize(Here) - 1
            /\ \E a \in Reserves(left, data_length, reserved') :
                 /\ Got(a)
                 /\ \/ ~a.ok /\ Fails(a.error) /\ Unparsed /\ left' = left + a.read
                    \/ /\ a.ok /\ Kind(Here) \in Compound \cup Data
                       /\ Goes("contents") /\ Unparsed /\ left' = left + a.read
                    \/ /\ a.ok /\ Kind(Here) \notin Compound \cup Data
                       /\ left' = Rest(a.read)
                       /\ Parsed(NodeOf(0, <<0, 0>>), 0, <<>>)
  BY <1>5, <1>6, <1>10, Zenon
<1> QED
  BY <1>8, <1>9, <1>10, Zenon DEF ParseHead

LEMMA StepBytes ==
  ASSUME TreeInv, ParseBytes
  PROVE  TreeInv'
<1>1. /\ pc = "contents" /\ Kind(Here) \in Data /\ UNCHANGED here /\ reserved' = reserved + len
      /\ UNCHANGED <<node_count, nodes, nodes_left, stack_capacity, stack_owned, pages, blocks>>
  BY Zenon DEF ParseBytes
<1>2. PICK a \in Reserves(left, data_length, reserved') :
        /\ Got(a)
        /\ \/ ~a.ok /\ Fails(a.error) /\ Unparsed /\ left' = left + a.read
           \/ a.ok /\ left' = Rest(a.read) /\ Parsed(NodeOf(Offset, <<0, 0>>), 0, <<>>)
  BY Zenon DEF ParseBytes
<1>3. /\ DataOK /\ PagesOK /\ StackOK /\ TreeOK /\ CountOK /\ StatesOK
      /\ state = "in_progress" /\ error = "ok"
      /\ source' = source /\ how' = how /\ pool_count' = pool_count /\ max' = max /\ base' = base
      /\ base \in Nat /\ got \in Nat /\ size \in Nat /\ left \in Nat /\ data_length \in Nat
      /\ Here \in Byte /\ TagSize(Here) - 1 \in Nat
      /\ node_count \in Nat /\ node_count <= max.nodes
  <2>1. pc \in {"head", "contents"}
    BY <1>1, Zenon
  <2> QED
    BY <1>1, <2>1, AtNode, Zenon
<1>4. node_count' \in Nat /\ node_count <= node_count' /\ node_count' <= max.nodes
  <2>1. node_count' = node_count
    BY <1>1, Zenon
  <2> QED
    BY <1>3, <2>1, SMT
<1>5. PICK need \in Nat : need = reserved'
  <2>1. HeaderOK
    BY <1>1, Zenon DEF TreeInv
  <2>2. reserved \in Nat /\ len \in Nat
    BY <1>3, <2>1, LenType, Zenon
  <2>3. reserved + len \in Nat
    BY <2>2, SMT
  <2> QED
    BY <1>1, <2>3, Zenon
<1>6. ASSUME size' \in Nat
      PROVE  /\ DataOK' /\ a.read \in Nat /\ got' = got + a.read /\ data_length' = data_length + a.read
             /\ a.ok => need <= left + a.read
  <2>1. a \in Reserves(left, data_length, need)
    BY <1>5, Zenon
  <2> QED
    BY <1>1, <1>2, <1>3, <1>6, <2>1, DataKept, Zenon
<1>7. CASE ~a.ok /\ Fails(a.error) /\ Unparsed /\ left' = left + a.read
  <2>1. size' \in Nat
    BY <1>3, <1>7, Zenon DEF Unparsed
  <2>2. pc' = "idle"
    BY <1>7, Zenon DEF Fails
  <2> QED
    BY <1>1, <1>3, <1>4, <1>6, <1>7, <2>1, <2>2, PausedKeeps, Zenon
<1>8. CASE a.ok /\ left' = Rest(a.read) /\ Parsed(NodeOf(Offset, <<0, 0>>), 0, <<>>)
  <2>1. size' \in Nat
    <3>1. size' = size + reserved' + 1 - 0
      BY <1>8, Zenon DEF Parsed
    <3>2. size' = size + need + 1 - 0
      BY <1>5, <3>1, Zenon
    <3> QED
      BY <1>3, <3>2, SMT
  <2>2. Kind(Here) \notin Compound /\ reserved' \in Nat /\ reserved' <= left + a.read
    <3>1. Kind(Here) \notin Compound
      BY <1>1, SMT DEF Compound, Data
    <3> QED
      BY <1>5, <1>6, <1>8, <2>1, <3>1, Zenon
  <2>3. PICK o : o = Offset
    BY Zenon
  <2>4. Parsed(NodeOf(o, <<0, 0>>), 0, <<>>)
    BY <1>8, <2>3, Zenon
  <2>5. /\ PagesOK' /\ StackOK' /\ TreeOK' /\ CountOK' /\ StatesOK'
        /\ size' \in Nat /\ pc' # "contents"
    BY <1>1, <1>3, <1>6, <1>8, <2>1, <2>2, <2>4, NodeKeeps, Zenon
  <2> QED
    BY <1>6, <2>1, <2>5, Zenon DEF TreeInv
<1> QED
  BY <1>2, <1>7, <1>8, Zenon

LEMMA StepChildren ==
  ASSUME TreeInv, ParseChildren
  PROVE  TreeInv'
<1>1. /\ pc = "contents" /\ Kind(Here) \in Compound /\ UNCHANGED here
      /\ node_count' = node_count + total
  BY Zenon DEF ParseChildren
<1>2. /\ DataOK /\ PagesOK /\ StackOK /\ TreeOK /\ CountOK /\ StatesOK
      /\ state = "in_progress" /\ error = "ok"
      /\ source' = source /\ how' = how /\ pool_count' = pool_count /\ max' = max /\ base' = base
      /\ base \in Nat /\ got \in Nat /\ size \in Nat /\ left \in Nat /\ data_length \in Nat
      /\ Here \in Byte /\ TagSize(Here) - 1 \in Nat
      /\ node_count \in Nat /\ node_count <= max.nodes
  <2>1. pc \in {"head", "contents"}
    BY <1>1, Zenon
  <2> QED
    BY <1>1, <2>1, AtNode, Zenon
<1>3. total \in Nat /\ reserved \in Nat
  <2>1. HeaderOK
    BY <1>1, Zenon DEF TreeInv
  <2> QED
    BY <1>2, <2>1, LenType, Zenon
<1>4. "too_big" # "ok" /\ "memory" # "ok"
  BY SMT
<1>5. CASE Fails("too_big") /\ Unparsed /\ UNCHANGED read
  <2>1. UNCHANGED <<given, read, base, size>>
    BY <1>1, <1>5, Zenon DEF here, Unparsed
  <2>2. DataOK'
    BY <1>2, <2>1, SameData, Zenon
  <2> QED
    BY <1>2, <1>4, <1>5, <2>2, StoppedKeeps, Zenon
<1>6. ASSUME node_count' <= max.nodes, reserved' = reserved + total,
             NEW a \in Reserves(left, data_length, reserved'), Got(a),
             \/ /\ ~a.ok /\ Fails(a.error) /\ left' = left + a.read
                /\ Unparsed /\ Unplaced /\ UNCHANGED <<stack_capacity, stack_owned, blocks>>
             \/ /\ a.ok /\ total > nodes_left /\ (Pooled \/ failing)
                /\ Fails(IF Pooled THEN "too_big" ELSE "memory") /\ left' = left + a.read
                /\ Unparsed /\ Unplaced /\ UNCHANGED <<stack_capacity, stack_owned, blocks>>
             \/ /\ a.ok /\ (total <= nodes_left \/ ~Pooled)
                /\ Taken(Placed) /\ Pushed(Placed, IF Placed.page > 0 THEN 1 ELSE 0)
      PROVE  TreeInv'
  <2>1. PICK need \in Nat : need = reserved' /\ need = reserved + total
    <3>1. reserved + total \in Nat
      BY <1>3, SMT
    <3> QED
      BY <1>6, <3>1, Zenon
  <2>2. PICK count \in Nat : count = total
    BY <1>3, Zenon
  <2>3. ASSUME size' \in Nat
        PROVE  /\ DataOK' /\ a.read \in Nat /\ got' = got + a.read /\ data_length' = data_length + a.read
               /\ a.ok => need <= left + a.read
    <3>1. a \in Reserves(left, data_length, need)
      BY <1>6, <2>1, Zenon
    <3> QED
      BY <1>1, <1>2, <1>6, <2>3, <3>1, DataKept, Zenon
  <2>4. ASSUME Unparsed
        PROVE  /\ DataOK' /\ a.read \in Nat /\ data_length' = data_length + a.read
    <3>1. size' \in Nat
      BY <1>2, <2>4, Zenon DEF Unparsed
    <3> QED
      BY <2>3, <3>1, Zenon
  <2>5. node_count' \in Nat /\ node_count <= node_count' /\ node_count + count <= node_count'
    <3>1. node_count' = node_count + count
      BY <1>1, <2>2, Zenon
    <3> QED
      BY <1>2, <3>1, SMT
  <2>6. CASE ~a.ok /\ Fails(a.error) /\ left' = left + a.read /\ Unparsed /\ Unplaced
    <3>1. nodes' = nodes /\ nodes_left' = nodes_left /\ pages' = pages /\ pc' = "idle"
      BY <2>6, Zenon DEF Unplaced, Fails
    <3>2. /\ DataOK' /\ a.read \in Nat /\ data_length' = data_length + a.read
      BY <2>4, <2>6, Zenon
    <3> QED
      BY <1>2, <1>6, <2>5, <2>6, <3>1, <3>2, PausedKeeps, Zenon
  <2>7. CASE Fails(IF Pooled THEN "too_big" ELSE "memory") /\ Unparsed
    <3>1. PICK e : e # "ok" /\ Fails(e)
      BY <1>4, <2>7, Zenon
    <3>2. DataOK'
      BY <2>4, <2>7, Zenon
    <3> QED
      BY <1>2, <2>7, <3>1, <3>2, StoppedKeeps, Zenon
  <2>8. CASE a.ok /\ (total <= nodes_left \/ ~Pooled) /\ Taken(Placed)
             /\ Pushed(Placed, IF Placed.page > 0 THEN 1 ELSE 0)
    <3>1. CASE Fails(IF HasMalloc THEN "memory" ELSE "too_big") /\ Unparsed
      <4>1. PICK e : e # "ok" /\ Fails(e)
        BY <1>4, <3>1, Zenon
      <4>2. DataOK'
        BY <2>4, <3>1, Zenon
      <4> QED
        BY <1>2, <3>1, <4>1, <4>2, StoppedKeeps, Zenon
    <3> DEFINE pushed == IF total = 0 THEN <<>> ELSE <<[child |-> Placed.at, left |-> total]>>
    <3>2. CASE left' = Rest(got' - got) /\ Parsed(NodeOf(0, Placed.at), total, pushed)
      <4>1. /\ PagesOK' /\ Placed.at \in Nat \X Nat
            /\ \A x : Handed(x) => Handed(x)'
            /\ \A c \in Block(Placed.at, total) : Fresh(c)
        BY <1>2, <1>3, <2>8, PlacedKeeps, Zenon
      <4>2. PICK at \in Nat \X Nat : at = Placed.at
        BY <4>1, Zenon
      <4>3. PICK n : n = NodeOf(0, at)
        BY Zenon
      <4>4. PICK p : p = IF count = 0 THEN <<>> ELSE <<[child |-> at, left |-> count]>>
        BY Zenon
      <4>5. Parsed(n, count, p)
        BY <2>2, <3>2, <4>2, <4>3, <4>4, Zenon
      <4>6. size' \in Nat
        <5>1. size' = size + reserved' + 1 - count
          BY <4>5, Zenon DEF Parsed
        <5>2. size' = size + need + 1 - count
          BY <2>1, <5>1, Zenon
        <5>3. count <= need
          BY <1>3, <2>1, <2>2, SMT
        <5> QED
          BY <1>2, <5>2, <5>3, SMT
      <4>7. /\ DataOK' /\ a.read \in Nat /\ got' = got + a.read /\ data_length' = data_length + a.read
            /\ need <= left + a.read
        BY <2>3, <2>8, <4>6, Zenon
      <4>8. PICK more \in Nat : more = a.read
        BY <4>7, Zenon
      <4>9. left' = left + more - reserved'
        <5>1. got' - got = more
          <6>1. got' = got + more
            BY <4>7, <4>8, Zenon
          <6> QED
            BY <1>2, <6>1, SMT
        <5> QED
          BY <3>2, <5>1, Zenon DEF Rest
      <4>10. reserved' \in Nat /\ count <= reserved' /\ reserved' <= left + more
        <5>1. count <= need
          BY <1>3, <2>1, <2>2, SMT
        <5> QED
          BY <2>1, <4>7, <4>8, <5>1, Zenon
      <4>11. Children(n) = Block(at, count) /\ \A c \in Block(at, count) : Fresh(c)
        BY <1>1, <2>2, <4>1, <4>2, <4>3, NodeFields, Zenon
      <4>12. got' = got + more /\ data_length' = data_length + more
        BY <4>7, <4>8, Zenon
      <4>13. /\ StackOK' /\ TreeOK' /\ CountOK' /\ StatesOK' /\ pc' # "contents"
        BY <1>2, <1>6, <2>5, <4>1, <4>4, <4>5, <4>9, <4>10, <4>11, <4>12, ParsedKeeps, Zenon
      <4> QED
        BY <4>1, <4>7, <4>13, Zenon DEF TreeInv
    <3> QED
      BY <2>8, <3>1, <3>2, Zenon DEF Pushed
  <2> QED
    BY <1>6, <2>6, <2>7, <2>8, Zenon
<1>7. \/ Fails("too_big") /\ Unparsed /\ UNCHANGED read
      \/ /\ node_count' <= max.nodes /\ reserved' = reserved + total
         /\ \E a \in Reserves(left, data_length, reserved') :
              /\ Got(a)
              /\ \/ /\ ~a.ok /\ Fails(a.error) /\ left' = left + a.read
                    /\ Unparsed /\ Unplaced /\ UNCHANGED <<stack_capacity, stack_owned, blocks>>
                 \/ /\ a.ok /\ total > nodes_left /\ (Pooled \/ failing)
                    /\ Fails(IF Pooled THEN "too_big" ELSE "memory") /\ left' = left + a.read
                    /\ Unparsed /\ Unplaced /\ UNCHANGED <<stack_capacity, stack_owned, blocks>>
                 \/ /\ a.ok /\ (total <= nodes_left \/ ~Pooled)
                    /\ Taken(Placed) /\ Pushed(Placed, IF Placed.page > 0 THEN 1 ELSE 0)
  BY Zenon DEF ParseChildren
<1> QED
  BY <1>5, <1>6, <1>7, Zenon

LEMMA StepDestroy ==
  ASSUME TreeInv, mpack_tree_destroy
  PROVE  TreeInv'
<1>1. /\ pc = "idle" /\ pc' = "destroyed" /\ UNCHANGED <<given, read, base, size>>
      /\ state' = state
  BY Zenon DEF mpack_tree_destroy
<1>2. DataOK'
  BY <1>1, SameData, Zenon DEF TreeInv
<1>3. StatesOK' /\ ~Good' /\ pc' # "contents"
  <2>1. StatesOK
    BY Zenon DEF TreeInv
  <2>2. size' = size
    BY <1>1, Zenon
  <2> QED
    BY <1>1, <2>1, <2>2, SMT DEF StatesOK, Good
<1> QED
  BY <1>2, <1>3, Zenon DEF TreeInv

LEMMA StepTree ==
  ASSUME TreeInv, [Next]_vars
  PROVE  TreeInv'
<1>1. ASSUME NEW c \in ParseCalls, mpack_tree_parse_start(c)
      PROVE  TreeInv'
  BY <1>1, StepStart, Zenon
<1>2. CASE Resume
  BY <1>2, StepResume, Zenon
<1>3. CASE ParseHead
  BY <1>3, StepHead, Zenon
<1>4. CASE ParseBytes
  BY <1>4, StepBytes, Zenon
<1>5. CASE ParseChildren
  BY <1>5, StepChildren, Zenon
<1>6. CASE mpack_tree_destroy
  BY <1>6, StepDestroy, Zenon
<1>7. CASE UNCHANGED vars
  <2>1. /\ source' = source /\ how' = how /\ pool_count' = pool_count /\ max' = max
        /\ base' = base /\ got' = got /\ capacity' = capacity /\ size' = size
    BY <1>7, Zenon DEF vars, given, read
  <2>2. /\ nodes' = nodes /\ nodes_left' = nodes_left /\ stack' = stack /\ node' = node
        /\ pages' = pages /\ error' = error /\ state' = state /\ node_count' = node_count
        /\ left' = left /\ reserved' = reserved /\ pc' = pc
    BY <1>7, Zenon DEF vars, parser
  <2>3. DataOK' = DataOK /\ StatesOK' = StatesOK /\ Good' = Good
    BY <2>1, <2>2, Zenon DEF DataOK, StatesOK, Good, Pooled
  <2>4. PageSize(nodes[1])' = PageSize(nodes[1]) /\ \A k : PageSize(k)' = PageSize(k)
    BY <2>1, <2>2, Zenon DEF PageSize
  <2>5. Pooled' = Pooled /\ Root' = Root
    BY <2>1, Zenon DEF Pooled, Root
  <2>6. \A a : Handed(a)' = Handed(a)
    BY <2>2, <2>4, Zenon DEF Handed
  <2>7. PagesOK' = PagesOK
    BY <2>2, <2>4, <2>5, Zenon DEF PagesOK
  <2>8. StackOK' = StackOK
    BY <2>2, <2>6, Zenon DEF StackOK
  <2>9. TreeOK' = TreeOK
    BY <2>2, <2>5, <2>6, Zenon DEF TreeOK
  <2>10. CountOK' = CountOK
    BY <2>1, <2>2, Zenon DEF CountOK, data_length
  <2>11. HeaderOK' = HeaderOK
    BY <2>1, <2>2, Zenon DEF HeaderOK, Here, Load
  <2> QED
    BY <2>2, <2>3, <2>7, <2>8, <2>9, <2>10, <2>11, Zenon DEF TreeInv
<1> QED
  BY <1>1, <1>2, <1>3, <1>4, <1>5, <1>6, <1>7, Zenon DEF Next, Node

LEMMA TreeIsApart ==
  ASSUME TreeInv
  PROVE  NodesApart
<1> SUFFICES ASSUME Good
             PROVE  NodesApart
  BY Zenon DEF NodesApart
<1>1. DataOK /\ PagesOK /\ StackOK /\ TreeOK /\ CountOK
  BY Zenon DEF TreeInv
<1>2. NodesAreBacked
  <2>1. /\ left \in Nat /\ left = data_length - size - Pending(stack)
        /\ IsFiniteSet(DOMAIN node) /\ Cardinality(DOMAIN node) <= size
        /\ node_count \in Nat /\ node_count <= max.nodes
        /\ Cardinality(DOMAIN node) + Pending(stack) <= node_count
        /\ stack \in Seq(Level)
    BY <1>1, Zenon DEF CountOK, StackOK
  <2>2. Pending(stack) \in Nat /\ Cardinality(DOMAIN node) \in Nat
    BY <2>1, PendingType, FS_CardinalityType, Zenon
  <2>3. /\ base \in Nat /\ got \in Nat /\ size \in Nat /\ max.nodes \in Nat
        /\ data_length = got - base
        /\ how = "stream" => data_length <= max.size
    BY <1>1, Zenon DEF DataOK, data_length
  <2> DEFINE p == Pending(stack)
             x == Cardinality(DOMAIN node)
             d == data_length
             m == max.nodes
  <2>4. /\ p \in Nat /\ x \in Nat /\ m \in Nat /\ left \in Nat /\ d = got - base /\ left = d - size - p
        /\ x <= size /\ node_count <= m /\ x + p <= node_count
    BY <2>1, <2>2, <2>3, Zenon
  <2> HIDE DEF p, x, d, m
  <2>5. d \in Int /\ x + p <= d /\ x + p <= m /\ left >= 0 /\ m \in Int
    BY <2>1, <2>3, <2>4, SMT
  <2>6. Min({d, m}) \in {d, m}
    BY <2>5, MinOfTwo, Zenon
  <2>7. x + p <= Min({d, m})
    BY <2>5, <2>6, Zenon
  <2> QED
    BY <2>3, <2>4, <2>5, <2>7, Zenon DEF NodesAreBacked, p, x, d, m
<1>3. InPages(DOMAIN node)
  BY <1>1, Zenon DEF TreeOK, Handed, InPages
<1>4. \A i \in 1..Len(stack) : InPages(Block(stack[i].child, stack[i].left))
  BY <1>1, Zenon DEF StackOK, Handed, InPages
<1>5. nodes[2] + nodes_left = PageSize(nodes[1])
  BY <1>1, Zenon DEF PagesOK
<1>6. \A a, b \in DOMAIN node : a # b => Children(node[a]) \cap Children(node[b]) = {}
  BY <1>1, Zenon DEF TreeOK
<1>7. \A a \in DOMAIN node :
        \A c \in Children(node[a]) : c # Root /\ (c[1] = nodes[1] => c[2] < nodes[2])
  BY <1>1, Zenon DEF TreeOK, Handed
<1> QED
  BY <1>2, <1>3, <1>4, <1>5, <1>6, <1>7, Zenon DEF NodesApart

\* mpack-node.h:208-213 and mpack_tree_parse_children: for every source, limit, pool and
\* page size, there are never more nodes than bytes or than the limit allows, none is outside
\* of its page, and none is handed out twice, also when parsing pauses and goes on.
THEOREM NodesStayApart == Spec => []NodesApart
<1>1. Init => TreeInv
  BY InitTree
<1>2. TreeInv /\ [Next]_vars => TreeInv'
  BY StepTree
<1>3. TreeInv => NodesApart
  BY TreeIsApart
<1> QED
  BY <1>1, <1>2, <1>3, PTL DEF Spec

(***************************************************************************)
(* Words of 64 bits, from the highest byte on, as numbers.                 *)
(***************************************************************************)
Widths == {1, 2, 4, 8}

LEMMA WordBytes ==
  ASSUME NEW a \in Word, NEW i \in 1..8
  PROVE  a[i] \in Int /\ 0 <= a[i] /\ a[i] <= 255
<1>1. a[i] \in Byte
  BY Zenon DEF Word
<1> QED
  BY <1>1, SMT DEF Byte

\* Two words differ first in some byte.
LEMMA FirstDifference ==
  ASSUME NEW a \in Word, NEW b \in Word, a # b
  PROVE  \E i \in 1..8 : a[i] # b[i] /\ \A j \in 1..(i - 1) : a[j] = b[j]
<1> DEFINE T == {i \in 1..8 : a[i] # b[i]}
<1>1. T # {}
  <2>1. a \in [1..8 -> Byte] /\ b \in [1..8 -> Byte]
    BY Zenon DEF Word
  <2>2. a = [i \in 1..8 |-> a[i]] /\ b = [i \in 1..8 |-> b[i]]
    BY <2>1, Zenon
  <2>3. ASSUME \A i \in 1..8 : a[i] = b[i] PROVE a = b
    <3>1. [i \in 1..8 |-> a[i]] = [i \in 1..8 |-> b[i]]
      BY <2>3, Zenon
    <3> QED
      BY <2>2, <3>1, Zenon
  <2> QED
    BY <2>3, Zenon
<1>2. T \in SUBSET Nat
  BY SMT
<1>3. PICK i \in T : \A k \in T : i <= k
  <2> HIDE DEF T
  <2> QED
    BY <1>1, <1>2, Least, Zenon
<1>4. ASSUME NEW j \in 1..(i - 1) PROVE a[j] = b[j]
  <2>1. i \in 1..8
    BY Zenon
  <2>2. j \in 1..8 /\ ~(i <= j)
    BY <2>1, SMT
  <2> QED
    BY <1>3, <2>2, Zenon
<1> QED
  BY <1>3, <1>4, Zenon

\* The bytes above the lowest w are all b.
High(a, w, b) == \A i \in 1..(8 - w) : a[i] = b

LEMMA Places ==
  ASSUME NEW w \in Widths
  PROVE  /\ w \in 1..8 /\ w \in Nat /\ 9 - w \in 1..8 /\ 8 - w \in Nat
         /\ \A i \in 1..(8 - w) : i \in 1..8 /\ i < 9 - w /\ i \in Int
         /\ \A i \in 1..8 : i \in Int /\ (i < 9 - w => i \in 1..(8 - w))
                            /\ (~(i < 9 - w) /\ i # 9 - w => 9 - w < i)
         /\ \A i \in 1..8 : 9 - w < i => 9 - w \in 1..(i - 1) /\ \A j \in 1..(8 - w) : j \in 1..(i - 1)
         /\ 9 - w \in Int /\ \A j \in 1..(8 - w) : j \in 1..((9 - w) - 1)
<1>1. w = 1 \/ w = 2 \/ w = 4 \/ w = 8
  BY Zenon DEF Widths
<1> QED
  BY <1>1, SMT

LEMMA UIntMaxBytes ==
  ASSUME NEW w \in Widths
  PROVE  /\ UIntMax(w) \in Word
         /\ \A i \in 1..8 : (i < 9 - w => UIntMax(w)[i] = 0) /\ (~(i < 9 - w) => UIntMax(w)[i] = 255)
<1>1. 9 - w \in Int
  BY Places, Zenon
<1>2. UIntMax(w) = [i \in 1..8 |-> IF i >= 9 - w THEN 255 ELSE 0]
  BY Zenon DEF UIntMax, Ones
<1>3. \A i \in 1..8 : (i >= 9 - w) <=> ~(i < 9 - w)
  BY <1>1, SMT
<1>4. 0 \in Byte /\ 255 \in Byte
  BY SMT DEF Byte
<1>5. UIntMax(w) \in [1..8 -> Byte]
  BY <1>2, <1>4, SMT
<1> QED
  BY <1>2, <1>3, <1>5, SMT DEF Word

LEMMA IntMaxBytes ==
  ASSUME NEW w \in Widths
  PROVE  /\ IntMax(w) \in Word /\ IntMax(w)[9 - w] = 127
         /\ \A i \in 1..8 : (i < 9 - w => IntMax(w)[i] = 0) /\ (9 - w < i => IntMax(w)[i] = 255)
<1>1. 9 - w \in Int /\ 9 - w \in 1..8
  BY Places, Zenon
<1>2. UIntMax(w) \in [1..8 -> Byte]
  BY UIntMaxBytes, Zenon DEF Word
<1>3. IntMax(w) = [UIntMax(w) EXCEPT ![9 - w] = 127]
  BY Zenon DEF UIntMax, IntMax
<1>4. 127 \in Byte
  BY SMT DEF Byte
<1>5. IntMax(w) \in [1..8 -> Byte] /\ IntMax(w)[9 - w] = 127
      /\ \A i \in 1..8 : i # 9 - w => IntMax(w)[i] = UIntMax(w)[i]
  BY <1>1, <1>2, <1>3, <1>4, Zenon
<1>6. \A i \in 1..8 : (i < 9 - w => i # 9 - w) /\ (9 - w < i => i # 9 - w /\ ~(i < 9 - w))
  BY <1>1, SMT
<1> QED
  BY <1>5, <1>6, UIntMaxBytes DEF Word

LEMMA IntMinBytes ==
  ASSUME NEW w \in Widths
  PROVE  /\ IntMin(w) \in Word /\ IntMin(w)[9 - w] = 128
         /\ \A i \in 1..8 : (i < 9 - w => IntMin(w)[i] = 255) /\ (9 - w < i => IntMin(w)[i] = 0)
<1>1. 9 - w \in Int /\ 9 - w \in 1..8
  BY Places, Zenon
<1>2. IntMin(w) = [i \in 1..8 |-> IF i < 9 - w THEN 255 ELSE IF i = 9 - w THEN 128 ELSE 0]
  BY Zenon DEF IntMin
<1>3. 0 \in Byte /\ 128 \in Byte /\ 255 \in Byte
  BY SMT DEF Byte
<1>4. IntMin(w) \in [1..8 -> Byte]
  BY <1>2, <1>3, SMT
<1>5. ~(9 - w < 9 - w) /\ \A i \in 1..8 : 9 - w < i => i # 9 - w /\ ~(i < 9 - w)
  BY <1>1, SMT
<1> QED
  BY <1>1, <1>2, <1>4, <1>5, SMT DEF Word

(***************************************************************************)
(* What the limits bound: the bytes above, and the highest one below them. *)
(***************************************************************************)
\* Two words none of which is smaller in the bytes before c.
LEMMA BoundAt ==
  ASSUME NEW a \in Word, NEW b \in Word, NEW c \in 1..8,
         \A i \in 1..8 : i < c => ~(a[i] < b[i]),
         \A i \in 1..8 : c < i => a[i] <= b[i]
  PROVE  AtMost(a, b) <=> (\A i \in 1..8 : i < c => a[i] = b[i]) /\ a[c] <= b[c]
<1>1. ASSUME Smaller(a, b) PROVE (\A i \in 1..8 : i < c => a[i] = b[i]) /\ a[c] <= b[c]
  <2>1. PICK k \in 1..8 : a[k] < b[k] /\ \A j \in 1..(k - 1) : a[j] = b[j]
    BY <1>1, Zenon DEF Smaller
  <2>2. ~(k < c)
    BY <2>1, Zenon
  <2>3. ASSUME NEW i \in 1..8, i < c PROVE a[i] = b[i]
    <3>1. i \in 1..(k - 1)
      BY <2>2, <2>3, SMT
    <3> QED
      BY <2>1, <3>1, Zenon
  <2>4. a[c] <= b[c]
    <3>1. CASE c = k
      <4>1. a[k] \in Int /\ b[k] \in Int
        BY WordBytes, Zenon
      <4>2. a[k] <= b[k]
        BY <2>1, <4>1, SMT
      <4> QED
        BY <3>1, <4>2, Zenon
    <3>2. CASE c # k
      <4>1. c \in 1..(k - 1)
        BY <2>2, <3>2, SMT
      <4>2. a[c] = b[c]
        BY <2>1, <4>1, Zenon
      <4>3. a[c] \in Int
        BY WordBytes, Zenon
      <4> QED
        BY <4>2, <4>3, SMT
    <3> QED
      BY <3>1, <3>2, Zenon
  <2> QED
    BY <2>3, <2>4, Zenon
<1>2. ASSUME \A i \in 1..8 : i < c => a[i] = b[i], a[c] <= b[c], a # b PROVE Smaller(a, b)
  <2>1. PICK k \in 1..8 : a[k] # b[k] /\ \A j \in 1..(k - 1) : a[j] = b[j]
    BY <1>2, FirstDifference, Zenon
  <2>2. k = c \/ c < k
    <3>1. ~(k < c)
      BY <1>2, <2>1, Zenon
    <3> QED
      BY <3>1, SMT
  <2>3. a[k] <= b[k]
    BY <1>2, <2>2, Zenon
  <2>4. a[k] \in Int /\ b[k] \in Int
    BY WordBytes, Zenon
  <2>5. a[k] # b[k]
    BY <2>1, Zenon
  <2>6. a[k] < b[k]
    BY <2>3, <2>4, <2>5, SMT
  <2> QED
    BY <2>1, <2>6, Zenon DEF Smaller
<1>3. ASSUME a = b PROVE (\A i \in 1..8 : i < c => a[i] = b[i]) /\ a[c] <= b[c]
  <2>1. a[c] \in Int
    BY WordBytes, Zenon
  <2>2. a[c] <= a[c]
    BY <2>1, SMT
  <2> QED
    BY <1>3, <2>2, Zenon
<1> QED
  BY <1>1, <1>2, <1>3, Zenon DEF AtMost

LEMMA HighBytes ==
  ASSUME NEW a \in Word, NEW w \in Widths, NEW b
  PROVE  High(a, w, b) <=> \A i \in 1..8 : i < 9 - w => a[i] = b
<1>1. \A i \in 1..8 : i < 9 - w => i \in 1..(8 - w)
  BY Places, Zenon
<1>2. \A i \in 1..(8 - w) : i \in 1..8 /\ i < 9 - w
  BY Places, Zenon
<1> QED
  BY <1>1, <1>2, Zenon DEF High

LEMMA WordInts ==
  ASSUME NEW a \in Word
  PROVE  \A i \in 1..8 : i \in Int /\ a[i] \in Int /\ 0 <= a[i] /\ a[i] <= 255
<1>1. ASSUME NEW i \in 1..8 PROVE i \in Int /\ a[i] \in Int /\ 0 <= a[i] /\ a[i] <= 255
  BY WordBytes, SMT
<1> QED
  BY <1>1

LEMMA BelowLimit ==
  ASSUME NEW a \in Word, NEW u \in Word, NEW c \in 1..8,
         \A i \in 1..8 : i < c => u[i] = 0, \A i \in 1..8 : c < i => u[i] = 255
  PROVE  AtMost(a, u) <=> (\A i \in 1..8 : i < c => a[i] = 0) /\ a[c] <= u[c]
<1>1. \A i \in 1..8 : i < c => ~(a[i] < u[i])
  BY WordInts, SMT
<1>2. \A i \in 1..8 : c < i => a[i] <= u[i]
  BY WordInts, SMT
<1>3. AtMost(a, u) <=> (\A i \in 1..8 : i < c => a[i] = u[i]) /\ a[c] <= u[c]
  BY <1>1, <1>2, BoundAt
<1>4. (\A i \in 1..8 : i < c => a[i] = u[i]) <=> \A i \in 1..8 : i < c => a[i] = 0
  BY SMT
<1> QED
  BY <1>3, <1>4

LEMMA AboveLimit ==
  ASSUME NEW a \in Word, NEW u \in Word, NEW c \in 1..8,
         \A i \in 1..8 : i < c => u[i] = 255, \A i \in 1..8 : c < i => u[i] = 0
  PROVE  AtMost(u, a) <=> (\A i \in 1..8 : i < c => a[i] = 255) /\ u[c] <= a[c]
<1>1. \A i \in 1..8 : i < c => ~(u[i] < a[i])
  BY WordInts, SMT
<1>2. \A i \in 1..8 : c < i => u[i] <= a[i]
  BY WordInts, SMT
<1>3. AtMost(u, a) <=> (\A i \in 1..8 : i < c => u[i] = a[i]) /\ u[c] <= a[c]
  BY <1>1, <1>2, BoundAt
<1>4. (\A i \in 1..8 : i < c => u[i] = a[i]) <=> \A i \in 1..8 : i < c => a[i] = 255
  BY SMT
<1> QED
  BY <1>3, <1>4

LEMMA AtMostUInt ==
  ASSUME NEW a \in Word, NEW w \in Widths
  PROVE  AtMost(a, UIntMax(w)) <=> High(a, w, 0)
<1>1. UIntMax(w) \in Word /\ 9 - w \in 1..8 /\ 9 - w \in Int
  BY UIntMaxBytes, Places
<1>2. \A i \in 1..8 : i < 9 - w => UIntMax(w)[i] = 0
  BY UIntMaxBytes
<1>3. UIntMax(w)[9 - w] = 255 /\ \A i \in 1..8 : 9 - w < i => UIntMax(w)[i] = 255
  <2>1. ~(9 - w < 9 - w) /\ \A i \in 1..8 : 9 - w < i => ~(i < 9 - w)
    BY <1>1, SMT
  <2> QED
    BY <1>1, <2>1, UIntMaxBytes
<1>4. AtMost(a, UIntMax(w)) <=> (\A i \in 1..8 : i < 9 - w => a[i] = 0) /\ a[9 - w] <= UIntMax(w)[9 - w]
  BY <1>1, <1>2, <1>3, BelowLimit
<1>5. a[9 - w] <= 255
  BY <1>1, WordInts
<1> QED
  BY <1>3, <1>4, <1>5, HighBytes

LEMMA AtMostInt ==
  ASSUME NEW a \in Word, NEW w \in Widths
  PROVE  AtMost(a, IntMax(w)) <=> High(a, w, 0) /\ a[9 - w] <= 127
<1>1. IntMax(w) \in Word /\ 9 - w \in 1..8 /\ 9 - w \in Int
  BY IntMaxBytes, Places
<1>2. \A i \in 1..8 : i < 9 - w => IntMax(w)[i] = 0
  BY IntMaxBytes
<1>3. IntMax(w)[9 - w] = 127 /\ \A i \in 1..8 : 9 - w < i => IntMax(w)[i] = 255
  BY IntMaxBytes
<1>4. AtMost(a, IntMax(w)) <=> (\A i \in 1..8 : i < 9 - w => a[i] = 0) /\ a[9 - w] <= IntMax(w)[9 - w]
  BY <1>1, <1>2, <1>3, BelowLimit
<1> QED
  BY <1>3, <1>4, HighBytes

LEMMA AtLeastInt ==
  ASSUME NEW a \in Word, NEW w \in Widths
  PROVE  AtMost(IntMin(w), a) <=> High(a, w, 255) /\ 128 <= a[9 - w]
<1>1. IntMin(w) \in Word /\ 9 - w \in 1..8 /\ 9 - w \in Int
  BY IntMinBytes, Places
<1>2. \A i \in 1..8 : i < 9 - w => IntMin(w)[i] = 255
  BY IntMinBytes
<1>3. IntMin(w)[9 - w] = 128 /\ \A i \in 1..8 : 9 - w < i => IntMin(w)[i] = 0
  BY IntMinBytes
<1>4. AtMost(IntMin(w), a) <=> (\A i \in 1..8 : i < 9 - w => a[i] = 255) /\ IntMin(w)[9 - w] <= a[9 - w]
  BY <1>1, <1>2, <1>3, AboveLimit
<1> QED
  BY <1>3, <1>4, HighBytes

(***************************************************************************)
(* A number in w bytes, and in 64 bits again.                              *)
(***************************************************************************)
LEMMA LowBytes ==
  ASSUME NEW v \in Word, NEW w \in Widths
  PROVE  /\ Low(v, w) \in Seq(Byte) /\ Len(Low(v, w)) = w
         /\ \A i \in 1..w : Low(v, w)[i] = v[9 - w + i - 1]
<1>1. w \in Nat /\ 9 - w \in Int /\ 9 - w <= 8 /\ 8 \in Int /\ 8 - (9 - w) + 1 = w /\ 1 <= 9 - w
  BY Places, SMT
<1>2. \A i \in (9 - w)..8 : v[i] \in Byte
  <2>1. \A i \in (9 - w)..8 : i \in 1..8
    BY <1>1, SMT
  <2> QED
    BY <2>1, Zenon DEF Word
<1>3. /\ SubSeq(v, 9 - w, 8) \in Seq(Byte)
      /\ Len(SubSeq(v, 9 - w, 8)) = IF 9 - w <= 8 THEN 8 - (9 - w) + 1 ELSE 0
      /\ \A i \in 1..(8 - (9 - w) + 1) : SubSeq(v, 9 - w, 8)[i] = v[9 - w + i - 1]
  BY <1>1, <1>2, SubSeqProperties
<1> QED
  BY <1>1, <1>3, Zenon DEF Low

LEMMA Padded ==
  ASSUME NEW v \in Word, NEW w \in Widths, NEW pad \in Byte
  PROVE  [i \in 1..(8 - w) |-> pad] \o Low(v, w) = v <=> High(v, w, pad)
<1> DEFINE p == [i \in 1..(8 - w) |-> pad]
           l == Low(v, w)
           e == p \o l
<1>1. w \in Nat /\ 8 - w \in Nat /\ (8 - w) + w = 8
  BY Places, SMT
<1>2. p \in Seq(Byte) /\ Len(p) = 8 - w /\ \A i \in 1..(8 - w) : p[i] = pad
  <2>1. p \in [1..(8 - w) -> Byte]
    BY Zenon
  <2>2. p \in Seq(Byte)
    BY <1>1, <2>1, SeqDef, Zenon
  <2>3. Len(p) = 8 - w
    <3>1. Len(p) \in Nat /\ DOMAIN p = 1..Len(p) /\ DOMAIN p = 1..(8 - w)
      BY <2>2, LenProperties, Zenon
    <3> HIDE DEF p
    <3> QED
      BY <1>1, <3>1, SMT
  <2> QED
    BY <2>2, <2>3, Zenon
<1>3. l \in Seq(Byte) /\ Len(l) = w /\ \A i \in 1..w : l[i] = v[9 - w + i - 1]
  BY LowBytes, Zenon
<1> HIDE DEF p, l
<1>4. /\ e \in Seq(Byte) /\ Len(e) = Len(p) + Len(l)
      /\ \A i \in 1..(Len(p) + Len(l)) : e[i] = IF i <= Len(p) THEN p[i] ELSE l[i - Len(p)]
  BY <1>2, <1>3, ConcatProperties, Zenon
<1> HIDE DEF e
<1>5. Len(e) = 8 /\ \A i \in 1..8 : e[i] = IF i <= 8 - w THEN p[i] ELSE l[i - (8 - w)]
  BY <1>1, <1>2, <1>3, <1>4, Zenon
<1>6. e \in Word
  BY <1>4, <1>5, LenProperties, Zenon DEF Word
<1>7. ASSUME NEW i \in 1..8 PROVE e[i] = IF i <= 8 - w THEN pad ELSE v[i]
  <2>1. CASE i <= 8 - w
    <3>1. i \in 1..(8 - w)
      BY <1>1, <2>1, SMT
    <3> QED
      BY <1>2, <1>5, <2>1, <3>1, Zenon
  <2>2. CASE ~(i <= 8 - w)
    <3>1. i - (8 - w) \in 1..w /\ 9 - w + (i - (8 - w)) - 1 = i
      BY <1>1, <2>2, SMT
    <3>2. e[i] = l[i - (8 - w)]
      BY <1>5, <2>2, Zenon
    <3>3. l[i - (8 - w)] = v[i]
      BY <1>3, <3>1, Zenon
    <3> QED
      BY <2>2, <3>2, <3>3, Zenon
  <2> QED
    BY <2>1, <2>2, Zenon
<1>8. ASSUME High(v, w, pad), e # v PROVE FALSE
  <2>1. PICK i \in 1..8 : e[i] # v[i]
    BY <1>6, <1>8, FirstDifference, Zenon
  <2>2. i <= 8 - w
    BY <1>7, <2>1, Zenon
  <2>3. i \in 1..(8 - w)
    BY <1>1, <2>2, SMT
  <2> QED
    BY <1>7, <1>8, <2>1, <2>2, <2>3, Zenon DEF High
<1>9. ASSUME e = v PROVE High(v, w, pad)
  <2>1. ASSUME NEW i \in 1..(8 - w) PROVE v[i] = pad
    <3>1. i \in 1..8 /\ i <= 8 - w
      BY <1>1, SMT
    <3> QED
      BY <1>7, <1>9, <3>1, Zenon
  <2> QED
    BY <2>1, Zenon DEF High
<1> QED
  BY <1>8, <1>9, Zenon DEF e, p, l

LEMMA LowExtends ==
  ASSUME NEW v \in Word, NEW w \in Widths, NEW signed \in BOOLEAN
  PROVE  /\ Low(v, w)[1] = v[9 - w]
         /\ Extend(Low(v, w), signed) = v
            <=> High(v, w, IF signed /\ v[9 - w] >= 128 THEN 255 ELSE 0)
<1> DEFINE l == Low(v, w)
           pad == IF signed /\ l[1] >= 128 THEN 255 ELSE 0
<1>1. l[1] = v[9 - w]
  <2>1. 1 \in 1..w /\ 9 - w + 1 - 1 = 9 - w
    BY Places, SMT
  <2> QED
    BY <2>1, LowBytes, Zenon
<1>2. pad \in Byte
  BY SMT DEF Byte
<1>3. Extend(l, signed) = [i \in 1..(8 - Len(l)) |-> pad] \o l
  BY DEF Extend
<1>4. Len(l) = w
  BY LowBytes, Zenon
<1> HIDE DEF pad
<1>5. Extend(l, signed) = [i \in 1..(8 - w) |-> pad] \o l
  BY <1>3, <1>4, Zenon
<1>6. Extend(l, signed) = v <=> High(v, w, pad)
  BY <1>2, <1>5, Padded, Zenon
<1> HIDE DEF l
<1>7. pad = IF signed /\ v[9 - w] >= 128 THEN 255 ELSE 0
  BY <1>1, SMT DEF pad
<1> QED
  BY <1>1, <1>6, <1>7 DEF l
(***************************************************************************)
(* A number is read exactly by the functions whose type has it.            *)
(***************************************************************************)
\* w bytes of n, signed or not, are the number n.
ReadAsItself(n, w, signed) ==
  IsInteger(n) /\ <<signed /\ Low(n.v, w)[1] >= 128, Extend(Low(n.v, w), signed)>> = NumberOf(n)

LEMMA UnsignedReads ==
  ASSUME NEW n, IsInteger(n) => n.v \in Word, NEW w \in Widths
  PROVE  FitsUnsigned(n, w) <=> ReadAsItself(n, w, FALSE)
<1>1. CASE ~IsInteger(n)
  BY <1>1, Zenon DEF IsInteger, FitsUnsigned, ReadAsItself
<1>2. CASE IsInteger(n)
  <2>1. n.v \in Word
    BY <1>2, Zenon
  <2>2. AtMost(n.v, UIntMax(w)) <=> High(n.v, w, 0)
    BY <2>1, AtMostUInt, Zenon
  <2>3. Extend(Low(n.v, w), FALSE) = n.v <=> High(n.v, w, 0)
    <3> DEFINE pad == IF FALSE /\ n.v[9 - w] >= 128 THEN 255 ELSE 0
    <3>1. Extend(Low(n.v, w), FALSE) = n.v <=> High(n.v, w, pad)
      BY <2>1, LowExtends, Zenon
    <3>2. pad = 0
      OBVIOUS
    <3> HIDE DEF pad
    <3> QED
      BY <3>1, <3>2, Zenon
  <2>4. ReadAsItself(n, w, FALSE) <=> ~(n.type = "int" /\ Negative(n.v)) /\ Extend(Low(n.v, w), FALSE) = n.v
    BY <1>2, Zenon DEF ReadAsItself, NumberOf
  <2>5. n.type = "uint" \/ n.type = "int"
    BY <1>2, Zenon DEF IsInteger
  <2> QED
    BY <2>2, <2>3, <2>4, <2>5, Zenon DEF FitsUnsigned
<1> QED
  BY <1>1, <1>2, Zenon

\* The byte of a negative number's upper places.
Full == 255

LEMMA SignedReads ==
  ASSUME NEW n, IsInteger(n) => n.v \in Word, NEW w \in Widths
  PROVE  FitsSigned(n, w) <=> ReadAsItself(n, w, TRUE)
<1>1. CASE ~IsInteger(n)
  BY <1>1, Zenon DEF IsInteger, FitsSigned, ReadAsItself
<1>2. CASE IsInteger(n)
  <2> DEFINE hi == n.v[9 - w] >= 128
  <2>1. n.v \in Word
    BY <1>2, Zenon
  <2>2. AtMost(n.v, IntMax(w)) <=> High(n.v, w, 0) /\ ~hi
    <3>1. n.v[9 - w] \in Int
      BY <2>1, Places, WordInts
    <3> QED
      BY <2>1, <3>1, AtMostInt, SMT
  <2>3. AtMost(IntMin(w), n.v) <=> High(n.v, w, Full) /\ hi
    <3>1. n.v[9 - w] \in Int
      BY <2>1, Places, WordInts
    <3> QED
      BY <2>1, <3>1, AtLeastInt, SMT DEF Full
  <2>4. Low(n.v, w)[1] = n.v[9 - w]
    BY <2>1, LowExtends, Zenon
  <2>5. Extend(Low(n.v, w), TRUE) = n.v <=> High(n.v, w, IF TRUE /\ hi THEN 255 ELSE 0)
    BY <2>1, LowExtends, Zenon
  <2>6. ReadAsItself(n, w, TRUE)
        <=> ((Low(n.v, w)[1] >= 128) <=> (n.type = "int" /\ Negative(n.v))) /\ Extend(Low(n.v, w), TRUE) = n.v
    BY <1>2, Zenon DEF ReadAsItself, NumberOf
  <2>7. (Low(n.v, w)[1] >= 128) <=> hi
    BY <2>4, SMT
  <2>8. (hi => (Extend(Low(n.v, w), TRUE) = n.v <=> High(n.v, w, Full)))
        /\ (~hi => (Extend(Low(n.v, w), TRUE) = n.v <=> High(n.v, w, 0)))
    <3> DEFINE pad == IF TRUE /\ hi THEN 255 ELSE 0
    <3>1. Extend(Low(n.v, w), TRUE) = n.v <=> High(n.v, w, pad)
      BY <2>5, Zenon
    <3>2. (hi => pad = Full) /\ (~hi => pad = 0)
      BY SMT DEF Full
    <3> HIDE DEF pad, hi
    <3>3. CASE hi
      <4>1. pad = Full
        BY <3>2, <3>3, Zenon
      <4> QED
        BY <3>1, <3>3, <4>1, Zenon
    <3>4. CASE ~hi
      <4>1. pad = 0
        BY <3>2, <3>4, Zenon
      <4> QED
        BY <3>1, <3>4, <4>1, Zenon
    <3> QED
      BY <3>3, <3>4, Zenon
  <2>9. n.type = "uint" \/ n.type = "int"
    BY <1>2, Zenon DEF IsInteger
  <2> HIDE DEF hi
  <2> QED
    BY <2>2, <2>3, <2>6, <2>7, <2>8, <2>9, Zenon DEF FitsSigned, AboveMin
<1> QED
  BY <1>1, <1>2, Zenon

(***************************************************************************)
(* The calls.  Every one asks the root or the node that was given last.    *)
(***************************************************************************)
Given == Nodes \cup {Nil, MissingNode}
NodeInv == root \in Given /\ held \in Given

Asked == from' \in {root, held} /\ root' = root

\* What a call of an integer function does.
Reads(name, w, signed) ==
  LET fits == IF signed THEN FitsSigned(from', w) ELSE FitsUnsigned(from', w)
  IN /\ Asked /\ held' = held /\ fn' = name
     /\ IF flagged = "ok" /\ fits THEN flagged' = "ok" /\ out'.v = Low(from'.v, w)
        ELSE flagged' = (IF flagged = "ok" THEN "type" ELSE flagged) /\ out'.v = Zeros(w)

LEMMA ValueOf ==
  ASSUME NEW x
  PROVE  Result(x).v = x
BY SMT DEF Result, Nothing

LEMMA UnsignedCall ==
  ASSUME NEW name, NEW w, Unsigned(name, w)
  PROVE  Reads(name, w, FALSE)
<1>1. PICK n \in {root, held} :
        IF Clear /\ FitsUnsigned(n, w) THEN Call(n, name, NoArgs, Result(Low(n.v, w)), "ok", held)
        ELSE Call(n, name, NoArgs, Result(Zeros(w)), "type", held)
  BY Zenon DEF Unsigned, Gets
<1>2. CASE Clear /\ FitsUnsigned(n, w)
  BY <1>1, <1>2, ValueOf, Zenon DEF Call, mpack_tree_flag_error, Clear, Reads, Asked
<1>3. CASE ~(Clear /\ FitsUnsigned(n, w))
  BY <1>1, <1>3, ValueOf, Zenon DEF Call, mpack_tree_flag_error, Clear, Reads, Asked
<1> QED
  BY <1>2, <1>3, Zenon

LEMMA SignedCall ==
  ASSUME NEW name, NEW w, Signed(name, w)
  PROVE  Reads(name, w, TRUE)
<1>1. PICK n \in {root, held} :
        IF Clear /\ FitsSigned(n, w) THEN Call(n, name, NoArgs, Result(Low(n.v, w)), "ok", held)
        ELSE Call(n, name, NoArgs, Result(Zeros(w)), "type", held)
  BY Zenon DEF Signed, Gets
<1>2. CASE Clear /\ FitsSigned(n, w)
  BY <1>1, <1>2, ValueOf, Zenon DEF Call, mpack_tree_flag_error, Clear, Reads, Asked
<1>3. CASE ~(Clear /\ FitsSigned(n, w))
  BY <1>1, <1>3, ValueOf, Zenon DEF Call, mpack_tree_flag_error, Clear, Reads, Asked
<1> QED
  BY <1>2, <1>3, Zenon

LEMMA IntegerCalls ==
  ASSUME Integer \/ mpack_node_uint \/ mpack_node_int
  PROVE  /\ fn' \in DOMAIN Width /\ Width[fn'] \in Widths
         /\ Reads(fn', Width[fn'], fn' \in SignedFns)
<1>1. DOMAIN Width = {"u8", "i8", "u16", "i16", "u32", "i32", "u64", "i64", "uint", "int"}
  BY SMT DEF Width
<1>2. /\ Width["u8"] = 1 /\ Width["i8"] = 1 /\ Width["u16"] = 2 /\ Width["i16"] = 2 /\ Width["u32"] = 4
      /\ Width["i32"] = 4 /\ Width["u64"] = 8 /\ Width["i64"] = 8 /\ Width["uint"] = 4 /\ Width["int"] = 4
  BY SMT DEF Width
<1>3. ASSUME NEW name \in {"u8", "u16", "u32", "u64", "uint"}, NEW w \in Widths, Width[name] = w, Unsigned(name, w)
      PROVE  fn' = name /\ Reads(fn', Width[fn'], fn' \in SignedFns)
  <2>1. Reads(name, w, FALSE)
    BY <1>3, UnsignedCall, Zenon
  <2>2. fn' = name /\ (fn' \in SignedFns) = FALSE
    <3>1. fn' = name
      BY <2>1, Zenon DEF Reads
    <3>2. ~(name \in SignedFns)
      BY SMT DEF SignedFns
    <3>3. ~(fn' \in SignedFns)
      BY <3>1, <3>2, Zenon
    <3> QED
      BY <3>1, <3>3
  <2> QED
    BY <1>3, <2>1, <2>2, Zenon
<1>4. ASSUME NEW name \in {"i8", "i16", "i32", "i64", "int"}, NEW w \in Widths, Width[name] = w, Signed(name, w)
      PROVE  fn' = name /\ Reads(fn', Width[fn'], fn' \in SignedFns)
  <2>1. Reads(name, w, TRUE)
    BY <1>4, SignedCall, Zenon
  <2>2. fn' = name /\ (fn' \in SignedFns) = TRUE
    BY <2>1, Zenon DEF Reads, SignedFns
  <2> QED
    BY <1>4, <2>1, <2>2, Zenon
<1>5. \/ \E name \in {"u8", "u16", "u32", "u64", "uint"}, w \in Widths : Width[name] = w /\ Unsigned(name, w)
      \/ \E name \in {"i8", "i16", "i32", "i64", "int"}, w \in Widths : Width[name] = w /\ Signed(name, w)
  BY <1>2, Zenon DEF Integer, mpack_node_uint, mpack_node_int, Widths
<1>6. fn' \in DOMAIN Width /\ Reads(fn', Width[fn'], fn' \in SignedFns)
  BY <1>1, <1>3, <1>4, <1>5, Zenon
<1> QED
  BY <1>1, <1>2, <1>6, Zenon DEF Widths
(***************************************************************************)
(* The calls of all other kinds: their names, and that the tree stays the  *)
(* caller's.                                                               *)
(***************************************************************************)
LookupFns == {"map_int", "map_uint", "map_str"}

\* A call that is neither an integer function nor a lookup.
Elsewhere(names) == Asked /\ fn' \in names /\ held' = held

LEMMA FloatingCalls ==
  ASSUME Floating
  PROVE  Elsewhere({"float", "double", "float_strict", "double_strict"})
BY Zenon DEF Floating, Converted, Gets, Call, Elsewhere, Asked

LEMMA PlainCalls ==
  ASSUME mpack_node_type \/ mpack_node_tag \/ mpack_node_is_nil \/ mpack_node_is_missing \/ mpack_node_bool
  PROVE  Elsewhere({"type", "tag", "is_nil", "is_missing", "bool"})
BY Zenon DEF mpack_node_type, mpack_node_tag, mpack_node_is_nil, mpack_node_is_missing, mpack_node_bool,
             Gets, Call, Elsewhere, Asked

LEMMA CheckedCalls ==
  ASSUME Checked \/ mpack_node_check_utf8 \/ mpack_node_check_utf8_cstr
  PROVE  Elsewhere({"nil", "missing", "true", "false", "check_utf8", "check_utf8_cstr"})
BY Zenon DEF Checked, Checks, mpack_node_check_utf8, mpack_node_check_utf8_cstr, Gets, Call, Elsewhere, Asked

LEMMA LengthCalls ==
  ASSUME Lengths \/ Pointers \/ Counts
  PROVE  Elsewhere({"data_len", "strlen", "bin_size", "str", "data", "bin_data", "array_length", "map_count"})
BY Zenon DEF Lengths, Pointers, Counts, Gets, Call, Elsewhere, Asked

LEMMA EnumCalls ==
  ASSUME Enums
  PROVE  Elsewhere({"enum_optional", "enum"})
BY Zenon DEF Enums, Gets, Call, Elsewhere, Asked

LEMMA CopyCalls ==
  ASSUME Copied
  PROVE  Elsewhere({"copy_data", "copy_utf8", "copy_cstr", "copy_utf8_cstr"})
BY ZenonT(30) DEF Copied, Copies, CopiesTo, Call, Elsewhere, Asked

LEMMA AllocCalls ==
  ASSUME Allocated
  PROVE  Elsewhere({"data_alloc", "cstr_alloc", "utf8_cstr_alloc"})
BY Zenon DEF Allocated, Allocates, Call, Elsewhere, Asked

LEMMA ChildrenAreNodes ==
  ASSUME NodesOK, NEW n \in Given
  PROVE  /\ n.type = "array" => \A i \in Nat : i < n.len => n.children[i + 1] \in Nodes
         /\ n.type = "map" => \A i \in Nat : i < n.len =>
              n.children[2 * i + 1] \in Nodes /\ n.children[2 * i + 2] \in Nodes
         /\ n.type = "map" => \A i \in 1..n.len : i - 1 \in Nat /\ i - 1 < n.len /\ 2 * (i - 1) + 2 = 2 * i
<1>1. CASE n \in Nodes
  <2>1. /\ n.len \in Nat
        /\ n.type = "array" => n.children \in Seq(Nodes) /\ Len(n.children) = n.len
        /\ n.type = "map" => n.children \in Seq(Nodes) /\ Len(n.children) = 2 * n.len
    BY <1>1, Zenon DEF NodesOK
  <2>2. ASSUME n.type = "array", NEW i \in Nat, i < n.len PROVE n.children[i + 1] \in Nodes
    <3>1. i + 1 \in 1..Len(n.children)
      BY <2>1, <2>2, SMT
    <3> QED
      BY <2>1, <2>2, <3>1, ElementOfSeq, Zenon
  <2>3. ASSUME n.type = "map", NEW i \in Nat, i < n.len
        PROVE  n.children[2 * i + 1] \in Nodes /\ n.children[2 * i + 2] \in Nodes
    <3>1. 2 * i + 1 \in 1..Len(n.children) /\ 2 * i + 2 \in 1..Len(n.children)
      BY <2>1, <2>3, SMT
    <3> QED
      BY <2>1, <2>3, <3>1, ElementOfSeq, Zenon
  <2>4. \A i \in 1..n.len : i - 1 \in Nat /\ i - 1 < n.len /\ 2 * (i - 1) + 2 = 2 * i
    BY <2>1, SMT
  <2> QED
    BY <2>2, <2>3, <2>4, Zenon
<1>2. CASE n \in {Nil, MissingNode}
  <2>1. n.type # "array" /\ n.type # "map"
    BY <1>2, SMT DEF Nil, MissingNode
  <2> QED
    BY <2>1, Zenon
<1> QED
  BY <1>1, <1>2, Zenon DEF Given

LEMMA MapIsNode ==
  ASSUME NEW n \in Given, n.type = "map"
  PROVE  n \in Nodes
<1>1. ASSUME n \in {Nil, MissingNode} PROVE n.type # "array" /\ n.type # "map"
  BY <1>1, SMT DEF Nil, MissingNode
<1> QED
  BY <1>1, Zenon DEF Given

LEMMA ElementCalls ==
  ASSUME NodesOK, NodeInv, Members
  PROVE  Asked /\ fn' \in {"array_at", "map_key_at", "map_value_at"} /\ held' \in Given
<1>1. Indices \subseteq Nat
  BY SMT DEF NodesOK
<1>2. \A n \in {root, held} : n \in Given
  BY Zenon DEF NodeInv
<1>3. Nil \in Given
  BY Zenon DEF Given
<1>4. PICK n \in {root, held}, i \in Indices :
        \/ /\ n.type = "array" /\ i < n.len /\ from' = n /\ fn' = "array_at" /\ root' = root
           /\ held' = n.children[i + 1]
        \/ /\ n.type = "map" /\ i < n.len /\ from' = n /\ fn' = "map_key_at" /\ root' = root
           /\ held' = n.children[2 * i + 1]
        \/ /\ n.type = "map" /\ i < n.len /\ from' = n /\ fn' = "map_value_at" /\ root' = root
           /\ held' = n.children[2 * i + 2]
        \/ /\ from' = n /\ fn' \in {"array_at", "map_key_at", "map_value_at"} /\ root' = root
           /\ held' = Nil
  BY Zenon DEF Members, At, Call
<1>5. i \in Nat /\ n \in Given
  BY <1>1, <1>2, Zenon
<1>6. held' \in Nodes \cup {Nil}
  BY <1>4, <1>5, ChildrenAreNodes, Zenon
<1> QED
  BY <1>4, <1>6, Zenon DEF Asked, Given

LEMMA OtherNames ==
  /\ DOMAIN Width = {"u8", "i8", "u16", "i16", "u32", "i32", "u64", "i64", "uint", "int"}
  /\ LookupFns \cap DOMAIN Width = {}
  /\ \A name \in
       {"float", "double", "float_strict", "double_strict", "type", "tag", "is_nil", "is_missing", "bool",
        "nil", "missing", "true", "false", "check_utf8", "check_utf8_cstr",
        "data_len", "strlen", "bin_size", "str", "data", "bin_data", "array_length", "map_count",
        "enum_optional", "enum", "copy_data", "copy_utf8", "copy_cstr", "copy_utf8_cstr",
        "data_alloc", "cstr_alloc", "utf8_cstr_alloc", "array_at", "map_key_at", "map_value_at"} :
       name \notin DOMAIN Width /\ name \notin LookupFns
<1>1. DOMAIN Width = {"u8", "i8", "u16", "i16", "u32", "i32", "u64", "i64", "uint", "int"}
  BY SMT DEF Width
<1> QED
  BY <1>1, SMT DEF LookupFns

(***************************************************************************)
(* The lookups.                                                            *)
(***************************************************************************)
Forms == {"", "_optional", "_contains"}

\* A lookup in n of which found are the places, in a form.
Answers(n, form, found) ==
  LET gives == IF form = "_contains" THEN held ELSE Nil
  IN IF n.type # "map" THEN flagged' = "type" /\ held' = gives
     ELSE IF Cardinality(found) > 1 THEN flagged' = "data" /\ held' = gives
     ELSE IF found = {} THEN
       CASE form = "" -> flagged' = "data" /\ held' = Nil
         [] form = "_optional" -> flagged' = "ok" /\ held' = MissingNode
         [] form = "_contains" -> flagged' = "ok" /\ held' = held /\ ~out'.flag
     ELSE /\ flagged' = "ok"
          /\ IF form = "_contains" THEN out'.flag /\ held' = held
             ELSE \A i \in found : held' = n.children[2 * i]

LEMMA OneElement ==
  ASSUME NEW k, k \in Nat, NEW T \in SUBSET (1..k), ~(Cardinality(T) > 1), NEW i \in T, NEW j \in T
  PROVE  i = j
<1>1. IsFiniteSet(T) /\ Cardinality(T) \in Nat
  <2>1. IsFiniteSet(1..k)
    BY FS_Interval
  <2>2. IsFiniteSet(T)
    BY <2>1, FS_Subset
  <2> QED
    BY <2>2, FS_CardinalityType
<1>2. ASSUME i # j PROVE FALSE
  <2>1. Cardinality({i, j}) = 2
    <3>1. IsFiniteSet({i}) /\ Cardinality({i}) = 1
      BY FS_Singleton
    <3>2. Cardinality({i} \cup {j}) = Cardinality({i}) + 1
      BY <1>2, <3>1, FS_AddElement
    <3>3. {i} \cup {j} = {i, j}
      OBVIOUS
    <3> QED
      BY <3>1, <3>2, <3>3
  <2>2. Cardinality({i, j}) <= Cardinality(T)
    BY <1>1, FS_Subset
  <2> QED
    BY <1>1, <2>1, <2>2, SMT
<1> QED
  BY <1>2

LEMMA FormOf ==
  ASSUME NEW args, DOMAIN args = {"number", "string", "index", "size", "form"}, NEW form
  PROVE  /\ [args EXCEPT !.form = form].form = form
         /\ [args EXCEPT !.form = form].number = args.number
         /\ [args EXCEPT !.form = form].string = args.string
BY SMT

\* What is said of given after a lookup.
Told(args) == arguments'.form \in Forms /\ arguments'.number = args.number /\ arguments'.string = args.string

LEMMA Flags ==
  Nothing.flag = FALSE /\ Flag(TRUE).flag = TRUE
BY SMT DEF Nothing, Flag
\* A call of a lookup that ends in a form.
Ends(n, name, args, form, result, e, next) ==
  /\ form \in Forms /\ Call(n, name, [args EXCEPT !.form = form], result, e, next)

LEMMA EndsOf ==
  ASSUME NEW n, NEW name, NEW args, DOMAIN args = {"number", "string", "index", "size", "form"}, NEW form,
         NEW result, NEW e, NEW next, Ends(n, name, args, form, result, e, next)
  PROVE  /\ from' = n /\ root' = root /\ fn' = name /\ Told(args) /\ arguments'.form = form
         /\ held' = next /\ out' = result /\ flagged' = IF flagged = "ok" THEN e ELSE flagged
<1>1. /\ from' = n /\ root' = root /\ fn' = name /\ held' = next /\ out' = result
      /\ flagged' = IF flagged = "ok" THEN e ELSE flagged
      /\ form \in Forms /\ arguments' = [args EXCEPT !.form = form]
  BY Zenon DEF Ends, Call, mpack_tree_flag_error
<1>2. arguments'.form = form /\ arguments'.number = args.number /\ arguments'.string = args.string
  BY <1>1, FormOf, Zenon
<1> QED
  BY <1>1, <1>2, Zenon DEF Told

LEMMA LookedUpAnswers ==
  ASSUME NodesOK, NodeInv, NEW name, NEW args, DOMAIN args = {"number", "string", "index", "size", "form"},
         NEW n \in {root, held}, NEW found, n.type = "map" => found \in SUBSET (1..n.len),
         LookedUp(name, args, n, found)
  PROVE  /\ from' = n /\ root' = root /\ fn' = name /\ Told(args) /\ held' \in Given
         /\ flagged = "ok" => Answers(n, arguments'.form, found)
<1>1. held \in Given /\ n \in Given /\ Nil \in Given /\ MissingNode \in Given
  BY Zenon DEF NodeInv, Given
<1> DEFINE E(form, result, e, next) == Ends(n, name, args, form, result, e, next)
<1>2. CASE flagged # "ok"
  <2>1. PICK form \in Forms, next \in {Nil, held} : E(form, Nothing, "ok", next)
    BY <1>2, Zenon DEF LookedUp, Ends, Forms
  <2> QED
    BY <1>1, <1>2, <2>1, EndsOf, Zenon
<1>3. CASE flagged = "ok" /\ n.type # "map"
  <2>1. PICK form \in Forms, next \in {held, Nil} :
          next = (IF form = "_contains" THEN held ELSE Nil) /\ E(form, Nothing, "type", next)
    <3>1. \/ \E form \in {"", "_optional"} : E(form, Nothing, "type", Nil)
          \/ E("_contains", Nothing, "type", held)
      BY <1>3, Zenon DEF LookedUp, Ends, Forms
    <3> QED
      BY <3>1, Zenon DEF Forms
  <2>2. /\ from' = n /\ root' = root /\ fn' = name /\ Told(args) /\ arguments'.form = form /\ flagged' = "type"
        /\ held' = IF form = "_contains" THEN held ELSE Nil
    <3>1. /\ from' = n /\ root' = root /\ fn' = name /\ Told(args) /\ arguments'.form = form
          /\ held' = next /\ flagged' = IF flagged = "ok" THEN "type" ELSE flagged
      <4>1. Ends(n, name, args, form, Nothing, "type", next)
        BY <2>1, Zenon
      <4> QED
        BY <4>1, EndsOf
    <3> QED
      BY <1>3, <2>1, <3>1, Zenon
  <2>3. held' \in Given
    BY <1>1, <2>2, Zenon
  <2>4. Answers(n, arguments'.form, found)
    BY <1>3, <2>2, Zenon DEF Answers
  <2> QED
    BY <2>2, <2>3, <2>4, Zenon
<1>4. CASE flagged = "ok" /\ n.type = "map" /\ Cardinality(found) > 1
  <2>1. PICK form \in Forms, next \in {held, Nil} :
          next = (IF form = "_contains" THEN held ELSE Nil) /\ E(form, Nothing, "data", next)
    <3>0. found # {}
      <4>1. Cardinality({}) = 0
        BY FS_EmptySet, Zenon
      <4> QED
        BY <1>4, <4>1, SMT
    <3>1. \/ \E form \in {"", "_optional"} : E(form, Nothing, "data", Nil)
          \/ E("_contains", Nothing, "data", held)
      BY <1>4, <3>0, Zenon DEF LookedUp, Ends, Forms
    <3> QED
      BY <3>1, Zenon DEF Forms
  <2>2. /\ from' = n /\ root' = root /\ fn' = name /\ Told(args) /\ arguments'.form = form /\ flagged' = "data"
        /\ held' = IF form = "_contains" THEN held ELSE Nil
    <3>1. /\ from' = n /\ root' = root /\ fn' = name /\ Told(args) /\ arguments'.form = form
          /\ held' = next /\ flagged' = IF flagged = "ok" THEN "data" ELSE flagged
      <4>1. Ends(n, name, args, form, Nothing, "data", next)
        BY <2>1, Zenon
      <4> QED
        BY <4>1, EndsOf
    <3> QED
      BY <1>4, <2>1, <3>1, Zenon
  <2>3. held' \in Given
    BY <1>1, <2>2, Zenon
  <2>4. Answers(n, arguments'.form, found)
    BY <1>4, <2>2, Zenon DEF Answers
  <2> QED
    BY <2>2, <2>3, <2>4, Zenon
<1>5. CASE flagged = "ok" /\ n.type = "map" /\ ~(Cardinality(found) > 1) /\ found = {}
  <2>1. \/ E("", Nothing, "data", Nil)
        \/ E("_optional", Nothing, "ok", MissingNode)
        \/ E("_contains", Nothing, "ok", held)
    BY <1>5, Zenon DEF LookedUp, Ends, Forms
  <2>2. CASE E("", Nothing, "data", Nil)
    <3>1. /\ from' = n /\ root' = root /\ fn' = name /\ Told(args) /\ arguments'.form = "" /\ flagged' = "data"
          /\ held' = Nil /\ out' = Nothing
      BY <1>5, <2>2, EndsOf, Zenon
    <3>2. Answers(n, arguments'.form, found)
      BY <1>5, <3>1, Flags, Zenon DEF Answers
    <3> QED
      BY <1>1, <3>1, <3>2, Zenon
  <2>3. CASE E("_optional", Nothing, "ok", MissingNode)
    <3>1. /\ from' = n /\ root' = root /\ fn' = name /\ Told(args) /\ arguments'.form = "_optional" /\ flagged' = "ok"
          /\ held' = MissingNode /\ out' = Nothing
      BY <1>5, <2>3, EndsOf, Zenon
    <3>2. Answers(n, arguments'.form, found)
      BY <1>5, <3>1, Flags, Zenon DEF Answers
    <3> QED
      BY <1>1, <3>1, <3>2, Zenon
  <2>4. CASE E("_contains", Nothing, "ok", held)
    <3>1. /\ from' = n /\ root' = root /\ fn' = name /\ Told(args) /\ arguments'.form = "_contains" /\ flagged' = "ok"
          /\ held' = held /\ out' = Nothing
      BY <1>5, <2>4, EndsOf, Zenon
    <3>2. Answers(n, arguments'.form, found)
      BY <1>5, <3>1, Flags, Zenon DEF Answers
    <3> QED
      BY <1>1, <3>1, <3>2, Zenon
  <2> QED
    BY <2>1, <2>2, <2>3, <2>4, Zenon
<1>6. CASE flagged = "ok" /\ n.type = "map" /\ ~(Cardinality(found) > 1) /\ found # {}
  <2>1. \/ \E form \in {"", "_optional"}, i \in found : E(form, Nothing, "ok", n.children[2 * i])
        \/ E("_contains", Flag(TRUE), "ok", held)
    BY <1>6, Zenon DEF LookedUp, Ends, Forms
  <2>2. ASSUME NEW form \in {"", "_optional"}, NEW i \in found, E(form, Nothing, "ok", n.children[2 * i])
        PROVE  /\ from' = n /\ root' = root /\ fn' = name /\ Told(args) /\ held' \in Given
               /\ Answers(n, arguments'.form, found)
    <3>1. /\ from' = n /\ root' = root /\ fn' = name /\ Told(args) /\ arguments'.form = form
          /\ held' = n.children[2 * i] /\ flagged' = "ok"
      BY <1>6, <2>2, EndsOf, Zenon
    <3>2. n.children[2 * i] \in Nodes
      <4>1. i \in 1..n.len
        BY <1>6, Zenon
      <4>2. i - 1 \in Nat /\ i - 1 < n.len /\ 2 * (i - 1) + 2 = 2 * i
        BY <1>1, <1>6, <4>1, ChildrenAreNodes, Zenon
      <4>3. n.children[2 * (i - 1) + 2] \in Nodes
        BY <1>1, <1>6, <4>2, ChildrenAreNodes, Zenon
      <4> QED
        BY <4>2, <4>3, Zenon
    <3>3. \A j \in found : j = i
      <4>1. n.len \in Nat
        <5>1. n \in Nodes
          BY <1>1, <1>6, MapIsNode, Zenon
        <5> QED
          BY <5>1, Zenon DEF NodesOK
      <4> QED
        BY <1>6, <4>1, OneElement, Zenon
    <3>4. form # "_contains"
      OBVIOUS
    <3>5. \A j \in found : held' = n.children[2 * j]
      BY <3>1, <3>3, Zenon
    <3> QED
      BY <1>6, <3>1, <3>2, <3>4, <3>5, Zenon DEF Answers, Given
  <2>3. ASSUME E("_contains", Flag(TRUE), "ok", held)
        PROVE  /\ from' = n /\ root' = root /\ fn' = name /\ Told(args) /\ held' \in Given
               /\ Answers(n, arguments'.form, found)
    <3>1. /\ from' = n /\ root' = root /\ fn' = name /\ Told(args) /\ arguments'.form = "_contains" /\ flagged' = "ok"
          /\ held' = held /\ out' = Flag(TRUE)
      BY <1>6, <2>3, EndsOf, Zenon
    <3>2. Answers(n, arguments'.form, found)
      BY <1>6, <3>1, Flags, Zenon DEF Answers
    <3> QED
      BY <1>1, <3>1, <3>2, Zenon
  <2> QED
    BY <2>1, <2>2, <2>3, Zenon
<1> QED
  BY <1>2, <1>3, <1>4, <1>5, <1>6, Zenon
LEMMA Arguments ==
  ASSUME NEW x
  PROVE  /\ DOMAIN [NoArgs EXCEPT !.number = x] = {"number", "string", "index", "size", "form"}
         /\ [NoArgs EXCEPT !.number = x].number = x
         /\ DOMAIN [NoArgs EXCEPT !.string = x] = {"number", "string", "index", "size", "form"}
         /\ [NoArgs EXCEPT !.string = x].string = x
BY SMT DEF NoArgs

\* The keys that the lookups compare are those that are equal as numbers and as strings.
LEMMA Keys ==
  ASSUME NEW key, NEW args
  PROVE  /\ IntKey(key, args.number) <=> Same(key, "map_int", args)
         /\ UIntKey(key, args.number) <=> Same(key, "map_uint", args)
         /\ StrKey(key, args.string) <=> Same(key, "map_str", args)
<1>1. IntKey(key, args.number) <=> IsInteger(key) /\ NumberOf(key) = <<Negative(args.number), args.number>>
  <2>1. NumberOf(key) = <<Negative(args.number), args.number>>
        <=> ((key.type = "int" /\ Negative(key.v)) <=> Negative(args.number)) /\ key.v = args.number
    <3>1. ASSUME NEW a \in BOOLEAN, NEW b \in BOOLEAN, NEW x, NEW y
          PROVE  <<a, x>> = <<b, y>> <=> (a <=> b) /\ x = y
      BY Zenon
    <3>2. (key.type = "int" /\ Negative(key.v)) \in BOOLEAN /\ Negative(args.number) \in BOOLEAN
      BY SMT DEF Negative
    <3> QED
      BY <3>1, <3>2, Zenon DEF NumberOf
  <2>2. key.v = args.number => (Negative(key.v) <=> Negative(args.number))
    BY Zenon
  <2>3. key.type = "uint" => key.type # "int"
    OBVIOUS
  <2> QED
    BY <2>1, <2>2, <2>3, Zenon DEF IntKey, IsInteger
<1>2. UIntKey(key, args.number) <=> IsInteger(key) /\ NumberOf(key) = <<FALSE, args.number>>
  BY Zenon DEF UIntKey, IsInteger, NumberOf, Negative
<1>3. /\ Same(key, "map_int", args)
         <=> IsInteger(key) /\ NumberOf(key) = <<Negative(args.number), args.number>>
      /\ Same(key, "map_uint", args) <=> IsInteger(key) /\ NumberOf(key) = <<FALSE, args.number>>
      /\ Same(key, "map_str", args) <=> key.type = "str" /\ key.bytes = args.string
  BY Zenon DEF Same
<1> QED
  BY <1>1, <1>2, <1>3, Zenon DEF StrKey

\* The keys of n that a lookup by name is for.
Hits(n, name, args) == {i \in 1..n.len : Same(n.children[2 * i - 1], name, args)}

\* What a lookup is: one that answers as its keys are.
LooksUp ==
  /\ Asked /\ held' \in Given /\ fn' \in LookupFns
  /\ flagged = "ok" => \E found : /\ from'.type = "map" => found = Hits(from', fn', arguments')
                                /\ Answers(from', arguments'.form, found)

LEMMA SameTold ==
  ASSUME NEW key, NEW name \in LookupFns, NEW args, NEW args2, args2.number = args.number, args2.string = args.string
  PROVE  Same(key, name, args) <=> Same(key, name, args2)
<1>1. name = "map_int" \/ name = "map_uint" \/ name = "map_str"
  BY Zenon DEF LookupFns
<1> QED
  BY <1>1, Zenon DEF Same

LEMMA LookUp ==
  ASSUME NodesOK, NodeInv, NEW name \in LookupFns, NEW args,
         DOMAIN args = {"number", "string", "index", "size", "form"},
         NEW n \in {root, held}, NEW found, n.type = "map" => found = Hits(n, name, args),
         LookedUp(name, args, n, found)
  PROVE  LooksUp
<1>1. n.type = "map" => found \in SUBSET (1..n.len)
  BY Zenon DEF Hits
<1>2. /\ from' = n /\ root' = root /\ fn' = name /\ Told(args) /\ held' \in Given
      /\ flagged = "ok" => Answers(n, arguments'.form, found)
  BY <1>1, LookedUpAnswers, Zenon
<1>3. Hits(n, name, arguments') = Hits(n, name, args)
  <2>1. \A key : Same(key, name, args) <=> Same(key, name, arguments')
    BY <1>2, SameTold, Zenon DEF Told
  <2> QED
    BY <2>1, Zenon DEF Hits
<1> QED
  BY <1>2, <1>3, Zenon DEF LooksUp, Asked

LEMMA LookupCalls ==
  ASSUME NodesOK, NodeInv, Lookups
  PROVE  LooksUp
<1>1. CASE \E k \in Numbers : Lookup("map_int", [NoArgs EXCEPT !.number = k], LAMBDA key : IntKey(key, k))
  <2>1. PICK k \in Numbers : Lookup("map_int", [NoArgs EXCEPT !.number = k], LAMBDA key : IntKey(key, k))
    BY <1>1
  <2> DEFINE args == [NoArgs EXCEPT !.number = k]
  <2>2. PICK n \in {root, held} :
          LookedUp("map_int", args, n, IF n.type = "map" THEN {i \in 1..n.len : IntKey(n.children[2 * i - 1], k)} ELSE {})
    BY <2>1, Zenon DEF Lookup, Found
  <2>3. DOMAIN args = {"number", "string", "index", "size", "form"} /\ args.number = k
    BY Arguments, Zenon
  <2> HIDE DEF args
  <2>4. {i \in 1..n.len : IntKey(n.children[2 * i - 1], k)} = Hits(n, "map_int", args)
    BY <2>3, Keys, Zenon DEF Hits
  <2>5. PICK found : (n.type = "map" => found = Hits(n, "map_int", args)) /\ LookedUp("map_int", args, n, found)
    BY <2>2, <2>4, Zenon
  <2> QED
    BY <2>3, <2>5, LookUp, Zenon DEF LookupFns
<1>2. CASE \E k \in Numbers : Lookup("map_uint", [NoArgs EXCEPT !.number = k], LAMBDA key : UIntKey(key, k))
  <2>1. PICK k \in Numbers : Lookup("map_uint", [NoArgs EXCEPT !.number = k], LAMBDA key : UIntKey(key, k))
    BY <1>2
  <2> DEFINE args == [NoArgs EXCEPT !.number = k]
  <2>2. PICK n \in {root, held} :
          LookedUp("map_uint", args, n, IF n.type = "map" THEN {i \in 1..n.len : UIntKey(n.children[2 * i - 1], k)} ELSE {})
    BY <2>1, Zenon DEF Lookup, Found
  <2>3. DOMAIN args = {"number", "string", "index", "size", "form"} /\ args.number = k
    BY Arguments, Zenon
  <2> HIDE DEF args
  <2>4. {i \in 1..n.len : UIntKey(n.children[2 * i - 1], k)} = Hits(n, "map_uint", args)
    BY <2>3, Keys, Zenon DEF Hits
  <2>5. PICK found : (n.type = "map" => found = Hits(n, "map_uint", args)) /\ LookedUp("map_uint", args, n, found)
    BY <2>2, <2>4, Zenon
  <2> QED
    BY <2>3, <2>5, LookUp, Zenon DEF LookupFns
<1>3. CASE \E s \in Strings : Lookup("map_str", [NoArgs EXCEPT !.string = s], LAMBDA key : StrKey(key, s))
  <2>1. PICK s \in Strings : Lookup("map_str", [NoArgs EXCEPT !.string = s], LAMBDA key : StrKey(key, s))
    BY <1>3
  <2> DEFINE args == [NoArgs EXCEPT !.string = s]
  <2>2. PICK n \in {root, held} :
          LookedUp("map_str", args, n, IF n.type = "map" THEN {i \in 1..n.len : StrKey(n.children[2 * i - 1], s)} ELSE {})
    BY <2>1, Zenon DEF Lookup, Found
  <2>3. DOMAIN args = {"number", "string", "index", "size", "form"} /\ args.string = s
    BY Arguments, Zenon
  <2> HIDE DEF args
  <2>4. {i \in 1..n.len : StrKey(n.children[2 * i - 1], s)} = Hits(n, "map_str", args)
    BY <2>3, Keys, Zenon DEF Hits
  <2>5. PICK found : (n.type = "map" => found = Hits(n, "map_str", args)) /\ LookedUp("map_str", args, n, found)
    BY <2>2, <2>4, Zenon
  <2> QED
    BY <2>3, <2>5, LookUp, Zenon DEF LookupFns
<1> QED
  BY <1>1, <1>2, <1>3, Zenon DEF Lookups
(***************************************************************************)
(* Every call.                                                             *)
(***************************************************************************)
\* A call of another function.
Others == Asked /\ held' \in Given /\ fn' \notin DOMAIN Width /\ fn' \notin LookupFns

ReadsInteger ==
  /\ fn' \in DOMAIN Width /\ Width[fn'] \in Widths
  /\ Reads(fn', Width[fn'], fn' \in SignedFns)

LEMMA EachCall ==
  ASSUME NodesOK, NodeInv, GettersNext
  PROVE  ReadsInteger \/ LooksUp \/ Others
<1>1. CASE Integer \/ mpack_node_uint \/ mpack_node_int
  BY <1>1, IntegerCalls, Zenon DEF ReadsInteger
<1>2. CASE Lookups
  BY <1>2, LookupCalls, Zenon
<1>3. ASSUME NEW names, Elsewhere(names),
             \A name \in names : name \notin DOMAIN Width /\ name \notin LookupFns
      PROVE  Others
  BY <1>3, Zenon DEF Elsewhere, Others, NodeInv
<1>4. CASE Floating
  BY <1>3, <1>4, FloatingCalls, OtherNames, Zenon
<1>5. CASE mpack_node_type \/ mpack_node_tag \/ mpack_node_is_nil \/ mpack_node_is_missing \/ mpack_node_bool
  BY <1>3, <1>5, PlainCalls, OtherNames, Zenon
<1>6. CASE Checked \/ mpack_node_check_utf8 \/ mpack_node_check_utf8_cstr
  BY <1>3, <1>6, CheckedCalls, OtherNames, Zenon
<1>7. CASE Lengths \/ Pointers \/ Counts
  BY <1>3, <1>7, LengthCalls, OtherNames, Zenon
<1>8. CASE Enums
  BY <1>3, <1>8, EnumCalls, OtherNames, Zenon
<1>9. CASE Copied
  BY <1>3, <1>9, CopyCalls, OtherNames, Zenon
<1>10. CASE Allocated
  BY <1>3, <1>10, AllocCalls, OtherNames, Zenon
<1>11. CASE Members
  BY <1>11, ElementCalls, OtherNames, Zenon DEF Others
<1> QED
  BY <1>1, <1>2, <1>4, <1>5, <1>6, <1>7, <1>8, <1>9, <1>10, <1>11, Zenon DEF GettersNext

LEMMA NodesStayInTree ==
  ASSUME NodesOK
  PROVE  GettersSpec => []NodeInv
<1>1. GettersInit => NodeInv
  BY SMT DEF GettersInit, NodeInv, Given, NodesOK, mpack_tree_init_error
<1>2. NodeInv /\ [GettersNext]_getterVars => NodeInv'
  <2>1. ASSUME NodeInv, GettersNext PROVE NodeInv'
    <3>1. Asked /\ held' \in Given
      BY <2>1, EachCall, Zenon DEF ReadsInteger, Reads, LooksUp, Others, NodeInv
    <3> QED
      BY <2>1, <3>1, Zenon DEF NodeInv, Asked, Given
  <2>2. ASSUME NodeInv, UNCHANGED getterVars PROVE NodeInv'
    BY <2>2, Zenon DEF NodeInv, getterVars, Given
  <2> QED
    BY <2>1, <2>2, Zenon
<1> QED
  BY <1>1, <1>2, PTL DEF GettersSpec

LEMMA IntegersAreWords ==
  ASSUME NodesOK, NEW n \in Given
  PROVE  IsInteger(n) => n.v \in Word
<1>1. CASE n \in Nodes
  BY <1>1, Zenon DEF NodesOK, IsInteger
<1>2. CASE n \in {Nil, MissingNode}
  <2>1. n.type \notin {"uint", "int"}
    BY <1>2, SMT DEF Nil, MissingNode
  <2> QED
    BY <2>1, Zenon DEF IsInteger
<1> QED
  BY <1>1, <1>2, Zenon DEF Given

\* The integer functions (mpack_node_u8 to mpack_node_int): for every tree, a number is
\* read by every function whose type has it, and as itself; every other one gives 0 and
\* raises mpack_error_type, and the first error stays.
THEOREM IntegersReadExactly == GettersSpec => IntegersExact
<1> NodesOK
  BY NodesAssumption
<1> DEFINE Exact ==
      fn' \in DOMAIN Width =>
        IF flagged = "ok" /\ ReadAsItself(from', Width[fn'], fn' \in SignedFns)
        THEN flagged' = "ok" /\ out'.v = Low(from'.v, Width[fn'])
        ELSE flagged' = (IF flagged = "ok" THEN "type" ELSE flagged) /\ out'.v = Zeros(Width[fn'])
<1>1. ASSUME NodeInv, GettersNext PROVE Exact
  <2>1. CASE ReadsInteger
    <3>1. from' \in Given
      BY <1>1, <2>1, Zenon DEF NodeInv, ReadsInteger, Reads, Asked
    <3>2. Width[fn'] \in Widths /\ (IsInteger(from') => from'.v \in Word)
      BY <2>1, <3>1, IntegersAreWords, Zenon DEF ReadsInteger
    <3>3. (IF fn' \in SignedFns THEN FitsSigned(from', Width[fn']) ELSE FitsUnsigned(from', Width[fn']))
          <=> ReadAsItself(from', Width[fn'], fn' \in SignedFns)
      <4>1. CASE fn' \in SignedFns
        <5>1. FitsSigned(from', Width[fn']) <=> ReadAsItself(from', Width[fn'], TRUE)
          BY <3>2, SignedReads, Zenon
        <5>2. (fn' \in SignedFns) = TRUE
          BY <4>1
        <5> QED
          BY <4>1, <5>1, <5>2, Zenon
      <4>2. CASE fn' \notin SignedFns
        <5>1. FitsUnsigned(from', Width[fn']) <=> ReadAsItself(from', Width[fn'], FALSE)
          BY <3>2, UnsignedReads, Zenon
        <5>2. (fn' \in SignedFns) = FALSE
          BY <4>2
        <5> QED
          BY <4>2, <5>1, <5>2, Zenon
      <4> QED
        BY <4>1, <4>2, Zenon
    <3> QED
      BY <2>1, <3>3, Zenon DEF ReadsInteger, Reads
  <2>2. CASE LooksUp \/ Others
    BY <2>2, OtherNames, Zenon DEF LooksUp, Others
  <2> QED
    BY <1>1, <2>1, <2>2, EachCall, Zenon
<1>2. NodeInv /\ [GettersNext]_getterVars => [Exact]_getterVars
  BY <1>1, Zenon
<1>3. [Exact]_getterVars => [fn' \in DOMAIN Width =>
       LET signed == fn' \in SignedFns
           low == Low(from'.v, Width[fn'])
           same == IsInteger(from') /\ <<signed /\ low[1] >= 128, Extend(low, signed)>> = NumberOf(from')
       IN IF flagged = "ok" /\ same THEN flagged' = "ok" /\ out'.v = low
          ELSE flagged' = (IF flagged = "ok" THEN "type" ELSE flagged) /\ out'.v = Zeros(Width[fn'])]_getterVars
  BY Zenon DEF ReadAsItself
<1> HIDE DEF Exact
<1> QED
  BY <1>2, <1>3, NodesStayInTree, PTL DEF GettersSpec, IntegersExact

\* The lookups (mpack_node_map_int_impl and the others): for every tree and every key, a
\* lookup gives the value of the one key that is equal as a number or a string; two such
\* keys are mpack_error_data, and none is data, missing or FALSE, as the form has it.
THEOREM LookupsFindTheOne == GettersSpec => LookupsExact
<1> NodesOK
  BY NodesAssumption
<1> DEFINE Exact ==
      flagged = "ok" /\ fn' \in LookupFns => Answers(from', arguments'.form, Hits(from', fn', arguments'))
<1>1. ASSUME NodeInv, GettersNext PROVE Exact
  <2>1. CASE LooksUp
    <3>1. ASSUME flagged = "ok" PROVE Answers(from', arguments'.form, Hits(from', fn', arguments'))
      <4>1. PICK found : /\ from'.type = "map" => found = Hits(from', fn', arguments')
                         /\ Answers(from', arguments'.form, found)
        BY <2>1, <3>1, Zenon DEF LooksUp
      <4>2. CASE from'.type = "map"
        BY <4>1, <4>2, Zenon
      <4>3. CASE from'.type # "map"
        BY <4>1, <4>3, Zenon DEF Answers
      <4> QED
        BY <4>2, <4>3, Zenon
    <3> QED
      BY <3>1, Zenon
  <2>2. CASE ReadsInteger \/ Others
    BY <2>2, OtherNames, Zenon DEF ReadsInteger, Others
  <2> QED
    BY <1>1, <2>1, <2>2, EachCall, Zenon
<1>2. NodeInv /\ [GettersNext]_getterVars => [Exact]_getterVars
  BY <1>1, Zenon
<1>3. [Exact]_getterVars => [flagged = "ok" /\ fn' \in {"map_int", "map_uint", "map_str"} =>
       LET n == from'
           form == arguments'.form
           hits == {i \in 1..n.len : Same(n.children[2 * i - 1], fn', arguments')}
           gives == IF form = "_contains" THEN held ELSE Nil
       IN IF n.type # "map" THEN flagged' = "type" /\ held' = gives
          ELSE IF Cardinality(hits) > 1 THEN flagged' = "data" /\ held' = gives
          ELSE IF hits = {} THEN
            CASE form = "" -> flagged' = "data" /\ held' = Nil
              [] form = "_optional" -> flagged' = "ok" /\ held' = MissingNode
              [] form = "_contains" -> flagged' = "ok" /\ held' = held /\ ~out'.flag
          ELSE /\ flagged' = "ok"
               /\ IF form = "_contains" THEN out'.flag /\ held' = held
                  ELSE \A i \in hits : held' = n.children[2 * i]]_getterVars
  BY Zenon DEF Answers, Hits, LookupFns
<1> HIDE DEF Exact
<1> QED
  BY <1>2, <1>3, NodesStayInTree, PTL DEF GettersSpec, LookupsExact
(***************************************************************************)
(* UTF-8: what mpack computes of the bytes is the standard's table.        *)
(***************************************************************************)
LEMMA Masked ==
  /\ \A a \in Int : 192 <= a /\ a <= 223 => Bits(a, 32) = a - 192
  /\ \A a \in Int : 224 <= a /\ a <= 239 => Bits(a, 16) = a - 224
  /\ \A a \in Int : 240 <= a /\ a <= 247 => Bits(a, 8) = a - 240
  /\ \A b \in Int : 128 <= b /\ b <= 191 => Bits(b, 64) = b - 128
BY SMT DEF Bits

LEMMA Continuation ==
  ASSUME NEW b, Continues(b)
  PROVE  b \in Int /\ 128 <= b /\ b <= 191
BY SMT DEF Continues

LEMMA ByteInt ==
  ASSUME NEW a \in Byte
  PROVE  a \in Int /\ 0 <= a /\ a <= 255
BY SMT DEF Byte

LEMMA TwoBytes ==
  ASSUME NEW a \in Byte, Lead2(a), NEW b, Continues(b)
  PROVE  TwoOk(Two(a, b)) <=> a >= 194
<1>1. a \in Int /\ 192 <= a /\ a <= 223
  BY ByteInt, SMT DEF Lead2
<1>2. b \in Int /\ 128 <= b /\ b <= 191
  BY Continuation, SMT
<1>3. Bits(a, 32) = a - 192 /\ Bits(b, 64) = b - 128
  BY <1>1, <1>2, Masked, SMT
<1> QED
  BY <1>1, <1>2, <1>3, SMT DEF TwoOk, Two

LEMMA ThreeBytes ==
  ASSUME NEW a \in Byte, Lead3(a), NEW b, Continues(b), NEW c, Continues(c)
  PROVE  ThreeOk(Three(a, b, c)) <=> Second(a, b)
<1> DEFINE x == a - 224
           y == b - 128
           w == c - 128
           z == Three(a, b, c)
<1>1. a \in Int /\ 224 <= a /\ a <= 239
  BY ByteInt, SMT DEF Lead3
<1>2. b \in Int /\ 128 <= b /\ b <= 191 /\ c \in Int /\ 128 <= c /\ c <= 191
  BY Continuation, SMT
<1>3. Bits(a, 16) = x /\ Bits(b, 64) = y /\ Bits(c, 64) = w
  BY <1>1, <1>2, Masked, SMT
<1>4. z = x * 4096 + y * 64 + w
  BY <1>3, SMT DEF Three
<1>5. x \in Int /\ 0 <= x /\ x <= 15 /\ y \in Int /\ 0 <= y /\ y <= 63 /\ w \in Int /\ 0 <= w /\ w <= 63
  BY <1>1, <1>2, SMT
<1>6. Second(a, b) <=> (x = 0 => y >= 32) /\ (x = 13 => y <= 31)
  BY <1>1, <1>2, SMT DEF Second
<1> HIDE DEF x, y, w, z
<1>7. z >= 2048 <=> (x = 0 => y >= 32)
  BY <1>4, <1>5, SMT
<1>8. (z >= 55296 /\ z <= 57343) <=> x = 13 /\ ~(y <= 31)
  BY <1>4, <1>5, SMT
<1>9. ThreeOk(z) <=> Second(a, b)
  BY <1>6, <1>7, <1>8, SMT DEF ThreeOk
<1> QED
  BY <1>9 DEF z

LEMMA FourBytes ==
  ASSUME NEW a \in Byte, Lead4(a), NEW b, Continues(b), NEW c, Continues(c), NEW d, Continues(d)
  PROVE  FourOk(Four(a, b, c, d)) <=> a <= 244 /\ Second(a, b)
<1> DEFINE x == a - 240
           y == b - 128
           v == c - 128
           w == d - 128
           z == Four(a, b, c, d)
<1>1. a \in Int /\ 240 <= a /\ a <= 247
  BY ByteInt, SMT DEF Lead4
<1>2. b \in Int /\ 128 <= b /\ b <= 191 /\ c \in Int /\ 128 <= c /\ c <= 191 /\ d \in Int /\ 128 <= d /\ d <= 191
  BY Continuation, SMT
<1>3. Bits(a, 8) = x /\ Bits(b, 64) = y /\ Bits(c, 64) = v /\ Bits(d, 64) = w
  BY <1>1, <1>2, Masked, SMT
<1>4. z = x * 262144 + y * 4096 + v * 64 + w
  BY <1>3, SMT DEF Four
<1>5. /\ x \in Int /\ 0 <= x /\ x <= 7 /\ y \in Int /\ 0 <= y /\ y <= 63
      /\ v \in Int /\ 0 <= v /\ v <= 63 /\ w \in Int /\ 0 <= w /\ w <= 63
  BY <1>1, <1>2, SMT
<1>6. (a <= 244 /\ Second(a, b)) <=> x <= 4 /\ (x = 0 => y >= 16) /\ (x = 4 => y <= 15)
  BY <1>1, <1>2, SMT DEF Second
<1> HIDE DEF x, y, v, w, z
<1>7. z >= 65536 <=> (x = 0 => y >= 16)
  BY <1>4, <1>5, SMT
<1>8. z <= 1114111 <=> x <= 4 /\ (x = 4 => y <= 15)
  BY <1>4, <1>5, SMT
<1>9. FourOk(z) <=> a <= 244 /\ Second(a, b)
  BY <1>6, <1>7, <1>8, SMT DEF FourOk
<1> QED
  BY <1>9 DEF z

\* The bytes that may come first.
First1(a) == a \in 0..127
First2(a) == a \in 194..223
First3(a) == a \in 224..239
First4(a) == a \in 240..244

LEMMA Classes ==
  ASSUME NEW a \in Byte
  PROVE  /\ First1(a) <=> Lead1(a)
         /\ First2(a) <=> Lead2(a) /\ a >= 194
         /\ First3(a) <=> Lead3(a)
         /\ First4(a) <=> Lead4(a) /\ a <= 244
         /\ Lead1(a) => ~Lead2(a) /\ ~Lead3(a) /\ ~Lead4(a)
         /\ Lead2(a) => ~Lead3(a) /\ ~Lead4(a)
         /\ Lead3(a) => ~Lead4(a)
<1>1. a \in Int /\ 0 <= a /\ a <= 255
  BY SMT DEF Byte
<1>2. First1(a) <=> Lead1(a)
  BY <1>1, SMT DEF First1, Lead1
<1>3. First2(a) <=> Lead2(a) /\ a >= 194
  BY <1>1, SMT DEF First2, Lead2
<1>4. First3(a) <=> Lead3(a)
  BY <1>1, SMT DEF First3, Lead3
<1>5. First4(a) <=> Lead4(a) /\ a <= 244
  BY <1>1, SMT DEF First4, Lead4
<1>6. /\ Lead1(a) => ~Lead2(a) /\ ~Lead3(a) /\ ~Lead4(a)
      /\ Lead2(a) => ~Lead3(a) /\ ~Lead4(a)
      /\ Lead3(a) => ~Lead4(a)
  BY <1>1, SMT DEF Lead1, Lead2, Lead3, Lead4
<1> QED
  BY <1>2, <1>3, <1>4, <1>5, <1>6, Zenon

LEMMA Following ==
  ASSUME NEW s \in Seq(Byte), NEW i \in 1..Len(s), NEW n \in 1..3, Conts(s, i, n)
  PROVE  \A k \in 1..n : Continues(s[i + k])
<1>1. Len(s) \in Nat
  BY LenProperties, Zenon
<1>2. i \in Int /\ n \in Int
  BY <1>1, SMT
<1>3. \A k \in 1..n : i + k \in (i + 1)..(i + n)
  BY <1>2, SMT
<1> QED
  BY <1>3, Zenon DEF Conts

LEMMA SameLength ==
  ASSUME NEW s \in Seq(Byte), NEW i \in 1..Len(s)
  PROVE  CharLen(s, i) = UnicodeLen(s, i)
<1> DEFINE a == s[i]
<1>1. a \in Byte
  BY ElementOfSeq, Zenon
<1>2. UnicodeLen(s, i) =
        CASE First1(a) -> 1
          [] First2(a) /\ Conts(s, i, 1) -> 2
          [] First3(a) /\ Conts(s, i, 2) /\ Second(a, s[i + 1]) -> 3
          [] First4(a) /\ Conts(s, i, 3) /\ Second(a, s[i + 1]) -> 4
          [] OTHER -> 0
  BY DEF UnicodeLen, First1, First2, First3, First4
<1>3. CharLen(s, i) =
        CASE Lead1(a) -> 1
          [] Lead2(a) -> IF Conts(s, i, 1) /\ TwoOk(Two(a, s[i + 1])) THEN 2 ELSE 0
          [] Lead3(a) -> IF Conts(s, i, 2) /\ ThreeOk(Three(a, s[i + 1], s[i + 2])) THEN 3 ELSE 0
          [] Lead4(a) -> IF Conts(s, i, 3) /\ FourOk(Four(a, s[i + 1], s[i + 2], s[i + 3])) THEN 4 ELSE 0
          [] OTHER -> 0
  BY DEF CharLen
<1>c. \A n \in 1..3 : Conts(s, i, n) => \A k \in 1..n : Continues(s[i + k])
  BY Following, Zenon
<1>d. /\ 1 \in 1..3 /\ 2 \in 1..3 /\ 3 \in 1..3 /\ 1 \in 1..1 /\ 1 \in 1..2 /\ 2 \in 1..2
  BY SMT
<1>4. Lead2(a) /\ Conts(s, i, 1) => (TwoOk(Two(a, s[i + 1])) <=> a >= 194)
  BY <1>1, <1>c, <1>d, TwoBytes, Zenon
<1>5. Lead3(a) /\ Conts(s, i, 2) => (ThreeOk(Three(a, s[i + 1], s[i + 2])) <=> Second(a, s[i + 1]))
  BY <1>1, <1>c, <1>d, ThreeBytes, Zenon
<1>6. Lead4(a) /\ Conts(s, i, 3) => (FourOk(Four(a, s[i + 1], s[i + 2], s[i + 3])) <=> a <= 244 /\ Second(a, s[i + 1]))
  BY <1>1, <1>c, <1>d, FourBytes, Zenon
<1> DEFINE big == a >= 194
           small == a <= 244
<1>7. /\ First1(a) <=> Lead1(a)
      /\ First2(a) <=> Lead2(a) /\ big
      /\ First3(a) <=> Lead3(a)
      /\ First4(a) <=> Lead4(a) /\ small
      /\ Lead1(a) => ~Lead2(a) /\ ~Lead3(a) /\ ~Lead4(a)
      /\ Lead2(a) => ~Lead3(a) /\ ~Lead4(a)
      /\ Lead3(a) => ~Lead4(a)
  BY <1>1, Classes, Zenon
<1>8. (Lead2(a) /\ Conts(s, i, 1) => (TwoOk(Two(a, s[i + 1])) <=> big))
      /\ (Lead4(a) /\ Conts(s, i, 3) => (FourOk(Four(a, s[i + 1], s[i + 2], s[i + 3])) <=> small /\ Second(a, s[i + 1])))
  BY <1>4, <1>6, Zenon
<1> HIDE DEF a, big, small
<1>9. CASE Lead1(a)
  BY <1>2, <1>3, <1>7, <1>9, Zenon
<1>10. CASE Lead2(a)
  BY <1>2, <1>3, <1>7, <1>8, <1>10, Zenon
<1>11. CASE Lead3(a)
  BY <1>2, <1>3, <1>5, <1>7, <1>11, Zenon
<1>12. CASE Lead4(a)
  BY <1>2, <1>3, <1>7, <1>8, <1>12, Zenon
<1>13. CASE ~Lead1(a) /\ ~Lead2(a) /\ ~Lead3(a) /\ ~Lead4(a)
  BY <1>2, <1>3, <1>7, <1>13, Zenon
<1> QED
  BY <1>9, <1>10, <1>11, <1>12, <1>13, Zenon

LEMMA Utf8IsUnicode ==
  ASSUME NEW s \in Seq(Byte)
  PROVE  mpack_utf8_check(s) <=> WellFormed(s)
<1>1. [i \in 1..Len(s) |-> CharLen(s, i)] = [i \in 1..Len(s) |-> UnicodeLen(s, i)]
  BY SameLength, Zenon
<1> QED
  BY <1>1, Zenon DEF mpack_utf8_check, WellFormed

(***************************************************************************)
(* Strings.                                                                *)
(***************************************************************************)
LEMMA TextNode ==
  ASSUME NodesOK, NEW n \in Given, StrOrBin(n)
  PROVE  n.bytes \in Seq(Byte) /\ Len(n.bytes) = n.len /\ n.len \in Nat
<1>1. ASSUME n \in {Nil, MissingNode} PROVE n.type \notin {"str", "bin"}
  BY <1>1, SMT DEF Nil, MissingNode
<1>2. n \in Nodes
  BY <1>1, Zenon DEF StrOrBin, Given
<1> QED
  BY <1>2, Zenon DEF NodesOK, StrOrBin

LEMMA NoNull ==
  ASSUME NEW s \in Seq(Byte)
  PROVE  mpack_str_check_no_null(s) <=> \A i \in DOMAIN s : s[i] > 0
<1>1. DOMAIN s = 1..Len(s)
  BY LenProperties, Zenon
<1>2. ASSUME NEW i \in 1..Len(s) PROVE s[i] # 0 <=> s[i] > 0
  <2>1. s[i] \in Byte
    BY ElementOfSeq, Zenon
  <2>2. s[i] \in Int /\ 0 <= s[i]
    BY <2>1, ByteInt
  <2> QED
    BY <2>2, SMT
<1> QED
  BY <1>1, <1>2, Zenon DEF mpack_str_check_no_null

LEMMA Checkings ==
  ASSUME NodesOK, NEW n \in Given
  PROVE  (Utf8(n) <=> Checking(n, FALSE)) /\ (Utf8CStr(n) <=> Checking(n, TRUE))
<1>1. CASE Str(n)
  <2>1. n.bytes \in Seq(Byte)
    BY <1>1, TextNode, Zenon DEF Str, StrOrBin
  <2> QED
    BY <1>1, <2>1, Utf8IsUnicode, NoNull, Zenon DEF Utf8, Utf8CStr, Checking, mpack_utf8_check_no_null
<1>2. CASE ~Str(n)
  BY <1>2, Zenon DEF Utf8, Utf8CStr, Checking
<1> QED
  BY <1>1, <1>2, Zenon

\* A copy with end behind it, of a node of which ok says whether it may be copied.
CopiesOut(end, ok) ==
  /\ arguments'.size \in Nat
  /\ \/ flagged' # "ok" /\ out'.data = end /\ Len(end) <= arguments'.size
     \/ /\ flagged' = "ok" /\ ok /\ StrOrBin(from')
        /\ from'.len <= arguments'.size - Len(end) /\ out'.data = from'.bytes \o end

LEMMA SizeOf ==
  ASSUME NEW x
  PROVE  /\ [NoArgs EXCEPT !.size = x].size = x
         /\ [Nothing EXCEPT !.data = x].data = x /\ Holding(x).data = x
BY SMT DEF NoArgs, Nothing, Holding

LEMMA CopyOut ==
  ASSUME NEW room \in Nat, NEW n \in {root, held}, NEW name, NEW end, NEW typed, NEW ok,
         Len(end) \in Nat, room >= Len(end), n.len \in Nat, typed => StrOrBin(n),
         CopiesTo(room, n, name, end, Len(end), typed, ok)
  PROVE  Asked /\ held' = held /\ fn' = name /\ from' = n /\ CopiesOut(end, ok)
<1> DEFINE args == [NoArgs EXCEPT !.size = room]
           none == [Nothing EXCEPT !.data = end]
<1>1. \/ /\ Call(n, name, args, none, "ok", held) /\ flagged # "ok"
      \/ \E e \in {"type", "too_big"} : Call(n, name, args, none, e, held)
      \/ /\ flagged = "ok" /\ typed /\ n.len <= room - Len(end) /\ ok
         /\ Call(n, name, args, Holding(n.bytes \o end), "ok", held)
  <2>1. ~(n.len > room - Len(end)) <=> n.len <= room - Len(end)
    BY SMT
  <2> QED
    BY <2>1, Zenon DEF CopiesTo
<1>2. args.size = room /\ none.data = end /\ Holding(n.bytes \o end).data = n.bytes \o end
  BY SizeOf, Zenon
<1>3. Len(end) <= room
  BY SMT
<1> HIDE DEF args, none
<1>4. CASE Call(n, name, args, none, "ok", held) /\ flagged # "ok"
  BY <1>2, <1>3, <1>4, Zenon DEF Call, mpack_tree_flag_error, CopiesOut, Asked
<1>5. CASE \E e \in {"type", "too_big"} : Call(n, name, args, none, e, held)
  BY <1>2, <1>3, <1>5, Zenon DEF Call, mpack_tree_flag_error, CopiesOut, Asked
<1>6. CASE /\ flagged = "ok" /\ typed /\ n.len <= room - Len(end) /\ ok
           /\ Call(n, name, args, Holding(n.bytes \o end), "ok", held)
  BY <1>2, <1>6, Zenon DEF Call, mpack_tree_flag_error, CopiesOut, Asked
<1> QED
  BY <1>1, <1>4, <1>5, <1>6, Zenon

LEMMA Copies4 ==
  ASSUME NodesOK, NodeInv, Copied
  PROVE  /\ Asked /\ held' = held
         /\ \/ fn' = "copy_data" /\ CopiesOut(<<>>, StrOrBin(from'))
            \/ fn' = "copy_utf8" /\ CopiesOut(<<>>, Utf8(from'))
            \/ fn' = "copy_cstr" /\ CopiesOut(NUL, CStr(from'))
            \/ fn' = "copy_utf8_cstr" /\ CopiesOut(NUL, Utf8CStr(from'))
<1>1. PICK n \in {root, held}, room \in BufferSizes :
        \/ room >= Len(<<>>) /\ CopiesTo(room, n, "copy_data", <<>>, Len(<<>>), StrOrBin(n), StrOrBin(n))
        \/ room >= Len(<<>>) /\ CopiesTo(room, n, "copy_utf8", <<>>, Len(<<>>), Str(n), Utf8(n))
        \/ room >= Len(NUL) /\ CopiesTo(room, n, "copy_cstr", NUL, Len(NUL), Str(n), CStr(n))
        \/ room >= Len(NUL) /\ CopiesTo(room, n, "copy_utf8_cstr", NUL, Len(NUL), Str(n), Utf8CStr(n))
  BY Zenon DEF Copied, Copies, Room
<1>2. room \in Nat /\ Len(<<>>) \in Nat /\ Len(NUL) \in Nat
  BY SMT DEF NodesOK, NUL
<1>3. n.len \in Nat
  <2>1. CASE n \in Nodes
    BY <2>1, Zenon DEF NodesOK
  <2>2. CASE n \in {Nil, MissingNode}
    BY <2>2, SMT DEF Nil, MissingNode
  <2> QED
    BY <2>1, <2>2, Zenon DEF NodeInv, Given
<1>4. Str(n) => StrOrBin(n)
  BY Zenon DEF Str, StrOrBin
<1> DEFINE C(name, end, typed, ok) == room >= Len(end) /\ CopiesTo(room, n, name, end, Len(end), typed, ok)
<1>5. CASE C("copy_data", <<>>, StrOrBin(n), StrOrBin(n))
  <2>1. PICK typed, ok : typed = StrOrBin(n) /\ ok = StrOrBin(n)
    OBVIOUS
  <2>2. C("copy_data", <<>>, typed, ok) /\ (typed => StrOrBin(n))
    BY <1>5, <2>1, Zenon
  <2>3. Asked /\ held' = held /\ fn' = "copy_data" /\ from' = n /\ CopiesOut(<<>>, ok)
    BY <1>2, <1>3, <2>2, CopyOut, Zenon
  <2> QED
    BY <2>1, <2>3, Zenon
<1>6. CASE C("copy_utf8", <<>>, Str(n), Utf8(n))
  BY <1>2, <1>3, <1>4, <1>6, CopyOut, Zenon
<1>7. CASE C("copy_cstr", NUL, Str(n), CStr(n))
  BY <1>2, <1>3, <1>4, <1>7, CopyOut, Zenon
<1>8. CASE C("copy_utf8_cstr", NUL, Str(n), Utf8CStr(n))
  BY <1>2, <1>3, <1>4, <1>8, CopyOut, Zenon
<1> QED
  BY <1>1, <1>5, <1>6, <1>7, <1>8, Zenon
LEMMA NULs ==
  NUL \in Seq(Byte) /\ Len(NUL) = 1 /\ NUL[1] = 0 /\ DOMAIN NUL = 1..1
<1>1. Len(NUL) = 1 /\ NUL[1] = 0 /\ DOMAIN NUL = 1..1
  BY SMT DEF NUL
<1>2. 0 \in Byte
  BY SMT DEF Byte
<1> QED
  BY <1>1, <1>2, SMT DEF NUL

\* A copy ends inside of the buffer.
LEMMA CopyEnds ==
  ASSUME NodesOK, from' \in Given, NEW end \in Seq(Byte), NEW ok, CopiesOut(end, ok)
  PROVE  Len(out'.data) <= arguments'.size
<1>1. CASE out'.data = end /\ Len(end) <= arguments'.size
  BY <1>1, Zenon
<1>2. CASE StrOrBin(from') /\ from'.len <= arguments'.size - Len(end) /\ out'.data = from'.bytes \o end
  <2>1. from'.bytes \in Seq(Byte) /\ Len(from'.bytes) = from'.len /\ from'.len \in Nat
    BY <1>2, TextNode, Zenon
  <2>2. Len(out'.data) = Len(from'.bytes) + Len(end)
    BY <1>2, <2>1, ConcatProperties, Zenon
  <2>3. Len(end) \in Nat /\ arguments'.size \in Nat
    BY LenProperties, Zenon DEF CopiesOut
  <2> QED
    BY <1>2, <2>1, <2>2, <2>3, SMT
<1> QED
  BY <1>1, <1>2, Zenon DEF CopiesOut

\* A C string ends with the only NUL it has.
EndsWithNUL ==
  /\ \A i \in DOMAIN out'.data : out'.data[i] = 0 <=> i = Len(out'.data)
  /\ IF flagged' = "ok" THEN out'.data # <<>> ELSE out'.data = NUL

LEMMA CStringEnds ==
  ASSUME NodesOK, from' \in Given, NEW ok, ok => mpack_str_check_no_null(from'.bytes), CopiesOut(NUL, ok)
  PROVE  EndsWithNUL
<1>1. CASE flagged' # "ok" /\ out'.data = NUL
  <2>1. ASSUME NEW i \in DOMAIN NUL PROVE NUL[i] = 0 <=> i = Len(NUL)
    <3>1. i = 1
      BY NULs, SMT
    <3> QED
      BY <3>1, NULs, Zenon
  <2> QED
    BY <1>1, <2>1, Zenon DEF EndsWithNUL
<1>2. CASE /\ flagged' = "ok" /\ StrOrBin(from') /\ out'.data = from'.bytes \o NUL /\ ok
  <2> DEFINE b == from'.bytes
             d == out'.data
  <2>1. b \in Seq(Byte) /\ Len(b) \in Nat
    BY <1>2, TextNode, LenProperties, Zenon
  <2>2. d = b \o NUL
    BY <1>2, Zenon
  <2>3. \A i \in DOMAIN b : b[i] # 0
    BY <1>2, Zenon DEF mpack_str_check_no_null
  <2> HIDE DEF b, d
  <2>4. /\ d \in Seq(Byte) /\ Len(d) = Len(b) + 1
        /\ \A i \in 1..(Len(b) + 1) : d[i] = IF i <= Len(b) THEN b[i] ELSE NUL[i - Len(b)]
    <3>1. NUL \in Seq(Byte) /\ Len(NUL) = 1
      BY NULs, Zenon
    <3>2. /\ b \o NUL \in Seq(Byte) /\ Len(b \o NUL) = Len(b) + Len(NUL)
          /\ \A i \in 1..(Len(b) + Len(NUL)) : (b \o NUL)[i] = IF i <= Len(b) THEN b[i] ELSE NUL[i - Len(b)]
      BY <2>1, <3>1, ConcatProperties, Zenon
    <3> QED
      BY <2>2, <3>1, <3>2, Zenon
  <2>5. DOMAIN d = 1..(Len(b) + 1) /\ DOMAIN b = 1..Len(b)
    BY <2>1, <2>4, LenProperties, Zenon
  <2>6. ASSUME NEW i \in DOMAIN d PROVE d[i] = 0 <=> i = Len(d)
    <3>1. i \in 1..(Len(b) + 1)
      BY <2>5, Zenon
    <3>2. CASE i <= Len(b)
      <4>1. i \in 1..Len(b) /\ i # Len(b) + 1
        BY <2>1, <3>1, <3>2, SMT
      <4> QED
        BY <2>3, <2>4, <2>5, <3>1, <3>2, <4>1, Zenon
    <3>3. CASE ~(i <= Len(b))
      <4>1. i = Len(b) + 1 /\ i - Len(b) = 1
        BY <2>1, <3>1, <3>3, SMT
      <4> QED
        BY <2>4, <3>1, <3>3, <4>1, NULs, Zenon
    <3> QED
      BY <3>2, <3>3, Zenon
  <2>7. d # <<>>
    <3>1. Len(d) # 0
      BY <2>1, <2>4, SMT
    <3>2. Len(<<>>) = 0
      BY SMT
    <3> QED
      BY <3>1, <3>2, Zenon
  <2> QED
    BY <1>2, <2>6, <2>7, Zenon DEF EndsWithNUL, d
<1> QED
  BY <1>1, <1>2, Zenon DEF CopiesOut

TextFns == {"check_utf8", "check_utf8_cstr", "copy_data", "copy_utf8", "copy_cstr", "copy_utf8_cstr", "utf8_cstr_alloc"}

\* What a call does to a string.
Texts ==
  \/ fn' \notin TextFns
  \/ fn' = "check_utf8" /\ (flagged = "ok" => (flagged' = "ok" <=> Utf8(from')))
  \/ fn' = "check_utf8_cstr" /\ (flagged = "ok" => (flagged' = "ok" <=> Utf8CStr(from')))
  \/ fn' = "copy_data" /\ CopiesOut(<<>>, StrOrBin(from'))
  \/ fn' = "copy_utf8" /\ CopiesOut(<<>>, Utf8(from'))
  \/ fn' = "copy_cstr" /\ CopiesOut(NUL, CStr(from'))
  \/ fn' = "copy_utf8_cstr" /\ CopiesOut(NUL, Utf8CStr(from'))
  \/ fn' = "utf8_cstr_alloc" /\ (flagged' = "ok" => Utf8CStr(from'))

LEMMA TextNames ==
  /\ (LookupFns \cup DOMAIN Width) \cap TextFns = {}
  /\ \A name \in
       {"float", "double", "float_strict", "double_strict", "type", "tag", "is_nil", "is_missing", "bool",
        "nil", "missing", "true", "false", "data_len", "strlen", "bin_size", "str", "data", "bin_data",
        "array_length", "map_count", "enum_optional", "enum", "array_at", "map_key_at", "map_value_at",
        "data_alloc", "cstr_alloc"} : name \notin TextFns
BY OtherNames, SMT DEF LookupFns, TextFns

LEMMA TextCalls ==
  ASSUME NodesOK, NodeInv, GettersNext
  PROVE  Texts
<1>1. CASE Integer \/ mpack_node_uint \/ mpack_node_int
  BY <1>1, IntegerCalls, TextNames, Zenon DEF Texts
<1>2. CASE Lookups
  BY <1>2, LookupCalls, TextNames, Zenon DEF LooksUp, Texts
<1>3. CASE Floating
  BY <1>3, FloatingCalls, TextNames, Zenon DEF Elsewhere, Texts
<1>4. CASE mpack_node_type \/ mpack_node_tag \/ mpack_node_is_nil \/ mpack_node_is_missing \/ mpack_node_bool
  BY <1>4, PlainCalls, TextNames, Zenon DEF Elsewhere, Texts
<1>5. CASE Checked
  <2>1. fn' \in {"nil", "missing", "true", "false"}
    BY <1>5, Zenon DEF Checked, Checks, Gets, Call
  <2> QED
    BY <2>1, TextNames, Zenon DEF Texts
<1>6. CASE mpack_node_check_utf8
  <2>1. PICK n \in {root, held} :
          IF Clear /\ Utf8(n) THEN Call(n, "check_utf8", NoArgs, Nothing, "ok", held)
          ELSE Call(n, "check_utf8", NoArgs, Nothing, "type", held)
    BY <1>6, Zenon DEF mpack_node_check_utf8, Checks, Gets
  <2> QED
    BY <2>1, Zenon DEF Call, mpack_tree_flag_error, Clear, Texts
<1>7. CASE mpack_node_check_utf8_cstr
  <2>1. PICK n \in {root, held} :
          IF Clear /\ Utf8CStr(n) THEN Call(n, "check_utf8_cstr", NoArgs, Nothing, "ok", held)
          ELSE Call(n, "check_utf8_cstr", NoArgs, Nothing, "type", held)
    BY <1>7, Zenon DEF mpack_node_check_utf8_cstr, Checks, Gets
  <2> QED
    BY <2>1, Zenon DEF Call, mpack_tree_flag_error, Clear, Texts
<1>8. CASE Lengths \/ Pointers \/ Counts
  BY <1>8, LengthCalls, TextNames, Zenon DEF Elsewhere, Texts
<1>9. CASE Enums
  BY <1>9, EnumCalls, TextNames, Zenon DEF Elsewhere, Texts
<1>10. CASE Copied
  BY <1>10, Copies4, Zenon DEF Texts
<1>11. CASE Allocated
  <2>1. \/ fn' \in {"data_alloc", "cstr_alloc"}
        \/ fn' = "utf8_cstr_alloc" /\ (flagged' = "ok" => Utf8CStr(from'))
    BY <1>11, ZenonT(30) DEF Allocated, Allocates, Call, mpack_tree_flag_error
  <2> QED
    BY <2>1, TextNames, Zenon DEF Texts
<1>12. CASE Members
  BY <1>12, ElementCalls, TextNames, Zenon DEF Texts
<1> QED
  BY <1>1, <1>2, <1>3, <1>4, <1>5, <1>6, <1>7, <1>8, <1>9, <1>10, <1>11, <1>12, Zenon DEF GettersNext

\* Strings and data (mpack_node_check_utf8, copy_* and *_alloc): for every tree, a string
\* is taken for UTF-8 exactly if it is UTF-8, and a copy ends inside of the caller's
\* buffer, a C string with the only NUL it has.
THEOREM TextsAreUtf8 == GettersSpec => TextsExact
<1> NodesOK
  BY NodesAssumption
<1> DEFINE Exact ==
      /\ flagged = "ok" /\ fn' \in {"check_utf8", "check_utf8_cstr"} =>
           (flagged' = "ok" <=> Checking(from', fn' = "check_utf8_cstr"))
      /\ flagged' = "ok" /\ fn' \in {"copy_utf8", "copy_utf8_cstr", "utf8_cstr_alloc"} => WellFormed(from'.bytes)
      /\ fn' \in {"copy_data", "copy_utf8", "copy_cstr", "copy_utf8_cstr"} => Len(out'.data) <= arguments'.size
      /\ fn' \in {"copy_cstr", "copy_utf8_cstr"} => EndsWithNUL
<1>1. ASSUME NodeInv, GettersNext PROVE Exact
  <2>1. from' \in Given
    BY <1>1, EachCall, Zenon DEF ReadsInteger, Reads, LooksUp, Others, Asked, NodeInv
  <2>2. Texts
    BY <1>1, TextCalls, Zenon
  <2>3. /\ Utf8(from') <=> Checking(from', FALSE)
        /\ Utf8CStr(from') <=> Checking(from', TRUE)
        /\ Utf8(from') \/ Utf8CStr(from') => WellFormed(from'.bytes)
    BY <2>1, Checkings, Zenon DEF Checking
  <2>4. ("check_utf8" = "check_utf8_cstr") = FALSE /\ ("check_utf8_cstr" = "check_utf8_cstr") = TRUE
    OBVIOUS
  <2>5. <<>> \in Seq(Byte) /\ NUL \in Seq(Byte)
    BY EmptySeq, NULs, Zenon
  <2>6. ASSUME NEW ok, CopiesOut(<<>>, ok) \/ CopiesOut(NUL, ok) PROVE Len(out'.data) <= arguments'.size
    BY <2>1, <2>5, <2>6, CopyEnds, Zenon
  <2>7. CStr(from') \/ Utf8CStr(from') => mpack_str_check_no_null(from'.bytes)
    BY Zenon DEF CStr, Utf8CStr, mpack_utf8_check_no_null
  <2>8. ASSUME NEW ok, ok => mpack_str_check_no_null(from'.bytes), CopiesOut(NUL, ok) PROVE EndsWithNUL
    BY <2>1, <2>8, CStringEnds, Zenon
  <2>9. CASE fn' \notin TextFns
    BY <2>9, Zenon DEF TextFns
  <2>10. CASE fn' = "check_utf8" /\ (flagged = "ok" => (flagged' = "ok" <=> Utf8(from')))
    <3>1. flagged = "ok" => (flagged' = "ok" <=> Checking(from', fn' = "check_utf8_cstr"))
      BY <2>3, <2>4, <2>10, Zenon
    <3> QED
      BY <2>10, <3>1
  <2>11. CASE fn' = "check_utf8_cstr" /\ (flagged = "ok" => (flagged' = "ok" <=> Utf8CStr(from')))
    <3>1. flagged = "ok" => (flagged' = "ok" <=> Checking(from', fn' = "check_utf8_cstr"))
      BY <2>3, <2>4, <2>11, Zenon
    <3> QED
      BY <2>11, <3>1
  <2>12. CASE fn' = "copy_data" /\ CopiesOut(<<>>, StrOrBin(from'))
    BY <2>6, <2>12, Zenon
  <2>13. CASE fn' = "copy_utf8" /\ CopiesOut(<<>>, Utf8(from'))
    BY <2>3, <2>6, <2>13, Zenon DEF CopiesOut
  <2>14. CASE fn' = "copy_cstr" /\ CopiesOut(NUL, CStr(from'))
    BY <2>6, <2>7, <2>8, <2>14, Zenon
  <2>15. CASE fn' = "copy_utf8_cstr" /\ CopiesOut(NUL, Utf8CStr(from'))
    <3>1. Len(out'.data) <= arguments'.size
      BY <2>6, <2>15, Zenon
    <3>2. EndsWithNUL
      BY <2>7, <2>8, <2>15, Zenon
    <3>3. flagged' = "ok" => WellFormed(from'.bytes)
      BY <2>3, <2>15, Zenon DEF CopiesOut
    <3> QED
      BY <2>15, <3>1, <3>2, <3>3, Zenon
  <2>16. CASE fn' = "utf8_cstr_alloc" /\ (flagged' = "ok" => Utf8CStr(from'))
    BY <2>3, <2>16, Zenon
  <2> QED
    BY <2>2, <2>9, <2>10, <2>11, <2>12, <2>13, <2>14, <2>15, <2>16, Zenon DEF Texts
<1>2. NodeInv /\ [GettersNext]_getterVars => [Exact]_getterVars
  BY <1>1, Zenon
<1>3. [Exact]_getterVars =>
       [/\ flagged = "ok" /\ fn' \in {"check_utf8", "check_utf8_cstr"} =>
             (flagged' = "ok" <=> Checking(from', fn' = "check_utf8_cstr"))
        /\ flagged' = "ok" /\ fn' \in {"copy_utf8", "copy_utf8_cstr", "utf8_cstr_alloc"} => WellFormed(from'.bytes)
        /\ fn' \in {"copy_data", "copy_utf8", "copy_cstr", "copy_utf8_cstr"} => Len(out'.data) <= arguments'.size
        /\ fn' \in {"copy_cstr", "copy_utf8_cstr"} =>
             /\ \A i \in DOMAIN out'.data : out'.data[i] = 0 <=> i = Len(out'.data)
             /\ IF flagged' = "ok" THEN out'.data # <<>> ELSE out'.data = NUL]_getterVars
  BY Zenon DEF EndsWithNUL
<1> HIDE DEF Exact
<1> QED
  BY <1>2, <1>3, NodesStayInTree, PTL DEF GettersSpec, TextsExact
================================================================================
