-------------------------------- MODULE TplDoc --------------------------------
(***************************************************************************)
(* What a tpl promises to the program that uses it, without nodes, flags,  *)
(* sizes or bytes: values packed one by one come back one by one, from the *)
(* tpl itself or from what was dumped, each array's elements in order and  *)
(* each with its own inner arrays.                                         *)
(***************************************************************************)
EXTENDS Naturals, Sequences

CONSTANTS
  Root,      \* the packable that is not an array
  Nothing    \* a root that has not been packed

VARIABLES
  inner,   \* packable -> the set of the arrays in it, which never changes
  root,    \* the root's values
  store,   \* array -> its elements so far
  sent,    \* the document dumped last
  open,    \* the document that is being read
  left,    \* array -> the elements not read yet
  reading, \* whether the tpl is for reading
  reply    \* the answer of the last unpack: elements there were, values

dvars == <<inner, root, store, sent, open, left, reading, reply>>

Arrays == DOMAIN inner \ {Root}
Empty == [a \in Arrays |-> <<>>]
NoDoc == [root |-> Nothing, arrays |-> Empty]

Of(arrays, p) == [a \in Arrays |-> IF a \in inner[p] THEN arrays[a] ELSE <<>>]

DInit ==
  /\ root = Nothing /\ store = Empty /\ sent = NoDoc /\ open = NoDoc
  /\ left = Empty /\ reading = FALSE /\ reply = [count |-> 0, val |-> <<>>]

\* Packing a tpl that was being read starts a new one.
Pack(p, val) ==
  LET arrays == IF reading THEN Empty ELSE store
      element == [val |-> val, nested |-> Of(arrays, p)]
  IN /\ reading' = FALSE /\ open' = NoDoc /\ left' = Empty
     /\ IF p = Root
        THEN root' = val /\ store' = arrays
        ELSE /\ root' = IF reading THEN Nothing ELSE root
             /\ store' = [a \in Arrays |->
                  CASE a = p -> Append(arrays[a], element)
                    [] a \in inner[p] -> <<>>
                    [] OTHER -> arrays[a]]
     /\ UNCHANGED <<sent, reply>>

Packed == [root |-> root, arrays |-> Of(store, Root)]

Dump ==
  /\ ~reading /\ sent' = Packed
  /\ UNCHANGED <<root, store, open, left, reading, reply>>

\* A document made in one call, of the root's values alone.
Jot ==
  /\ sent'.arrays = Empty /\ sent' = [root |-> sent'.root, arrays |-> Empty]
  /\ UNCHANGED <<root, store, open, left, reading, reply>>

\* What is read is the document as a whole; its root's arrays can be read at once.
Reading(doc) ==
  /\ reading' = TRUE /\ open' = doc
  /\ root' = Nothing /\ store' = Empty

Load ==
  /\ Reading(sent) /\ left' = Of(sent.arrays, Root)
  /\ UNCHANGED <<sent, reply>>

\* A refused load, or a new map: nothing of an earlier document is left.
Fresh ==
  /\ root' = Nothing /\ store' = Empty /\ open' = NoDoc /\ left' = Empty
  /\ reading' = FALSE
  /\ UNCHANGED <<sent, reply>>

\* Unpacking the root opens its arrays again; unpacking an element of an array
\* opens that element's own arrays.  What was packed can be unpacked directly.
Unpack(p) ==
  LET doc == IF reading THEN open ELSE Packed
      rest == IF reading THEN left ELSE Of(Packed.arrays, Root)
      e == Head(rest[p])
      opened(from, l) == [a \in Arrays |->
        CASE a = p -> Tail(l[a])
          [] a \in inner[p] -> from[a]
          [] OTHER -> l[a]]
  IN /\ Reading(doc)
     /\ IF p = Root
        THEN /\ reply' = [count |-> 1, val |-> doc.root]
             /\ left' = opened(doc.arrays, rest)
        ELSE IF rest[p] = <<>> THEN reply' = [count |-> 0, val |-> <<>>] /\ left' = rest
        ELSE /\ reply' = [count |-> Len(rest[p]), val |-> e.val]
             /\ left' = opened(e.nested, rest)
     /\ UNCHANGED sent

PackSome(p) ==
  \/ p = Root /\ Pack(p, root')
  \/ p # Root /\ store'[p] # <<>> /\ Pack(p, store'[p][Len(store'[p])].val)

DNext ==
  /\ UNCHANGED inner
  /\ \/ \E p \in DOMAIN inner : Unpack(p) \/ PackSome(p)
     \/ Dump \/ Jot \/ Load \/ Fresh

DSpec == DInit /\ [][DNext]_dvars
================================================================================
