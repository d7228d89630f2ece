--------------------------------- MODULE PbIter ---------------------------------
(***************************************************************************)
(* nanopb's field iterator over one message: any calls, in any order.  The *)
(* loops of the two finds take a step for each field they pass.            *)
(***************************************************************************)
EXTENDS PbField

CONSTANTS
  Messages,  \* messages, as for PB_BIND
  Tags,      \* tags to look for
  Names      \* the message types that fields have, and ""

\* The count, has- or which- member lies just before the data.
IsField(f) ==
  /\ f.tag \in Nat \ {0} /\ f.at \in ToSet(ATypes) /\ f.ht \in ToSet(HTypes)
  /\ f.lt \in ToSet(LTypes) /\ f.single \in BOOLEAN /\ f.fixed \in BOOLEAN
  /\ f.off \in Nat /\ f.size \in Nat /\ f.delta \in 0..255 /\ f.count \in Nat \ {0}
  /\ f.sub \in Names /\ (PB_LTYPE_IS_SUBMSG(f.lt) <=> f.sub # "")

\* Fields come in the order of their tags, and pass the asserts of their width.
IsMessage(m) ==
  /\ Len(m.fields) \in Nat \ {0} /\ m.width \in {0, 1, 2, 3, AUTO}
  /\ \A i \in 1..Len(m.fields) :
       /\ IsField(m.fields[i]) /\ PB_FIELDINFO_ASSERT(m.fields[i], Len2(m, m.fields[i]))
       /\ i > 1 => m.fields[i - 1].tag < m.fields[i].tag

ASSUME MessagesAssumption ==
  /\ \A m \in Messages : IsMessage(m)
  /\ Tags \subseteq Nat

VARIABLES
  message,
  desc,
  index, field_info_index, submessage_index, required_field_index,
  field,  \* what was loaded last, and the type of the submessage
  doing,     \* "idle", "find" or "find_extension"
  want, start,
  answer  \* of the last call

counters == <<index, field_info_index, submessage_index, required_field_index>>
iter_vars == <<message, desc, counters, field, doing, want, start, answer>>

\* load_descriptor_values.
WithMessage(f, sub) ==
  [loaded |-> f,
   submsg |-> IF PB_LTYPE_IS_SUBMSG(f.type.lt) THEN desc.submsg_info[sub + 1] ELSE ""]
LoadAt(info, sub) == WithMessage(Loaded(desc.field_info, info), sub)
load_descriptor_values == field' = LoadAt(field_info_index', submessage_index')

\* pb_field_iter_begin.
IterInit ==
  /\ message \in Messages /\ desc = PB_BIND(message)
  /\ index = 0 /\ field_info_index = 0 /\ submessage_index = 0 /\ required_field_index = 0
  /\ field = LoadAt(0, 0)
  /\ doing = "idle" /\ want = 0 /\ start = 0 /\ answer = TRUE

Rewound == field_info_index' = 0 /\ submessage_index' = 0 /\ required_field_index' = 0

\* From index i on: the counters of the field behind it, or of the first.
advance_iterator(i) ==
  IF i + 1 >= desc.field_count THEN index' = 0 /\ Rewound
  ELSE LET word == desc.field_info[field_info_index + 1]
       IN /\ index' = i + 1 /\ field_info_index' = field_info_index + Power[Part(word, 0, 2)]
          /\ \E type \in {TypeOf(word)} :
               /\ required_field_index' =
                    required_field_index + (IF type.ht = "REQUIRED" THEN 1 ELSE 0)
               /\ submessage_index' =
                    submessage_index + (IF PB_LTYPE_IS_SUBMSG(type.lt) THEN 1 ELSE 0)

pb_field_iter_next ==
  /\ doing = "idle"
  /\ advance_iterator(index) /\ load_descriptor_values
  /\ answer' = (index' # 0)
  /\ UNCHANGED <<message, desc, doing, want, start>>

(***************************************************************************)
(* pb_field_iter_find.                                                     *)
(***************************************************************************)
Answer(b) == doing' = "idle" /\ answer' = b

FindNow(tag) ==
  /\ doing = "idle" /\ (field.loaded.tag = tag \/ tag > desc.largest_tag)
  /\ want' = tag /\ start' = index
  /\ Answer(field.loaded.tag = tag)
  /\ UNCHANGED <<message, desc, counters, field>>

\* The first turn of the loop, from the end when the tag is a smaller one.
From(tag) == IF tag < field.loaded.tag THEN desc.field_count ELSE index

\* What one turn finds at the field that index' now names.
\* _Whole: the six bits there are compared with the whole tag.
Candidate_Whole(tag) == Part(desc.field_info[field_info_index' + 1], 2, 6) = tag
Candidate(tag) == Part(desc.field_info[field_info_index' + 1], 2, 6) = tag % 64

Passed(back) == index' = back

Turn(tag, from, back) ==
  /\ advance_iterator(from)
  /\ IF Candidate(tag)
     THEN /\ load_descriptor_values
          /\ \/ /\ field'.loaded.tag = tag /\ field'.loaded.type.lt # "EXTENSION"
                /\ Answer(TRUE)
             \/ /\ ~(field'.loaded.tag = tag /\ field'.loaded.type.lt # "EXTENSION")
                /\ IF Passed(back) THEN Answer(FALSE) ELSE doing' = "find" /\ UNCHANGED answer
     ELSE IF Passed(back) THEN load_descriptor_values /\ Answer(FALSE)
     ELSE doing' = "find" /\ UNCHANGED <<field, answer>>

FindStart(tag) ==
  /\ doing = "idle" /\ field.loaded.tag # tag /\ tag <= desc.largest_tag
  /\ want' = tag /\ start' = index
  /\ Turn(tag, From(tag), index)
  /\ UNCHANGED <<message, desc>>

FindOn ==
  /\ doing = "find" /\ Turn(want, index, start)
  /\ UNCHANGED <<message, desc, want, start>>

(***************************************************************************)
(* pb_field_iter_find_extension.                                           *)
(***************************************************************************)
ExtensionNow ==
  /\ doing = "idle" /\ field.loaded.type.lt = "EXTENSION"
  /\ start' = index /\ want' = 0 /\ Answer(TRUE)
  /\ UNCHANGED <<message, desc, counters, field>>

ExtensionTurn(back) ==
  /\ advance_iterator(index)
  /\ LET found == Loaded(desc.field_info, field_info_index').type.lt = "EXTENSION"
     IN IF found \/ Passed(back) THEN load_descriptor_values /\ Answer(found)
        ELSE doing' = "find_extension" /\ UNCHANGED <<field, answer>>

ExtensionStart ==
  /\ doing = "idle" /\ field.loaded.type.lt # "EXTENSION"
  /\ start' = index /\ want' = 0 /\ ExtensionTurn(index)
  /\ UNCHANGED <<message, desc>>

ExtensionOn ==
  /\ doing = "find_extension" /\ ExtensionTurn(start)
  /\ UNCHANGED <<message, desc, want, start>>

Loop == FindOn \/ ExtensionOn
IterNext ==
  \/ pb_field_iter_next
  \/ \E tag \in Tags : FindNow(tag) \/ FindStart(tag)
  \/ ExtensionNow \/ ExtensionStart
  \/ Loop

IterSpec == IterInit /\ [][IterNext]_iter_vars

(***************************************************************************)
(* Properties.                                                             *)
(***************************************************************************)
Current == message.fields[index + 1]

\* The iterator holds what was declared for the field it is at: its number, place, sizes
\* and message type; and required fields are numbered in their order.
OneField ==
  /\ field.loaded.tag = Current.tag
  /\ field.loaded.type = [lt |-> Current.lt, ht |-> Current.ht, at |-> Current.at]
  /\ field.loaded.data_offset = Current.off /\ field.loaded.data_size = Current.size
  /\ field.loaded.size_offset = PB_SIZE_OFFSET(Current)
  /\ field.loaded.array_size = PB_ARRAY_SIZE(Current)
  /\ field.submsg = Current.sub
  /\ required_field_index = Cardinality({i \in 1..index : message.fields[i].ht = "REQUIRED"})

AFind == FindOn \/ \E tag \in Tags : FindNow(tag) \/ FindStart(tag)

Missing(tag) == \A i \in 1..Len(message.fields) :
  message.fields[i].tag = tag => message.fields[i].lt = "EXTENSION"

FindsStep ==
  doing' = "idle" =>
    /\ OneField'
    /\ AFind /\ answer' => field'.loaded.tag = want'
    /\ AFind /\ ~answer' => index' = start' /\ Missing(want')
\* After every call the iterator is one field's in all its parts, however it got there.
\* A find says whether the message has a field of that tag, which is then the current
\* one; if it has none the iterator is back where it was.  The placeholder of
\* extensions is found only from itself.
Finds == [][FindsStep]_iter_vars
================================================================================
