------------------------------- MODULE Documents -------------------------------
(***************************************************************************)
(* DataStore.js: an index over JSON documents, with DOC.INDEXCREATE, ADD,   *)
(* UPDATE, DEL, REBUILD, DROP and the search of DOC.SEARCH.  Commands that   *)
(* change documents do not look at the index: it follows when it is told to.*)
(*                                                                         *)
(* A document is the terms of its TEXT field and the value of its NUMERIC   *)
(* one.  `indexed' is a history: what each document was when it was indexed. *)
(***************************************************************************)
EXTENDS Lists

CONSTANTS Key,       \* the keys of documents
          Prefixes,  \* the sets of keys that begin with the PREFIX of some index.  Stored keys
                     \* begin with {dbN}:, a PREFIX is taken as the client writes it: none for
                     \* most, all for '', some for one that names the database itself
          Term,      \* the terms of a text
          Price,     \* the values of the NUMERIC field
          NoNumber,  \* what is no number
          Document,  \* the documents to consider, as [json, terms, price]
          Includes(_, _)  \* term.includes(token)

VARIABLES kv, text, numeric, docs, indexed,
          exists,    \* whether there is an index
          prefixed   \* the stored keys that begin with its PREFIX

vars == <<kv, text, numeric, docs, indexed, exists, prefixed>>

NotJson == [json |-> FALSE, terms |-> {}, price |-> NoNumber]   \* or no key at all

Without(f, x) == [y \in DOMAIN f \ {x} |-> f[y]]
------------------------------------------------------------------------------
(* The index: a map from terms to the documents that have them, and one from documents *)
(* to numbers                                                                          *)

\* _docUnindex.  Bug: the postings stay.
UnindexedNumberOnly(index, k) == [index EXCEPT !.numeric = Without(@, k)]

\* _docUnindex: a term nobody has goes.
Unindexed(index, k) ==
  LET left(t) == index.text[t] \ {k}
  IN  [text    |-> [t \in {u \in DOMAIN index.text : left(u) # {}} |-> left(t)],
       numeric |-> Without(index.numeric, k)]

\* _docIndexObject: what is no number is left out.
WithObject(index, k, d) ==
  [text |-> [t \in DOMAIN index.text \cup d.terms |->
               (IF t \in DOMAIN index.text THEN index.text[t] ELSE {}) \cup (IF t \in d.terms THEN {k} ELSE {})],
   numeric |-> IF d.price = NoNumber THEN index.numeric
               ELSE [x \in DOMAIN index.numeric \cup {k} |-> IF x = k THEN d.price ELSE index.numeric[x]]]

Index == [text |-> text, numeric |-> numeric]
Becomes(index) == text' = index.text /\ numeric' = index.numeric

\* DOC.INDEXADD and DOC.INDEXUPDATE are one; neither looks at the prefix.
IndexAdd(k) ==
  /\ exists /\ kv[k].json
  /\ Becomes(WithObject(Unindexed(Index, k), k, kv[k]))
  /\ docs' = docs \cup {k} /\ indexed' = [indexed EXCEPT ![k] = kv[k]]
  /\ UNCHANGED <<kv, exists, prefixed>>

IndexDel(k) ==
  /\ exists /\ Becomes(Unindexed(Index, k))
  /\ docs' = docs \ {k}
  /\ UNCHANGED <<kv, exists, prefixed, indexed>>

Empty == [text |-> <<>>, numeric |-> <<>>]

\* The documents KEYS finds with the PREFIX, and no other, whatever INDEXADD has added.
Rebuild ==
  LET found == SetToSeq({k \in prefixed : kv[k].json})
      Add(index, k) == WithObject(index, k, kv[k])
  IN  /\ exists /\ Becomes(FoldLeft(Add, Empty, found))
      /\ docs' = Range(found)
      /\ indexed' = [k \in Key |-> IF k \in Range(found) THEN kv[k] ELSE indexed[k]]
      /\ UNCHANGED <<kv, exists, prefixed>>

\* An index of this name is replaced by an empty one.
Create(matched) ==
  Becomes(Empty) /\ docs' = {} /\ exists' = TRUE /\ prefixed' = matched /\ UNCHANGED <<kv, indexed>>
Drop ==
  exists /\ Becomes(Empty) /\ docs' = {} /\ exists' = FALSE /\ prefixed' = {} /\ UNCHANGED <<kv, indexed>>

\* JSON.SET, DEL, SET by any client.
Change(k, d) == kv[k] # d /\ kv' = [kv EXCEPT ![k] = d] /\ UNCHANGED <<text, numeric, docs, exists, prefixed, indexed>>
------------------------------------------------------------------------------
(* DOC.SEARCH *)

Postings(token) == UNION {text[t] : t \in {u \in DOMAIN text : Includes(u, token)}}

\* Every token is part of some term; then the filter on the number.
Search(tokens, min, max) ==
  LET Meet(found, token) == found \cap Postings(token)
      found == FoldLeft(Meet, Postings(Head(tokens)), Tail(tokens))
  IN  {k \in found : k \in DOMAIN numeric /\ numeric[k] >= min /\ numeric[k] <= max}

Init ==
  /\ kv = [k \in Key |-> NotJson] /\ indexed = [k \in Key |-> NotJson]
  /\ text = <<>> /\ numeric = <<>> /\ docs = {} /\ exists = FALSE /\ prefixed = {}

Next ==
  \/ \E k \in Key : IndexAdd(k) \/ IndexDel(k) \/ \E d \in Document \cup {NotJson} : Change(k, d)
  \/ \E matched \in Prefixes : Create(matched)
  \/ Rebuild \/ Drop

Spec == Init /\ [][Next]_vars
------------------------------------------------------------------------------
(* Properties *)

\* The types of the variables.
TypeOK ==
  /\ kv \in [Key -> Document \cup {NotJson}] /\ indexed \in [Key -> Document \cup {NotJson}]
  /\ DOMAIN text \subseteq Term /\ \A t \in DOMAIN text : text[t] \subseteq Key
  /\ DOMAIN numeric \subseteq Key /\ \A k \in DOMAIN numeric : numeric[k] \in Price
  /\ docs \subseteq Key /\ prefixed \subseteq Key /\ exists \in BOOLEAN

\* The index holds of each of its documents what it was when it was last indexed, nothing
\* of an earlier version, and nothing of a document that was taken out; no term is kept
\* for nobody.
IndexIsWhatWasIndexed ==
  /\ \A t \in Term : (IF t \in DOMAIN text THEN text[t] ELSE {}) = {k \in docs : t \in indexed[k].terms}
  /\ \A t \in DOMAIN text : text[t] # {}
  /\ numeric = [k \in {x \in docs : indexed[x].price # NoNumber} |-> indexed[k].price]

\* A search finds the documents in which every token is part of a term and whose number
\* is in the range: as they were indexed, which for a document told about its changes is
\* as it is now.
SearchIsExact ==
  \A tokens \in [1 .. 2 -> Term], min, max \in Price :
    Search(tokens, min, max) =
      {k \in docs : /\ \A token \in Range(tokens) : \E t \in indexed[k].terms : Includes(t, token)
                    /\ indexed[k].price \in min .. max}
==============================================================================
