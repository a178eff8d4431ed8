--------------------------- MODULE NodeRelations ---------------------------
(***************************************************************************)
(* The relations document of a node and the atomic operations the          *)
(* datastore offers on it.  nodes-api-service.js never writes a whole      *)
(* document back: every change goes through one of the list operations of  *)
(* waterline.nodes below, addressed by the POSITION of the relation item   *)
(* inside the document ("relations.<index>.targets").                      *)
(***************************************************************************)
EXTENDS Naturals, Sequences, SequencesExt

CONSTANTS
    Node,           \* node identifiers
    OtherType       \* types of stored relations that the table below does not have

\* Constants.NodeRelations: each type, its counterpart on the other node and
\* the class of the pair.
NodeRelations ==
    [encloses    |-> [mapping |-> "enclosedBy",  relationClass |-> "component"],
     enclosedBy  |-> [mapping |-> "encloses",    relationClass |-> "component"],
     contains    |-> [mapping |-> "containedBy", relationClass |-> "container"],
     containedBy |-> [mapping |-> "contains",    relationClass |-> "container"],
     powers      |-> [mapping |-> "poweredBy",   relationClass |-> "dependency"],
     poweredBy   |-> [mapping |-> "powers",      relationClass |-> "dependency"]]

RelationType == DOMAIN NodeRelations

\* A component relation that does not point upwards: deleting the node deletes
\* the targets too (relationClass === 'component', no 'By' in the name).
Cascades(t) == /\ t \in RelationType
               /\ NodeRelations[t].relationClass = "component"
               /\ t \notin {"enclosedBy", "containedBy", "poweredBy"}

\* A target is the id of a node, or the document of one: addRelation pushes what
\* it is given.  Copies of a document taken at different times are not told apart.
AsDocument(n) == [document |-> n]
Target == Node \cup {AsDocument(n) : n \in Node}

Item == [relationType : RelationType \cup OtherType, targets : Seq(Target)]
Relations == Seq(Item)

\* _.findIndex(relations, {relationType: t}); 0 when there is none.
IndexOf(rels, t) ==
    LET at == {i \in DOMAIN rels : rels[i].relationType = t}
    IN  IF at = {} THEN 0 ELSE CHOOSE i \in at : \A j \in at : i <= j

\* The targets a document lists under a type, as a set.
TargetsOf(rels, t) ==
    UNION {ToSet(rels[i].targets) : i \in {j \in DOMAIN rels : rels[j].relationType = t}}

\* The ids the document points at.
References(rels) == Node \cap UNION {ToSet(rels[i].targets) : i \in DOMAIN rels}

\* The nodes a document lists under a type, by id or as documents.
Listed(rels, t) ==
    {n \in Node : {n, AsDocument(n)} \cap TargetsOf(rels, t) # {}}

\* The list without the members of "drop"; a function of the position.
Without(list, drop) ==
    LET kept[i \in 0 .. Len(list)] ==
            IF i = 0 THEN <<>>
            ELSE IF list[i] \in drop THEN kept[i - 1] ELSE Append(kept[i - 1], list[i])
    IN  kept[Len(list)]

Blank(t) == [relationType |-> t, targets |-> <<>>]

\* addListItemsIfNotExistByIdentifier with an existSign: one blank item, unless
\* an item of that type is already there.
PushItem(rels, t) ==
    IF IndexOf(rels, t) = 0 THEN Append(rels, Blank(t)) ELSE rels

\* addListItemsIfNotExistByIdentifier on "relations.<i>.targets".
PushTargets(rels, i, new) ==
    [rels EXCEPT ![i].targets =
        @ \o Without(new, ToSet(@))]

\* Mutation: the position is off by one.
PullTargetsOffByOne(rels, i, old) ==
    IF i - 1 \in DOMAIN rels
    THEN [rels EXCEPT ![i - 1].targets = Without(@, old)]
    ELSE rels

\* removeListItemsByIdentifier on "relations.<i>.targets".  A position past the
\* end of the list removes nothing.
PullTargets(rels, i, old) ==
    IF i \in DOMAIN rels
    THEN [rels EXCEPT ![i].targets = Without(@, old)]
    ELSE rels

\* removeListItemsByIdentifier on "relations": drops the items equal to the
\* blank one, so an item that got a target meanwhile stays.
PullBlank(rels, t) == Without(rels, {Blank(t)})

=============================================================================
