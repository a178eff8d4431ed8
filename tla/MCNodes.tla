------------------------------ MODULE MCNodes ------------------------------
(* Instances of Nodes for TLC: small inventories and request mixes.        *)
EXTENDS Nodes, TLC

CONSTANTS encl, cpu1, cpu2, gpu, pdu, rack, r1, r2, r3, r4, r5, r6

Rel(t, targets) == [relationType |-> t, targets |-> targets]
Del(n) == [kind |-> "delete", node |-> n]
Link(n, body) == [kind |-> "link", node |-> n, body |-> body]
Unlink(n, body) == [kind |-> "unlink", node |-> n, body |-> body]

\* An enclosure with two compute nodes, fed by a pdu that also feeds one of
\* the compute nodes directly, beside a rack; both sides of every relation are
\* stored.
Flat ==
    encl :> <<Rel("encloses", <<cpu1, cpu2>>), Rel("poweredBy", <<pdu>>)>>
    @@ cpu1 :> <<Rel("enclosedBy", <<encl>>), Rel("poweredBy", <<pdu>>)>>
    @@ cpu2 :> <<Rel("enclosedBy", <<encl>>)>>
    @@ pdu :> <<Rel("powers", <<encl, cpu1>>)>>
    @@ rack :> <<>>

\* An enclosure in an enclosure, beside a rack with a relation of a type of its own.
Deep ==
    encl :> <<Rel("encloses", <<cpu1>>)>>
    @@ cpu1 :> <<Rel("enclosedBy", <<encl>>), Rel("encloses", <<gpu>>)>>
    @@ gpu :> <<Rel("enclosedBy", <<cpu1>>)>>
    @@ pdu :> <<>>
    @@ rack :> <<Rel("near", <<gpu>>)>>

\* A pdu that feeds a compute node and stands in a rack.
Racked ==
    cpu1 :> <<Rel("poweredBy", <<pdu>>)>>
    @@ pdu :> <<Rel("powers", <<cpu1>>), Rel("containedBy", <<rack>>)>>
    @@ rack :> <<Rel("contains", <<pdu>>)>>

FlatDb == {Flat}
DeepDb == {Deep}
RackedDb == {Racked}

Idle == {{}}
OneActiveDeep == {{}, {cpu1}, {gpu}}

\* Deletions of an enclosure and of one of its components, an unlink, and links
\* that compete for the one rack a node may stand in.
SerialOps ==
    r1 :> Del(encl) @@ r2 :> Del(cpu1) @@ r3 :> Unlink(pdu, [powers |-> <<encl>>])
    @@ r4 :> Link(cpu2, [containedBy |-> <<rack>>, enclosedBy |-> <<rack>>])
    @@ r5 :> Link(cpu2, [containedBy |-> <<pdu>>]) @@ r6 :> Del(pdu)

\* Deletions of an enclosure and of the component of its component, and links of
\* one node to another that nobody deletes.
DeepOps ==
    r1 :> Del(encl) @@ r2 :> Del(gpu)
    @@ r3 :> Link(rack, [contains |-> <<pdu>>]) @@ r4 :> Link(rack, [powers |-> <<pdu>>])

\* A link and the same link undone.
UndoneOps ==
    r1 :> Link(rack, [powers |-> <<cpu1>>]) @@ r2 :> Unlink(rack, [powers |-> <<cpu1>>])

=============================================================================
