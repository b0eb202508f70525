---------------------------- MODULE MatterValue ----------------------------
(***************************************************************************)
(* The Matter values the controller process exchanges (value.cpp): the     *)
(* table of attributes, commands and events it knows, the conversion of a  *)
(* value the SDK decoded into an element, and the validation every element *)
(* passes on its way in and out.                                           *)
(*                                                                         *)
(* A 32-bit number is a pair of 16-bit halves <<high, low>>; smaller ones  *)
(* have high = 0, a boolean is 0 or 1.  An element is a record of its tag  *)
(* (Anonymous, or the number of a context tag), type, number and children. *)
(***************************************************************************)
EXTENDS Integers, Sequences, SequencesExt

Anonymous == -1

Descriptor(kind, cluster, member, schema, operations) ==
    [kind |-> kind, cluster |-> <<0, cluster>>, member |-> <<0, member>>,
     schema |-> schema, ops |-> operations]

Descriptors ==
    {Descriptor("attribute", \h0201, \h0000, "NullableI16", {"read", "subscribe"}),
     Descriptor("attribute", \h0201, \h0011, "I16", {"read", "write"}),
     Descriptor("attribute", \h0201, \h0012, "I16", {"read", "write"}),
     Descriptor("attribute", \h0201, \h001C, "U8", {"read", "write"}),
     Descriptor("attribute", \h0006, \h0000, "Boolean", {"read", "subscribe"}),
     Descriptor("command", \h0006, \h0000, "EmptyStructure", {"invoke"}),
     Descriptor("command", \h0006, \h0001, "EmptyStructure", {"invoke"}),
     Descriptor("command", \h0006, \h0002, "EmptyStructure", {"invoke"}),
     Descriptor("attribute", \h001D, \h0000, "DeviceTypeList", {"read"}),
     Descriptor("attribute", \h001D, \h0001, "ClusterList", {"read"}),
     Descriptor("attribute", \h001D, \h0002, "ClusterList", {"read"}),
     Descriptor("attribute", \h001D, \h0003, "PartsList", {"read"}),
     Descriptor("attribute", \h0039, \h0011, "Boolean", {"read", "subscribe"}),
     Descriptor("event", \h0039, \h0003, "ReachableEvent", {"read", "subscribe"}),
     Descriptor("attribute", \h0402, \h0000, "NullableI16", {"read", "subscribe"}),
     Descriptor("attribute", \h001F, \h0000, "AccessControlList", {"read", "write"}),
     Descriptor("attribute", \h003C, \h0000, "WindowStatus", {"read"}),
     Descriptor("attribute", \h003C, \h0001, "NullableFabricIndex", {"read"}),
     Descriptor("attribute", \h003C, \h0002, "NullableVendorId", {"read"})}

-----------------------------------------------------------------------------
(* Elements.                                                               *)

Element(tag, type, number) == [tag |-> tag, type |-> type, v |-> number, kids |-> <<>>]

Container(tag, type, children) ==
    [tag |-> tag, type |-> type, v |-> <<0, 0>>, kids |-> children]

Null == Element(Anonymous, "null", <<0, 0>>)

\* The standard clusters and those of a manufacturer code.
ValidCluster(c) ==
    \/ c[1] = 0 /\ c[2] \in 0..\h7FFF
    \/ c[1] \in 1..\hFFF4 /\ c[2] \in \hFC00..\hFFFE

\* A 16-bit number in a range.
Within(v, low, high) == v[1] = 0 /\ v[2] \in low..high

\* ContextField: the only child with the tag, of a structure of context tags.
Fields(s, id) == {k \in DOMAIN s.kids : s.kids[k].tag = id}

HasField(s, id) ==
    /\ \A k \in DOMAIN s.kids : s.kids[k].tag # Anonymous
    /\ \E k \in DOMAIN s.kids : Fields(s, id) = {k}

Field(s, id) == s.kids[CHOOSE k \in Fields(s, id) : TRUE]

NullableTargetField(t, id, type) ==
    /\ HasField(t, id)
    /\ Field(t, id).type \in {"null", type}

\* A target names a cluster, an endpoint or a device type, and not both of the
\* last two.
ValidTarget(t) ==
    /\ t.tag = Anonymous /\ t.type = "structure" /\ Len(t.kids) = 3
    /\ NullableTargetField(t, 0, "u32")
    /\ NullableTargetField(t, 1, "u16")
    /\ NullableTargetField(t, 2, "u32")
    /\ Field(t, 0).type = "u32" => ValidCluster(Field(t, 0).v)
    /\ Field(t, 1).type = "u16" => Within(Field(t, 1).v, 0, \hFFFE)
    /\ \E id \in 0..2 : Field(t, id).type # "null"
    /\ Field(t, 1).type = "null" \/ Field(t, 2).type = "null"

Subject(s) == s.tag = Anonymous /\ s.type = "u64"

ValidSubjects(s) ==
    s.type = "null" \/ (s.type = "array" /\ Len(s.kids) <= 64 /\ \A k \in DOMAIN s.kids : Subject(s.kids[k]))

ValidTargets(t) ==
    t.type = "null" \/ (t.type = "array" /\ Len(t.kids) <= 64 /\ \A k \in DOMAIN t.kids : ValidTarget(t.kids[k]))

\* The fabric index (tag 254) is reported and never written.  An optional field
\* that occurs twice is looked up as absent.
ValidEntry(e, op) ==
    /\ e.tag = Anonymous /\ e.type = "structure" /\ Len(e.kids) \in 4..6
    /\ \A k \in DOMAIN e.kids : e.kids[k].tag \in {1, 2, 3, 4, 5, 254}
    /\ \A id \in 1..4 : HasField(e, id)
    /\ Field(e, 1).type = "u8" /\ Within(Field(e, 1).v, 1, 5)
    /\ Field(e, 2).type = "u8" /\ Within(Field(e, 2).v, 2, 3)
    /\ ValidSubjects(Field(e, 3)) /\ ValidTargets(Field(e, 4))
    /\ HasField(e, 5) => Field(e, 5).type = "u8" /\ Within(Field(e, 5).v, 0, 1)
    /\ HasField(e, 254) =>
         op = "read" /\ Field(e, 254).type = "u8" /\ Within(Field(e, 254).v, 1, 254)

ValidAccessControlList(e, op) ==
    /\ e.type = "array" /\ Len(e.kids) <= 64
    /\ \A k \in DOMAIN e.kids : ValidEntry(e.kids[k], op)

\* An array of at most 1023 entries.
List(e) == e.type = "array" /\ Len(e.kids) <= 1023

DeviceTypeEntry(e) ==
    /\ e.tag = Anonymous /\ e.type = "structure" /\ Len(e.kids) = 2
    /\ e.kids[1].tag = 0 /\ e.kids[1].type = "u32"
    /\ e.kids[2].tag = 1 /\ e.kids[2].type = "u16"

\* The element of each schema.
Fits(schema, op, e) ==
    CASE schema = "NullableI16" -> e.type \in {"null", "i16"}
      [] schema = "I16" -> e.type = "i16"
      [] schema = "U8" -> e.type = "u8"
      [] schema = "Boolean" -> e.type = "boolean"
      [] schema = "EmptyStructure" -> e.type = "structure" /\ e.kids = <<>>
      [] schema = "DeviceTypeList" -> List(e) /\ \A k \in DOMAIN e.kids : DeviceTypeEntry(e.kids[k])
      [] schema = "ClusterList" ->
           List(e) /\ \A k \in DOMAIN e.kids :
             e.kids[k].tag = Anonymous /\ e.kids[k].type = "u32" /\ ValidCluster(e.kids[k].v)
      [] schema = "PartsList" ->
           List(e) /\ \A k \in DOMAIN e.kids :
             e.kids[k].tag = Anonymous /\ e.kids[k].type = "u16" /\ Within(e.kids[k].v, 0, \hFFFE)
      [] schema = "ReachableEvent" ->
           e.type = "structure" /\ Len(e.kids) = 1 /\ e.kids[1].tag = 0 /\ e.kids[1].type = "boolean"
      [] schema = "WindowStatus" -> e.type = "u8" /\ Within(e.v, 0, 2)
      [] schema = "NullableFabricIndex" ->
           e.type = "null" \/ (e.type = "u8" /\ Within(e.v, 1, 254))
      [] schema = "NullableVendorId" ->
           e.type = "null" \/ (e.type = "u16" /\ Within(e.v, 1, \hFFFE))
      [] schema = "AccessControlList" -> ValidAccessControlList(e, op)

\* validate_element returns None.
ValidElement(kind, cluster, member, op, e) ==
    \E d \in Descriptors :
        /\ d.kind = kind /\ d.cluster = cluster /\ d.member = member
        /\ op \in d.ops
        /\ e.tag = Anonymous
        /\ Fits(d.schema, op, e)

-----------------------------------------------------------------------------
(* convert: a value the SDK decoded, [kind, v] or [kind, list], becomes an  *)
(* element; <<>> when it does not fit the schema.                           *)

Number(type, v) == <<Element(Anonymous, type, v)>>

Listed(value, type) ==
    <<Container(Anonymous, "array", [k \in DOMAIN value.list |-> Element(Anonymous, type, value.list[k])])>>

\* A device type is an identifier; its revision is any 16-bit number.
DeviceTypes(value) ==
    <<Container(Anonymous, "array",
        [k \in DOMAIN value.list |->
            Container(Anonymous, "structure",
                <<Element(0, "u32", value.list[k]), Element(1, "u16", <<0, 1>>)>>)])>>

Convert(schema, value) ==
    CASE value.kind = "null" /\ schema \in {"NullableI16", "NullableFabricIndex", "NullableVendorId"} -> <<Null>>
      [] value.kind = "signed" /\ schema \in {"NullableI16", "I16"} /\ Within(value.v, -\h8000, \h7FFF) ->
           Number("i16", value.v)
      [] value.kind = "unsigned" /\ schema = "U8" /\ Within(value.v, 0, \hFF) -> Number("u8", value.v)
      [] value.kind = "unsigned" /\ schema = "WindowStatus" /\ Within(value.v, 0, 2) -> Number("u8", value.v)
      [] value.kind = "unsigned" /\ schema = "NullableFabricIndex" /\ Within(value.v, 1, 254) -> Number("u8", value.v)
      [] value.kind = "unsigned" /\ schema = "NullableVendorId" /\ Within(value.v, 1, \hFFFE) -> Number("u16", value.v)
      [] value.kind = "boolean" /\ schema = "Boolean" -> Number("boolean", value.v)
      [] value.kind = "empty" /\ schema = "EmptyStructure" -> <<Container(Anonymous, "structure", <<>>)>>
      [] value.kind = "device types" /\ schema = "DeviceTypeList" /\ Len(value.list) <= 1023 -> DeviceTypes(value)
      [] value.kind = "identifiers" /\ schema = "ClusterList" /\ Len(value.list) <= 1023
           /\ (\A k \in DOMAIN value.list : ValidCluster(value.list[k])) -> Listed(value, "u32")
      [] value.kind = "identifiers" /\ schema = "PartsList" /\ Len(value.list) <= 1023
           /\ (\A k \in DOMAIN value.list : Within(value.list[k], 0, \hFFFE)) -> Listed(value, "u16")
      [] value.kind = "reachable" /\ schema = "ReachableEvent" ->
           <<Container(Anonymous, "structure", <<Element(0, "boolean", value.v)>>)>>
      [] schema = "AccessControlList" -> <<>>
      [] OTHER -> <<>>

\* convert_value.
ConvertValue(d, op, value) == IF op \in d.ops THEN Convert(d.schema, value) ELSE <<>>

-----------------------------------------------------------------------------
(* What the SDK reads and writes (controller.cpp).  The wire keeps whether  *)
(* a number is signed and not how wide it is.                               *)

AccessControl == <<<<0, \h001F>>, <<0, \h0000>>>>

\* The decoder DecodeAttribute picks for an attribute, as the kinds of native
\* value it yields: by the attribute's type for DecodeScalar, null too for the
\* nullable ones.  An attribute that is not listed is not supported.
AttributeKinds(cluster, member) ==
    LET at == <<cluster[2], member[2]>>
    IN CASE at \in {<<\h0201, \h0000>>, <<\h0402, \h0000>>} -> {"null", "signed"}
         [] at \in {<<\h0201, \h0011>>, <<\h0201, \h0012>>} -> {"signed"}
         [] at \in {<<\h0201, \h001C>>, <<\h003C, \h0000>>} -> {"unsigned"}
         [] at \in {<<\h0006, \h0000>>, <<\h0039, \h0011>>} -> {"boolean"}
         [] at = <<\h001D, \h0000>> -> {"device types"}
         [] at \in {<<\h001D, \h0001>>, <<\h001D, \h0002>>, <<\h001D, \h0003>>} -> {"identifiers"}
         [] at \in {<<\h003C, \h0001>>, <<\h003C, \h0002>>} -> {"null", "unsigned"}
         [] OTHER -> {}

\* DecodeEvent knows one event.
EventKinds(cluster, member) ==
    IF cluster = <<0, \h0039>> /\ member = <<0, \h0003>> THEN {"reachable"} ELSE {}

\* EncodeElement, read again by DecodeRawElement: every unsigned number comes
\* back as the widest.  A list of access control is five elements deep (list,
\* entry, field, target, target's field); the code bounds the depth by 8.
Unwidened(e) == [e EXCEPT !.type = IF @ \in {"u8", "u16", "u32"} THEN "u64" ELSE @]

OfKids(e, Op(_)) == [e EXCEPT !.kids = [k \in DOMAIN @ |-> Op(@[k])]]

RawTarget(e) == OfKids(Unwidened(e), Unwidened)
RawField(e) == OfKids(Unwidened(e), RawTarget)
RawEntry(e) == OfKids(Unwidened(e), RawField)
DecodeRawElement(e) == OfKids(Unwidened(e), RawEntry)

\* NormalizeAccessControl gives the unsigned fields the width of their tag; <<>>
\* when the list has another shape or is not valid then.
Context(s) == \A k \in DOMAIN s.kids : s.kids[k].tag # Anonymous

NormalTargetField(g) ==
    [g EXCEPT !.type = IF @ # "u64" THEN @ ELSE IF g.tag = 1 THEN "u16" ELSE "u32"]

NormalTarget(t) == OfKids(t, NormalTargetField)

\* Mutant: the fabric index a peer adds to an entry keeps the width of the wire.
NormalFieldOfWrites(g) ==
    IF g.type = "u64" /\ g.tag \in {1, 2, 5} THEN [g EXCEPT !.type = "u8"]
    ELSE IF g.tag = 4 /\ g.type = "array" THEN OfKids(g, NormalTarget)
    ELSE g

NormalField(g) ==
    IF g.type = "u64" /\ g.tag \in {1, 2, 5, 254} THEN [g EXCEPT !.type = "u8"]
    ELSE IF g.tag = 4 /\ g.type = "array" THEN OfKids(g, NormalTarget)
    ELSE g

NormalEntry(e) == OfKids(e, NormalField)

Structures(s) == \A k \in DOMAIN s.kids : s.kids[k].tag = Anonymous /\ s.kids[k].type = "structure"

NormalizeAccessControl(e) ==
    IF /\ e.tag = Anonymous /\ e.type = "array" /\ Len(e.kids) <= 64
       /\ Structures(e)
       /\ \A k \in DOMAIN e.kids :
            /\ Context(e.kids[k])
            /\ \A g \in DOMAIN e.kids[k].kids :
                 LET field == e.kids[k].kids[g]
                 IN field.tag = 4 /\ field.type = "array" =>
                      Structures(field) /\ \A t \in DOMAIN field.kids : Context(field.kids[t])
       /\ ValidElement("attribute", AccessControl[1], AccessControl[2], "read", OfKids(e, NormalEntry))
    THEN <<OfKids(e, NormalEntry)>>
    ELSE <<>>

\* EncodeWriteValue: what goes on the wire, as the SDK's own decoder returns it
\* (a number), or as an element; <<>> for an attribute it does not know.  What the
\* SDK makes of an enumerator of SystemMode it does not know is left out.
EncodeWriteValue(cluster, member, e) ==
    LET native(kind) == <<[kind |-> kind, v |-> e.v, list |-> <<>>]>>
    IN CASE cluster = <<0, \h0201>> /\ member \in {<<0, \h0011>>, <<0, \h0012>>} -> native("signed")
         [] cluster = <<0, \h0201>> /\ member = <<0, \h001C>> -> native("unsigned")
         [] <<cluster, member>> = AccessControl /\ ValidElement("attribute", cluster, member, "write", e) ->
              <<DecodeRawElement(e)>>
         [] OTHER -> <<>>

\* DecodeAttribute of a value of an attribute the table describes.
DecodeAttribute(d, value) ==
    IF <<d.cluster, d.member>> = AccessControl THEN NormalizeAccessControl(value)
    ELSE IF value.kind \in AttributeKinds(d.cluster, d.member) THEN ConvertValue(d, "read", value)
    ELSE <<>>

-----------------------------------------------------------------------------
(* Values at the boundaries.                                               *)

Edges == {<<0, n>> : n \in {-\h8001, -\h8000, 0, 1, 2, 3, 254, 255, 256, \h7FFF, \h8000, \hFC00, \hFFFE, \hFFFF}}
         \union {<<1, n>> : n \in {0, \hFBFF, \hFC00, \hFFFE, \hFFFF}} \union {<<\hFFF4, \hFFFE>>, <<\hFFF5, \hFC00>>}

Unsigned32 == {e \in Edges : e[2] >= 0}

NativeValues ==
    [kind : {"null", "empty"}, v : {<<0, 0>>}, list : {<<>>}]
    \union [kind : {"signed"}, v : {e \in Edges : e[1] = 0}, list : {<<>>}]
    \union [kind : {"unsigned"}, v : Unsigned32, list : {<<>>}]
    \union [kind : {"boolean", "reachable"}, v : {<<0, 0>>, <<0, 1>>}, list : {<<>>}]
    \union [kind : {"identifiers", "device types"}, v : {<<0, 0>>}, list : {<<>>} \union {<<e>> : e \in Unsigned32} \union {<<<<0, 6>>, e>> : e \in Unsigned32}]

\* Lists of one entry: its five or six fields, subjects and targets at their bounds.
Nullable(tag, type, numbers) == {Element(tag, "null", <<0, 0>>)} \union {Element(tag, type, v) : v \in numbers}

AclTargets ==
    {Container(Anonymous, "structure", <<c, n, t>>) :
        c \in Nullable(0, "u32", Unsigned32), n \in Nullable(1, "u16", {<<0, \hFFFE>>, <<0, \hFFFF>>}),
        t \in Nullable(2, "u32", {<<1, 0>>})}

AclTargetLists == Nullable(4, "u8", {}) \union {Container(4, "array", <<t>>) : t \in AclTargets}

AclSubjectLists == Nullable(3, "u8", {}) \union {Container(3, "array", <<s>>) : s \in Nullable(Anonymous, "u64", {<<1, 0>>})}

AclEntries ==
    {Container(Anonymous, "structure", <<Element(1, "u8", <<0, p>>), Element(2, "u8", <<0, a>>), s, t>> \o rest) :
        p \in {0, 1, 5, 6}, a \in {1, 2, 3, 4}, s \in AclSubjectLists, t \in AclTargetLists,
        rest \in {<<>>} \union {<<Element(5, "u8", <<0, n>>)>> : n \in {1, 2}}
                 \union {<<Element(254, "u8", <<0, n>>)>> : n \in {0, 1, 254, 255}}}

AccessControlLists == {Container(Anonymous, "array", <<>>)} \union {Container(Anonymous, "array", <<e>>) : e \in AclEntries}
=============================================================================
