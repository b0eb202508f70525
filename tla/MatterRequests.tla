--------------------------- MODULE MatterRequests ---------------------------
(***************************************************************************)
(* The parameters of a request to the Matter controller process: what      *)
(* protocol.cpp parses, and what interaction.cpp, subscription.cpp and     *)
(* commissioning.cpp then require of the request it made of them.  A       *)
(* request that is refused is answered and changes nothing.                *)
(*                                                                         *)
(* A JSON number that is not unsigned, and any other JSON type where a     *)
(* number belongs, is NotUnsigned; the text "any" is Wildcard; an     *)
(* absent optional key is Absent.  Node identifiers are scaled: MaxNode    *)
(* stands for 0xFFFFFFEFFFFFFFFF and MaxNode + 1 for what lies beyond.     *)
(***************************************************************************)
EXTENDS MatterValue, FiniteSets

NotUnsigned == -2
Wildcard == -3
Absent == -4

MaxNode == 2

\* The 32-bit halves of a number that is not one, and of a wildcard.
Wide(n) == <<n, 0>>

Unsigned(v, maximum) == v \in 0..maximum

\* PathComponent, for 16-bit endpoints and 32-bit clusters and members.
EndpointComponent(v) == v = Wildcard \/ Unsigned(v, \hFFFE)

WideComponent(v) == v = Wide(Wildcard) \/ (v[1] >= 0 /\ v # <<\hFFFF, \hFFFF>>)

Concrete(s) == s.endpoint # Wildcard /\ s.cluster # Wide(Wildcard) /\ s.member # Wide(Wildcard)

\* Selector; "exact" says that the object has its five keys and no other.
Selector(s, wildcards) ==
    /\ s.exact
    /\ s.fabric \in 1..2 /\ Unsigned(s.node, MaxNode) /\ s.node > 0
    /\ EndpointComponent(s.endpoint) /\ WideComponent(s.cluster) /\ WideComponent(s.member)
    /\ wildcards \/ Concrete(s)
    /\ s.cluster # Wide(Wildcard) => ValidCluster(s.cluster)

\* ElementValue: bounded in nodes and depth, every tag and type known, numbers
\* as wide as their type.  A JSON value is an element with its nodes and depth.
Widths(type) ==
    CASE type = "u8" -> <<0, \hFF>> [] type \in {"u16", "i16"} -> <<0, \hFFFF>> [] OTHER -> <<\hFFFF, \hFFFF>>

Narrow(e) ==
    /\ e.tag \in {Anonymous} \union 0..255
    /\ e.type = "i16" => Within(e.v, -\h8000, \h7FFF)
    /\ e.type \in {"u8", "u16"} => Within(e.v, 0, Widths(e.type)[2])
    /\ e.type \in {"u32", "u64"} => e.v[1] >= 0

ElementValue(j) ==
    /\ j.nodes <= 1024 /\ j.depth <= 8
    /\ j.element.type \in {"null", "i16", "u8", "u16", "u32", "u64", "boolean", "structure", "array"}
    /\ Narrow(j.element)
    /\ Len(j.element.kids) <= 1023
    /\ \A k \in DOMAIN j.element.kids : Narrow(j.element.kids[k])

-----------------------------------------------------------------------------
(* Interactions.                                                           *)

Single == {"read", "write", "invoke"}
Paths == {"read_paths", "read_events"}
Mutations == {"write", "invoke"}

MaxPaths == 64

OptionalUint(v, maximum) == v = Absent \/ Unsigned(v, maximum)

\* valid_interaction_request.
ValidInteraction(r) ==
    /\ r.timeout \in 1..60000
    /\ Len(r.paths) \in 1..MaxPaths
    /\ \A k \in DOMAIN r.paths :
         r.paths[k].fabric = r.paths[1].fabric /\ r.paths[k].node = r.paths[1].node
    /\ r.op \in Mutations <=> r.value # <<>>
    /\ r.expected # Absent => r.op = "write"
    /\ r.timed # Absent => r.op \in Mutations /\ r.timed \in 1..r.timeout
    /\ r.minEvent # Absent => r.op = "read_events"
    /\ r.op \in Mutations =>
         ValidElement(IF r.op = "write" THEN "attribute" ELSE "command",
                      r.paths[1].cluster, r.paths[1].member, r.op, r.value[1].element)

\* InteractionParameters; "extra" is a key the operation does not know.
InteractionParameters(r) ==
    /\ r.op \in Single \union Paths
    /\ IF r.op \in Single THEN Len(r.paths) = 1 ELSE Len(r.paths) \in 1..MaxPaths
    /\ \A k \in DOMAIN r.paths : Selector(r.paths[k], r.op = "read_paths")
    /\ OptionalUint(r.expected, \hFFFF)
    /\ OptionalUint(r.timed, 65535) /\ r.timed # 0
    /\ OptionalUint(r.minEvent, \hFFFF)
    /\ r.op \in Mutations => r.value # <<>> /\ ElementValue(r.value[1])
    /\ ~r.extra
    /\ ValidInteraction(r)

\* Selected: the path of a result is one the selector names.
Selected(s, path) ==
    /\ s.node = path.node /\ s.fabric = path.fabric
    /\ s.endpoint \in {Wildcard, path.endpoint}
    /\ s.cluster \in {Wide(Wildcard), path.cluster} /\ s.member \in {Wide(Wildcard), path.member}

\* ValidPathResult: exactly one of an attribute, an event or an error.
ValidPathResult(r, res) ==
    /\ \E k \in DOMAIN r.paths : Selected(r.paths[k], res.path)
    /\ \/ /\ res.kind = "attribute" /\ r.op # "read_events"
          /\ ValidElement("attribute", res.path.cluster, res.path.member, "read", res.element)
       \/ /\ res.kind = "event" /\ r.op = "read_events"
          /\ ValidElement("event", res.path.cluster, res.path.member, "read", res.element)
       \/ res.kind = "error" /\ res.effect = "none"

\* valid_interaction_response of a read: its results may be empty only for events
\* and for paths that are all wildcards.
ValidReadResponse(r, results) ==
    /\ \/ results # <<>>
       \/ r.op = "read_events"
       \/ r.op = "read_paths" /\ \A k \in DOMAIN r.paths : ~Concrete(r.paths[k])
    /\ \A k \in DOMAIN results : ValidPathResult(r, results[k])

-----------------------------------------------------------------------------
(* Subscriptions.                                                          *)

\* AdmittedRecipe: the members a subscription may name.
AdmittedRecipe(kind, cluster, member) ==
    IF kind = "event" THEN cluster = <<0, \h0039>> /\ member = <<0, 3>>
    ELSE <<cluster, member>> \in {<<<<0, \h0201>>, <<0, 0>>>>, <<<<0, \h0006>>, <<0, 0>>>>,
                                  <<<<0, \h0039>>, <<0, \h0011>>>>, <<<<0, \h0402>>, <<0, 0>>>>}

\* valid_subscription_request: one node, admitted members, no path twice.
ValidSubscription(r) ==
    /\ r.min <= r.max /\ r.timeout \in 1..60000
    /\ \A k \in DOMAIN r.paths :
         /\ r.paths[k].fabric = r.paths[1].fabric /\ r.paths[k].node = r.paths[1].node
         /\ AdmittedRecipe(r.kind, r.paths[k].cluster, r.paths[k].member)
         /\ \A l \in DOMAIN r.paths : l # k =>
              <<r.paths[k].endpoint, r.paths[k].cluster, r.paths[k].member>>
                # <<r.paths[l].endpoint, r.paths[l].cluster, r.paths[l].member>>

\* SubscriptionParameters; "canonical" says that the identity is 32 lower-case
\* hexadecimal digits.
SubscriptionParameters(r) ==
    /\ r.exact /\ r.canonical
    /\ r.kind \in {"attribute", "event"}
    /\ Len(r.paths) \in 1..64
    /\ Unsigned(r.min, 65535) /\ r.max \in 1..65535 /\ r.limit \in 1..10000
    /\ \A k \in DOMAIN r.paths : Selector(r.paths[k], FALSE)
    /\ ValidSubscription(r)

\* valid_subscription_report: what the SDK delivers is of the stream's kind and
\* names one of its paths.
ValidReport(r, res) ==
    /\ res.kind = r.kind
    /\ \E k \in DOMAIN r.paths : Selected(r.paths[k], res.path)

UnsubscribeParameters(r) == r.exact /\ r.canonical /\ r.generation > 0

-----------------------------------------------------------------------------
(* Commissioning.                                                          *)

\* The setup codes the standard forbids.
ValidSetupPin(pin) ==
    /\ pin \in 1..99999998
    /\ pin \notin {12345678, 87654321}
    /\ pin % 11111111 # 0

CommissioningParameters(r) ==
    /\ r.exact
    /\ r.node \in 1..MaxNode /\ ValidSetupPin(r.pin) /\ Unsigned(r.discriminator, 4095)
    /\ r.timeout \in 1..60000

CommissioningWindowParameters(r) ==
    /\ r.exact
    /\ r.node \in 1..MaxNode /\ Unsigned(r.discriminator, 4095)
    /\ r.seconds \in 180..900 /\ r.iterations \in 1000..100000
    /\ r.timeout \in 1..60000

\* OpenOptions: a new store comes with a new root, an existing one with its own.
OpenOptions(r) ==
    /\ r.exact /\ r.lifecycle = "persistent"
    /\ <<r.mode, r.authority>> \in {<<"create_new", "generate_root">>, <<"open_existing", "stored">>}
    /\ r.vendor \in 1..(\hFFFF - 1) /\ r.fabric > 0 /\ r.node \in 1..MaxNode
    /\ r.absolute

-----------------------------------------------------------------------------
(* Requests at the boundaries: a good one, and each way one key goes wrong. *)

Path(cluster, member) ==
    [exact |-> TRUE, fabric |-> 1, node |-> 1, endpoint |-> 1,
     cluster |-> <<0, cluster>>, member |-> <<0, member>>]

OddPaths(p) ==
    {[p EXCEPT !.exact = FALSE]}
    \union {[p EXCEPT !.node = x] : x \in {NotUnsigned, 0, MaxNode, MaxNode + 1}}
    \union {[p EXCEPT !.endpoint = x] : x \in {NotUnsigned, Wildcard, \hFFFE, \hFFFF}}
    \union {[p EXCEPT !.cluster = x] : x \in {Wide(Wildcard), Wide(NotUnsigned)} \union Unsigned32}
    \union {[p EXCEPT !.member = x] : x \in {Wide(Wildcard), Wide(NotUnsigned), <<\hFFFF, \hFFFF>>}}

KnownPaths == {[Path(0, 0) EXCEPT !.cluster = d.cluster, !.member = d.member] : d \in Descriptors}

SomePaths == KnownPaths \union OddPaths(Path(6, 0))

Interaction(op, paths) ==
    [op |-> op, paths |-> paths, timeout |-> 1000, expected |-> Absent, timed |-> Absent,
     minEvent |-> Absent, value |-> <<>>, extra |-> FALSE]

Reads ==
    {Interaction(op, <<p>>) : op \in Paths \union {"read"}, p \in SomePaths}
    \union {[Interaction("read_events", <<Path(57, 3)>>) EXCEPT !.minEvent = x] : x \in {0, NotUnsigned}}

\* Elements of every schema, the ones a conversion gives and the ones it does not.
Body(e) == [nodes |-> 1 + Len(e.kids), depth |-> IF e.kids = <<>> THEN 0 ELSE 1, element |-> e]

Bodies == {<<Body(e)>> : e \in {Element(Anonymous, t, v) : t \in {"i16", "u8", "u16"}, v \in Unsigned32}
                               \union {Null, Container(Anonymous, "structure", <<>>)}}

Writes ==
    {[Interaction(op, <<p>>) EXCEPT !.value = b, !.timed = t] :
        op \in Mutations, p \in KnownPaths, b \in Bodies \union {<<>>}, t \in {Absent, 0, 1000, 1001}}

Subscribe(kind, paths) ==
    [exact |-> TRUE, canonical |-> TRUE, kind |-> kind, paths |-> paths, min |-> 0, max |-> 1, limit |-> 1,
     timeout |-> 1000]

Subscribes ==
    {Subscribe(kind, <<p>>) : kind \in {"attribute", "event"}, p \in SomePaths}
    \union {Subscribe("attribute", <<p, q>>) : p, q \in KnownPaths}
    \union {[Subscribe("attribute", <<Path(6, 0)>>) EXCEPT !.min = 2]}

Unsubscribe == [exact |-> TRUE, canonical |-> TRUE, generation |-> 1]

Commission == [exact |-> TRUE, node |-> 1, pin |-> 20202021, discriminator |-> 3840, timeout |-> 60000]

Window ==
    [exact |-> TRUE, node |-> 1, discriminator |-> 3840, seconds |-> 180, iterations |-> 1000, timeout |-> 60000]

OpenRequest ==
    [exact |-> TRUE, lifecycle |-> "persistent", mode |-> "create_new", authority |-> "generate_root",
     vendor |-> 1, fabric |-> 1, node |-> 1, absolute |-> TRUE]

-----------------------------------------------------------------------------
\* A conversion for an operation gives an element the validation accepts for it.
Decoded(d, op, value) ==
    Convert(d.schema, value) = <<>> \/ op \notin d.ops
    \/ ValidElement(d.kind, d.cluster, d.member, op, ConvertValue(d, op, value)[1])

Result(p, d, e) ==
    [kind |-> d.kind, effect |-> "none", element |-> e,
     path |-> [p EXCEPT !.endpoint = IF @ = Wildcard THEN 1 ELSE @, !.cluster = d.cluster, !.member = d.member]]

\* What the SDK decoded for a path of the request is a valid response to it.
AnswerAccepted(r, d, value) ==
    LET e == ConvertValue(d, "read", value) IN
    (e # <<>> /\ d.kind = (IF r.op = "read_events" THEN "event" ELSE "attribute")
       /\ Selected(r.paths[1], Result(r.paths[1], d, <<>>).path))
    => ValidReadResponse(r, <<Result(r.paths[1], d, e[1])>>)

\* The kinds of native value that some value of the member's schema is made of
\* are those its decoder yields; a list of access control has a decoder of its own.
DecoderFits(d) ==
    LET converted == {value.kind : value \in {n \in NativeValues : Convert(d.schema, n) # <<>>}}
    IN "read" \in d.ops =>
         CASE <<d.cluster, d.member>> = AccessControl -> converted = {}
           [] d.kind = "event" -> converted = EventKinds(d.cluster, d.member)
           [] OTHER -> converted = AttributeKinds(d.cluster, d.member)

\* What is written to the attribute goes on the wire, and read again it is the
\* element that was written.
ReadsBack(d, e) ==
    LET wire == EncodeWriteValue(d.cluster, d.member, e)
    IN wire # <<>> /\ DecodeAttribute(d, wire[1]) = <<e>>

\* An attribute value the parser lets through to a write is one a read returns.
ReadableOnceWritten(r) ==
    r.op = "write" =>
        \E d \in Descriptors :
            /\ d.kind = "attribute" /\ d.cluster = r.paths[1].cluster /\ d.member = r.paths[1].member
            /\ ReadsBack(d, r.value[1].element)

\* A list of access control, with the fabric index a peer adds or without: one
\* that may be reported is reported as it is, and one that may be written reads
\* back as it was written.
ListsReadBack ==
    \A d \in {x \in Descriptors : <<x.cluster, x.member>> = AccessControl}, e \in AccessControlLists :
        /\ Fits(d.schema, "read", e) => DecodeAttribute(d, DecodeRawElement(e)) = <<e>>
        /\ Fits(d.schema, "write", e) => ReadsBack(d, e)

\* A subscription is admitted only to members whose reports the host accepts.
ReportsAccepted(r) ==
    \A k \in DOMAIN r.paths :
        \E d \in Descriptors :
            /\ d.kind = r.kind /\ d.cluster = r.paths[k].cluster /\ d.member = r.paths[k].member
            /\ {"read", "subscribe"} \subseteq d.ops
            /\ ValidReport(r, Result(r.paths[k], d, Null))
=============================================================================
