----------------------------- MODULE Extensions -----------------------------
(***************************************************************************)
(* Application extensions: semantic versions, what a consumer supports,    *)
(* the negotiation both ends run (application-spec/src/index.ts) and the   *)
(* registry that finds the consumer of an event (client-sdk/src/index.ts). *)
(*                                                                         *)
(* A version is its major number, a rank that orders minor, patch and      *)
(* prerelease under one major, and its build metadata.  The order ignores  *)
(* the build, the comparison of version strings does not.                  *)
(***************************************************************************)
EXTENDS Integers, Sequences, FiniteSets

CONSTANTS
    Uris,       \* extension URIs
    Builds,     \* build metadata, the empty one included
    Consumers   \* ids of consumers

AnyChannel == "any"

\* A support knows its place in the list of its consumer.
Version == [major : Nat, rank : Nat, build : Builds]
Support == [uri : Uris, version : Version, floor : Version, place : Nat]
Selector == [uri : Uris, version : Version]

\* compareSemanticVersions(a, b) <= 0
AtMost(a, b) == a.major < b.major \/ (a.major = b.major /\ a.rank <= b.rank)

\* SupportedApplicationExtensionSchema.  A support without a floor has its
\* own version as the floor (lowerBound).
WellFormed(s) == s.floor.major = s.version.major /\ AtMost(s.floor, s.version)
Exactly(selector) ==
    [uri |-> selector.uri, version |-> selector.version, floor |-> selector.version, place |-> 0]

Older(a, b) == IF AtMost(a, b) THEN a ELSE b

\* negotiateApplicationExtension before the sort: a local and a remote support, and what they
\* agree on.
Meeting(p) == Older(p[1].version, p[2].version)
Candidates(local, remote) ==
    {p \in local \X remote :
        /\ p[1].uri = p[2].uri /\ p[1].version.major = p[2].version.major
        /\ AtMost(p[1].floor, Meeting(p)) /\ AtMost(p[2].floor, Meeting(p))}

\* The newest of them; several may differ in the build, and the stable sort leaves them in the
\* order they were found.
Negotiated(local, remote) ==
    LET all == Candidates(local, remote)
    IN  {p \in all : \A q \in all : AtMost(Meeting(q), Meeting(p))}
Sooner(p, q) == p[1].place < q[1].place \/ (p[1].place = q[1].place /\ p[2].place < q[2].place)

\* The first of them is of that version.
Agreed(local, remote, version) ==
    \E p \in Negotiated(local, remote) :
        /\ Meeting(p) = version
        /\ \A q \in Negotiated(local, remote) : Meeting(q) # version => Sooner(p, q)

-----------------------------------------------------------------------------
\* requireApplicationSupport: may an event of this selector go to who advertises these?
\* Mutant of Supports: the URI is enough.
SupportsUri(advertised, selector) == \E s \in advertised : s.uri = selector.uri

Supports(advertised, selector) ==
    /\ \E s \in advertised : s.uri = selector.uri
    /\ Agreed({Exactly(selector)}, advertised, selector.version)

\* A registration of ApplicationConsumerRegistry: what the consumer supports and
\* the channels it is bound to ({AnyChannel} for '*' and for no binding at all,
\* which only the order of the registrations tells apart).
Registration(Channels) == [consumer : Consumers, supports : SUBSET Support, channels : SUBSET (Channels \cup {AnyChannel})]

\* supportedExtensions: every registration, whatever channel it is bound to.
SupportedExtensions(registry) == UNION {r.supports : r \in registry}

BoundTo(r, channel) == channel \in r.channels \/ AnyChannel \in r.channels

\* resolve: the consumers that would take the event, then the one that is asked:
\* one bound to the channel by name before one bound to any.
Takers(registry, selector, channel) ==
    {r \in registry : BoundTo(r, channel) /\ Agreed(r.supports, {Exactly(selector)}, selector.version)}

Resolved(registry, selector, channel) ==
    LET takers == Takers(registry, selector, channel)
        named  == {r \in takers : channel \in r.channels}
    IN  IF named # {} THEN named ELSE takers
=============================================================================
