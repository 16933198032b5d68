----------------------------- MODULE TunPolicy ------------------------------
(***************************************************************************)
(* TunPolicyEngine: the fake-IP table of velum-adapter-tun (fake_dns.rs)   *)
(* in front of the routing policy. A name asked for gets a fake address; a *)
(* flow to that address is routed by the name and its real address.        *)
(*                                                                         *)
(* A mapping's expiry is kept as the time it has left.                     *)
(***************************************************************************)
EXTENDS Routing, Filters, FiniteSets, Functions, FiniteSetsExt

CONSTANTS
  Generations,      \* profile generations
  DnsCapacity,      \* FakeDnsTable.capacity
  FakeFirst,        \* the first fake address of each family: 198.18.0.1 and fd00:19::1
  FakeLast,         \* the last one of IPv4 (198.19.255.254); of IPv6, a bound
  Questions,        \* [name, real]: the names asked for and their real addresses
  Ttls,
  Destinations,     \* [ip, port]: where flows may go
  Policies          \* the policies a profile may bring

(* The types of the Rust code.                                             *)
Address == [family : Families, bits : Nat]
IsName(labels) == labels \in Seq(Range(labels))
IsRule(rule) ==
  /\ rule.kind \in {"DOMAIN", "DOMAIN-SUFFIX", "IP-CIDR", "DST-PORT", "MATCH"}
  /\ rule.kind \in {"DOMAIN", "DOMAIN-SUFFIX"} => IsName(rule.value)
  /\ rule.kind = "IP-CIDR" => rule.value.network \in Address /\ rule.value.prefix \in Nat
  /\ rule.kind = "DST-PORT" => rule.value.start \in Nat /\ rule.value.end \in Nat

ASSUME TunPolicyAssumption ==
  /\ Families = {4, 6}
  /\ DnsCapacity \in Nat \ {0}                              \* FakeDnsTable::new
  /\ FakeFirst \in [Families -> Nat] /\ FakeLast \in [Families -> Nat]
  /\ FakeLast[4] - FakeFirst[4] + 1 >= DnsCapacity
  /\ \A rules \in Policies :
       /\ Len(rules) \in Nat /\ DOMAIN rules = 1 .. Len(rules)
       /\ \A i \in DOMAIN rules : IsRule(rules[i])
       /\ ValidPolicy(rules)
  /\ Ttls \subseteq Nat
  /\ \A q \in Questions : IsName(q.name.labels) /\ q.real \in Address
  /\ \A d \in Destinations : d \in [ip : Address, port : Nat]
  /\ \A f \in Families : AddressBits[f] \in Nat

VARIABLES
  dnsGeneration,
  policy,
  mappings,         \* FakeDnsTable.mappings: fake address -> [domain, real, ttl]
  order,            \* FakeDnsTable.insertion_order
  nextFake,         \* next_ipv4 and next_ipv6
  decision,         \* the last call's TunRouteDecision, with the rules it used
  recent,           \* history: the latest IPv4 fake addresses handed out
  dnsFailed         \* history: an allocation ran out of addresses

dnsVars == <<dnsGeneration, policy, mappings, order, nextFake, decision, recent, dnsFailed>>

FakeSpan == FakeLast[4] - FakeFirst[4] + 1
Latest(fakes) ==
  SubSeq(fakes, Max({1, Len(fakes) - FakeSpan + DnsCapacity}), Len(fakes))

DnsInit ==
  /\ dnsGeneration \in Generations
  /\ policy \in Policies
  /\ mappings = << >>
  /\ order = << >>
  /\ nextFake = FakeFirst
  /\ decision = None
  /\ recent = << >>
  /\ dnsFailed = FALSE

(* fake_dns::normalize_domain only refuses an empty name (or a too long    *)
(* one): it accepts labels that the routing policy does not.               *)
FakeDomain(name) == IF name.labels = << >> THEN None ELSE name.labels

(* remove_expired: both the mappings and their insertion order.            *)
Live == Restrict(mappings, {f \in DOMAIN mappings : mappings[f].ttl > 0})
(* Mutant: remove_expired forgets the insertion order.                     *)
OrderOfStale(kept) == order
OrderOf(kept) == Retained(order, DOMAIN kept)

(* The eviction loop of allocate: the oldest go until there is room.       *)
Evicted(kept, sequence) ==
  LET surplus == Cardinality(DOMAIN kept) - DnsCapacity + 1
  IN IF surplus > 0 THEN {sequence[i] : i \in 1 .. surplus} ELSE {}

(* Mutant: the search starts at the first address every time.              *)
CandidateRestarts(family, k) == [family |-> family, bits |-> FakeFirst[family] + k]

(* next_address tries capacity + 1 candidates: IPv4 ones wrap to the first *)
(* address, IPv6 ones only count up.                                       *)
Candidate(family, k) ==
  LET bits == IF family = 4
              THEN FakeFirst[4] + ((nextFake[4] - FakeFirst[4] + k) % FakeSpan)
              ELSE nextFake[6] + k
  IN [family |-> family, bits |-> bits]
FreeCandidates(family, kept) ==
  {k \in 0 .. DnsCapacity : Candidate(family, k) \notin DOMAIN kept}

Allocate(generation, question, ttl) ==
  LET domain == FakeDomain(question.name)
      family == question.real.family
      same   == {f \in DOMAIN Live :
                   Live[f].domain = domain /\ Live[f].real = question.real}
      gone   == Evicted(Live, OrderOf(Live))
      kept   == Restrict(Live, DOMAIN Live \ gone)
      free   == FreeCandidates(family, kept)
      used   == IF free = {} THEN DnsCapacity ELSE Min(free)
      fake   == Candidate(family, used)
  IN /\ generation = dnsGeneration
     /\ domain # None
     /\ IF same # {}
        THEN /\ mappings' = [f \in DOMAIN Live |-> IF f = CHOOSE x \in same : TRUE
                                                  THEN [Live[f] EXCEPT !.ttl = ttl] ELSE Live[f]]
             /\ order' = OrderOf(Live)
             /\ UNCHANGED <<nextFake, recent, dnsFailed>>
        ELSE /\ nextFake[6] + DnsCapacity < FakeLast[6]
             /\ nextFake' = [nextFake EXCEPT ![family] = Candidate(family, used + 1).bits]
             /\ IF free = {}
                THEN /\ mappings' = kept
                     /\ order' = OrderOf(kept)
                     /\ dnsFailed' = TRUE
                     /\ UNCHANGED recent
                ELSE /\ mappings' = [f \in DOMAIN kept \cup {fake} |->
                                      IF f = fake
                                      THEN [domain |-> domain, real |-> question.real, ttl |-> ttl]
                                      ELSE kept[f]]
                     /\ order' = Append(OrderOf(kept), fake)
                     /\ recent' = IF family = 4 THEN Latest(Append(recent, fake)) ELSE recent
                     /\ UNCHANGED dnsFailed
     /\ decision' = None
     /\ UNCHANGED <<dnsGeneration, policy>>

(* TunPolicyEngine::decide, with the resolve it begins with.               *)
DecideFlow(generation, flow) ==
  LET known       == flow.ip \in DOMAIN Live
      destination == IF known THEN [flow EXCEPT !.ip = Live[flow.ip].real] ELSE flow
      name        == IF known THEN [labels |-> Live[flow.ip].domain, upper |-> FALSE, dotted |-> FALSE]
                     ELSE None
  IN /\ generation = dnsGeneration
     /\ mappings' = Live
     /\ order' = OrderOf(Live)
     /\ decision' = [action |-> Decide(policy, name, destination), rules |-> policy,
                     name |-> name, destination |-> destination]
     /\ UNCHANGED <<dnsGeneration, policy, nextFake, recent, dnsFailed>>

(* The next addresses survive: an old answer is not soon another name.     *)
ReplaceGeneration(generation, rules) ==
  /\ dnsGeneration' = generation
  /\ policy' = rules
  /\ mappings' = << >>
  /\ order' = << >>
  /\ decision' = None
  /\ UNCHANGED <<nextFake, recent, dnsFailed>>

DnsTick ==
  /\ mappings' = [f \in DOMAIN mappings |->
                    [mappings[f] EXCEPT !.ttl = IF @ > 0 THEN @ - 1 ELSE 0]]
  /\ decision' = None
  /\ UNCHANGED <<dnsGeneration, policy, order, nextFake, recent, dnsFailed>>

DnsNext ==
  \/ \E g \in Generations, q \in Questions, ttl \in Ttls : Allocate(g, q, ttl)
  \/ \E g \in Generations, d \in Destinations : DecideFlow(g, d)
  \/ \E g \in Generations, rules \in Policies : ReplaceGeneration(g, rules)
  \/ DnsTick

DnsSpec == DnsInit /\ [][DnsNext]_dnsVars

----------------------------------------------------------------------------
(* The fake-IP table stays sound through expiry, eviction and refresh: the *)
(* insertion order lists every mapped address once and nothing else, so    *)
(* that eviction always finds a victim; the table is within its capacity,  *)
(* holds an identity once however its name was spelled, and never runs out *)
(* of addresses (next_address tries one candidate more than there can be   *)
(* mappings).                                                              *)
DnsTableSound ==
  /\ IsInjective(order) /\ Range(order) = DOMAIN mappings
  /\ Cardinality(DOMAIN mappings) <= DnsCapacity
  /\ \A f, g \in DOMAIN mappings :
       f # g => <<mappings[f].domain, mappings[f].real>> # <<mappings[g].domain, mappings[g].real>>
  /\ ~dnsFailed

(* A client may keep using an address whose mapping was evicted or whose   *)
(* generation was replaced. An IPv4 address is handed out again only after *)
(* all the others but DnsCapacity of them.                                 *)
NoEarlyReuse == IsInjective(recent)

(* A fake address means one name for as long as a client may use it.       *)
FakeAddressesSound == DnsTableSound /\ NoEarlyReuse

(* What the first matching rule means, said without the code's masks,      *)
(* suffix stripping and search: a network is an interval of addresses.     *)
RuleCovers(rule, labels, destination) ==
  CASE rule.kind = "DOMAIN"        -> labels # None /\ labels = rule.value
    [] rule.kind = "DOMAIN-SUFFIX" -> labels # None /\ \E head \in SubSeqs(labels) : labels = head \o rule.value
    [] rule.kind = "IP-CIDR"       ->
         /\ rule.value.network.family = destination.ip.family
         /\ destination.ip.bits \in rule.value.network.bits ..
              (rule.value.network.bits
                 + 2 ^ (AddressBits[destination.ip.family] - rule.value.prefix) - 1)
    [] rule.kind = "DST-PORT"      -> destination.port \in rule.value.start .. rule.value.end
    [] rule.kind = "MATCH"         -> TRUE

(* Every decision on a flow, after its name was restored, is the action of *)
(* the earliest rule that covers the flow, and PROXY when none does.       *)
DecisionsFollowRules ==
  decision # None =>
    LET named   == decision.name # None /\ Range(decision.name.labels) \cap BadLabels = {}
        labels  == IF named THEN decision.name.labels ELSE None
        covered == {i \in DOMAIN decision.rules :
                      RuleCovers(decision.rules[i], labels, decision.destination)}
    IN decision.action = IF covered = {} THEN "PROXY" ELSE decision.rules[Min(covered)].action
=============================================================================
