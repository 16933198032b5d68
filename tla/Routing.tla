------------------------------ MODULE Routing -------------------------------
(***************************************************************************)
(* The routing policy of velum-client-routing: an ordered list of rules,   *)
(* the first one that matches decides.                                     *)
(*                                                                         *)
(* A written name is its labels with the letter case and the trailing dots *)
(* it was written with; a normalised one is the sequence of its labels.    *)
(* An address is its family and its bits, AddressBits[family] of them.     *)
(***************************************************************************)
EXTENDS Naturals, Sequences, SequencesExt

CONSTANTS
  None,
  AddressBits,      \* the width of each family's addresses: 32 and 128 in the code
  BadLabels         \* labels that are empty, too long, or not letters, digits and inner hyphens

Families == DOMAIN AddressBits

(* normalize_domain: trailing dots and letter case go, an empty name or a  *)
(* bad label makes the name invalid (None).                                *)
NormalizeDomain(name) ==
  IF name.labels = << >> \/ \E i \in DOMAIN name.labels : name.labels[i] \in BadLabels
  THEN None ELSE name.labels

Cidr(network, prefix) == [network |-> network, prefix |-> prefix]

(* Mutant: the shift is taken modulo the width.                            *)
MaskShiftWraps(cidr, address) ==
  LET width == AddressBits[address.family]
      low   == 2 ^ ((width - cidr.prefix) % width)
  IN [address EXCEPT !.bits = (@ \div low) * low]

(* IpCidr::mask: a prefix of 0 shifts the whole width out and masks all.   *)
Mask(cidr, address) ==
  LET width == AddressBits[address.family]
      low   == 2 ^ (width - (IF cidr.prefix < width THEN cidr.prefix ELSE width))
  IN [address EXCEPT !.bits = (@ \div low) * low]

ValidCidr(cidr) ==
  /\ cidr.prefix <= AddressBits[cidr.network.family]
  /\ Mask(cidr, cidr.network) = cidr.network

CidrContains(cidr, address) ==
  /\ cidr.network.family = address.family
  /\ Mask(cidr, address) = cidr.network

ValidPorts(range) == range.start # 0 /\ range.start <= range.end
PortsContain(range, port) == range.start <= port /\ port <= range.end

(* RuleMatcher::matches. The suffix of a name is cut at a label boundary.  *)
Matches(matcher, domain, destination) ==
  CASE matcher.kind = "DOMAIN"        -> domain = matcher.value
    [] matcher.kind = "DOMAIN-SUFFIX" -> domain # None /\ IsSuffix(matcher.value, domain)
    [] matcher.kind = "IP-CIDR"       -> CidrContains(matcher.value, destination.ip)
    [] matcher.kind = "DST-PORT"      -> PortsContain(matcher.value, destination.port)
    [] matcher.kind = "MATCH"         -> TRUE

(* RoutingRule::from_str and the constructors it calls: what a rule's      *)
(* fields must satisfy. A name that does not normalise is no rule.         *)
ValidRule(rule) ==
  CASE rule.kind \in {"DOMAIN", "DOMAIN-SUFFIX"} -> rule.value # None
    [] rule.kind = "IP-CIDR"                     -> ValidCidr(rule.value)
    [] rule.kind = "DST-PORT"                    -> ValidPorts(rule.value)
    [] rule.kind = "MATCH"                       -> TRUE

(* RoutingPolicy::from_str and new: every line parses, MATCH only last.    *)
ValidPolicy(rules) ==
  /\ \A i \in DOMAIN rules : ValidRule(rules[i])
  /\ \A i \in DOMAIN rules : rules[i].kind = "MATCH" => i = Len(rules)

(* RoutingPolicy::decide. `domain` is what the flow is known by, or None.  *)
Decide(rules, name, destination) ==
  LET domain   == IF name = None THEN None ELSE NormalizeDomain(name)
      matching == SelectInSeq(rules, LAMBDA r : Matches(r, domain, destination))
  IN IF matching = 0 THEN "PROXY" ELSE rules[matching].action
=============================================================================
