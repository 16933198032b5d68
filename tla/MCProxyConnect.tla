--------------------------- MODULE MCProxyConnect ---------------------------
(* The proxy and two CONNECT requests, one of them with a header field.    *)
EXTENDS ProxyAdapter

MCBits == [f \in {4, 6} |-> 4]
Address(b) == [family |-> 4, bits |-> b]
Connect(b, headers) ==
  [kind |-> "connect", ok |-> TRUE, headers |-> headers,
   target |-> [form |-> "literal", host |-> [labels |-> <<"l">>, upper |-> FALSE, dotted |-> FALSE],
               ip |-> Address(b), port |-> 1]]
MCProxyRequests == {Connect(1, << >>), Connect(1, <<[name |-> "host", tokens |-> {}]>>)}
MCProxyPolicy == <<[kind |-> "MATCH", value |-> None, action |-> "PROXY"]>>
MCResolutions == << >>

Spec == ProxyInit /\ [][ProxyNext]_proxyVars
=============================================================================
