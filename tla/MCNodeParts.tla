----------------------------- MODULE MCNodeParts -----------------------------
(* Small instances of the parts of a node beside its relay, and of the     *)
(* wire formats.                                                           *)
EXTENDS NodeConfig, CertificateFiles, NodeService, Wire

CONSTANTS NameA, NameB, RelayAddress, ServerName, OutputFile

(* Two clients, and every command with the options it may have.            *)
Option(f, v) == [flag |-> f, value |-> v]
Line(c, a) == [command |-> c, arguments |-> a]
IssueLine(name, last) ==
  Line("client issue", <<Option("--name", name), Option("--relay", RelayAddress),
                         Option("--server-name", ServerName), last>>)
MCLines == {IssueLine(NameA, Option("--qr", Missing)), IssueLine(NameB, Option("--output", OutputFile)),
            IssueLine(NameA, Option("--output", Missing)),
            Line("init", << >>), Line("setup", << >>),
            Line("client revoke", <<Option("--name", NameA)>>),
            Line("client revoke", <<Option("--id", 2)>>),
            Line("client revoke", <<Option("--id", 1), Option("--name", NameA)>>),
            Line("uninstall", <<Option("--purge", Missing), Option("--yes", Missing)>>),
            Line("uninstall", <<Option("--yes", Missing)>>), Line("uninstall", << >>)}
MCSettings == {[version |-> 1, bind |-> "b", targets |-> <<"t">>, limits |-> <<1, n>>,
                cover |-> Missing] : n \in {0, 1}}
MCSlug == [n \in {NameA, NameB} |-> n]

(* Traffic profiles: one identifier twice, one of another schema.          *)
Traffic(i, e, s) == [schema |-> 1, identifier |-> i, expires |-> e, sizes |-> s]
MCTrafficProfiles == {Traffic("p", 2, <<1, 2>>), Traffic("q", 3, <<1>>), Traffic("r", 4, <<2, 1>>),
                      Traffic("p", 4, <<3>>), [Traffic("s", 4, <<1>>) EXCEPT !.schema = 2]}
CoverOf(mode, assets) == [schema |-> 1, headTimeout |-> 1, upstreamTimeout |-> 1, mode |-> mode,
                          assets |-> assets]
MCCovers == {NoProfile, CoverOf("reverse", << >>), CoverOf("static", <<[path |-> "/", type |-> "t"]>>)}
MCHeads == {[complete |-> TRUE, method |-> "GET", path |-> "/"],
            [complete |-> TRUE, method |-> "HEAD", path |-> "/x"]}

(* Frames of every type, whole and with one byte replaced.                 *)
U64(n) == <<0, 0, 0, 0, 0, 0, 0, n>>
Id(n) == [i \in 1..16 |-> IF i = 16 THEN n ELSE 0]
Proof == [i \in 1..32 |-> 9]
Parameters == <<<<0, 1>>, U64(3), Id(1), Id(2)>>
Typed(t, fields) == [type |-> t, fields |-> fields]
Joined(frames) == FlattenSeq([i \in DOMAIN frames |-> Encode(frames[i])])
Whole ==
  {<<Typed(1, <<<<0, 1>>, <<0, 2>>, U64(1), U64(2), Id(1)>>), Typed(2, Parameters)>>,
   <<Typed(16, <<U64(1)>>), Typed(17, <<U64(1), U64(1), U64(0), <<5>>>>),
     Typed(18, <<U64(1), U64(1), U64(0)>>)>>,
   <<Typed(3, <<Id(3), U64(1), Id(4)>> \o Parameters \o <<Proof>>), Typed(4, <<Id(3), U64(1), Id(4)>>)>>,
   <<Typed(20, <<U64(1), FromU16(5)>>), Typed(32, <<FromU16(300)>>), Typed(200, <<<<1, 2>>>>),
     Typed(19, <<U64(1), U64(1), U64(1)>>)>>}
Tampered(b) == {ReplaceAt(b, i, v) : i \in {1, 2, 3, 4, 12, 14, 15, 36, 40, 44}, v \in {0, 1, 200}}
MCStreams == {Joined(f) : f \in Whole} \cup UNION {Tampered(Joined(f)) : f \in {g \in Whole : Len(g) > 2}}

(* Helper requests: good bodies, an unknown one, empty and too long ones.  *)
MCBodies == (<<1, 2, 3>> :> 1) @@ (<<4>> :> 1) @@ (<<5>> :> 2)
Requests(bodies) == FlattenSeq([i \in DOMAIN bodies |-> EncodeRequest(bodies[i])])
MCHelperStreams == {Requests(<<<<1, 2, 3>>, <<4>>, <<1, 2, 3>>>>), Requests(<<<<4>>, <<5>>, <<4>>>>),
                    Requests(<<<<4>>, << >>>>), Requests(<<<<4>>, <<1, 2, 3, 4, 5>>>>)}

(* Records at their limits; addresses as text; offers that do and do not   *)
(* overlap.                                                                *)
Datagram(dir, c, s, f, p) ==
  [direction |-> dir, credential |-> c, session |-> s, family |-> f,
   ip |-> [i \in 1..AddressWidth(f) |-> 1], port |-> <<0, 9>>, payload |-> p]
MCDatagrams == {Datagram(1, <<1, 2>>, U64(1), 6, <<3, 3>>), Datagram(1, <<1>>, U64(1), 4, << >>),
                Datagram(2, << >>, U64(2), 6, <<3, 3>>), Datagram(1, << >>, U64(1), 4, <<1>>)}
MCText == (1 :> <<50, 51>>) @@ (2 :> <<52>>)
MCTexts == (<<50, 51>> :> 1) @@ (<<50>> :> 1) @@ (<<52>> :> 2)
MCOpens == {[secret |-> <<1, 2>>, target |-> 1], [secret |-> <<1>>, target |-> 2]}
Range2(a, b) == [minimum |-> a, maximum |-> b]
MCClientOffers == [versions : {Range2(1, 2), Range2(2, 3), Range2(3, 1)},
                   required : {{0}, {0, 1}, {1}, {0, 9}}, optional : {{}, {1}, {9}}, nonce : {1}]
MCServerOffers == [versions : {Range2(1, 1), Range2(2, 4), Range2(3, 4)}, capabilities : {{0}, {0, 1}}]
=============================================================================
