------------------------------ MODULE MCStartup ------------------------------
(* Startup with a command line of every kind, and the functions it calls    *)
(* against what the flags are documented to do.                             *)
EXTENDS Startup, ApiFunctions

\* -version, -h and malformed command lines end at once, so they need no variants.
MCFlags ==
  LET flag == [parse : {"fine", "wrong", "help"}, nonempty : BOOLEAN, lists : SUBSET {"countries", "proxies"},
               version : BOOLEAN, base : BOOLEAN, agent : BOOLEAN, ext : BOOLEAN,
               retries : {0, 1, 2}, verbosity : {20, 45, 60}]
      ends(f) == f.parse # "fine" \/ f.version \/ ~f.nonempty
  IN {f \in flag : ends(f) => f.base /\ f.agent /\ f.ext}

URL == [parses : BOOLEAN, scheme : {"", "http", "https", "socks5", "udp", "tcp", "doh", "tls", "ftp"},
        host : {"h"}, port : {-1, 8443}, user : {"none", "login"}, taken : BOOLEAN]

\* One URL for each way through the code.
Plain(scheme) == [parses |-> TRUE, scheme |-> scheme, host |-> "h", port |-> -1, user |-> "none",
                  taken |-> TRUE]
Garbage == [Plain("") EXCEPT !.parses = FALSE]

MCBaseURLs == {Garbage, Plain("ftp"), Plain("http"), Plain("socks5")}
MCResolverLists == {<<>>, <<Plain("doh")>>, <<Plain(""), Plain("tls")>>, <<Plain("tcp"), Garbage>>,
                    <<[Plain("doh") EXCEPT !.taken = FALSE]>>}

\* No answer, an error page, garbage, no version in it, a version.
Answer(status, decodes, version) ==
  [status |-> status, decodes |-> decodes, version |-> version]
MCVersionAnswers == {Answer(0, FALSE, ""), Answer(500, TRUE, "v"), Answer(200, FALSE, ""),
                     Answer(200, TRUE, ""), Answer(200, TRUE, "v")}

Ports == [Direct |-> 1, Hola |-> 2, Peer |-> 3, Trial |-> 4, TrialPeer |-> 5]
Entry(h, ip) == [x \in {h} |-> ip]
MCResponses == {[IPList |-> Entry("z1", "ip1"), Port |-> Ports],
                [IPList |-> [h \in {"z1", "z2"} |-> IF h = "z1" THEN "" ELSE "ip2"], Port |-> Ports]}

NoForce == [text |-> "", number |-> -1]
Number(n) == [text |-> "number", number |-> n]
Name(s) == [text |-> s, number |-> -1]
Forces == {NoForce, Number(24232), Number(MaxPort), Number(MaxPort + 1), Number(0),
           Name("peer"), Name("lum"), Name("skip"), Name("hola")}
Types == DatacenterTypes \cup {"peer", "skip", "hola"}

MCPortFlags == {[typ |-> "direct", trial |-> FALSE, force |-> NoForce],
                [typ |-> "skip", trial |-> TRUE, force |-> Number(24232)],
                [typ |-> "direct", trial |-> TRUE, force |-> Name("hola")]}

\* The port that -proxy-type, -dont-use-trial and -force-port-field ask for, as
\* a table of the names they can use.
PortTable ==
  [name \in DatacenterTypes \cup {"peer", "skip"} |->
     IF name = "skip" THEN <<0, 0>> ELSE IF name = "peer" THEN <<5, 3>> ELSE <<4, 1>>]

WantedPort(typ, trial, force) ==
  LET name == IF force = NoForce THEN typ ELSE force.text IN
    IF force.number >= 0 /\ force.number < 65536 THEN {force.number}
    ELSE {PortTable[n][IF trial THEN 2 ELSE 1] : n \in {name} \cap DOMAIN PortTable}

\* The endpoint has the wanted port and an address of the response, and there
\* is none exactly if the name of the port is unknown or an entry has no
\* address.
ASSUME EndpointAsWanted ==
  \A tunnels \in MCResponses, typ \in Types, trial \in BOOLEAN, force \in Forces :
    LET found == get_endpoint(tunnels, typ, trial, force)
        wanted == WantedPort(typ, trial, force)
        entries == {h \in DOMAIN tunnels.IPList : tunnels.IPList[h] # ""}
    IN /\ found \ {Failed} = [Host : {tunnels.IPList[h] : h \in entries},
                              Port : wanted, TLSName : entries]
       /\ Failed \in found <=> wanted = {} \/ entries # DOMAIN tunnels.IPList

\* Every documented scheme makes a resolver, a bare host one of dns, and a port
\* that is named is kept; unknown schemes and garbage make none, nor does a URL
\* that go-dns refuses.
ASSUME ResolversAsDocumented ==
  \A url \in URL :
    LET made == FromURL(url)
        checked == {"http", "https", "doh", "tls"}  \* by a constructor of go-dns
    IN
      /\ made = {} <=> \/ ~url.parses \/ url.scheme \in {"socks5", "ftp"}
                       \/ (~url.taken /\ url.scheme \in checked)
      /\ \A r \in made : /\ r.host = url.host
                         /\ url.port # -1 => r.port = url.port
                         /\ url.port = -1 => r.port \in {53, 80, 443, 853}
      /\ url.scheme = "" => made = FromURL([url EXCEPT !.scheme = "udp"])

\* A file is unscrambled by undoing what scrambles it: moving its first three
\* bytes to its end.
ASSUME UnscramblesFiles ==
  \A n \in 0 .. 7 :
    LET raw == [k \in 1 .. n |-> k]
        scrambled == SubSeq(raw, 4, n) \o SubSeq(raw, 1, 3)
    IN IF n < 4 THEN Decodable(raw) = {} ELSE Decodable(scrambled) = {raw}

\* A configuration expires with its TTL, as long as the TTL in the smaller unit
\* fits the width of the machine's integers; the smallest TTL that does not is
\* over before it began.
ASSUME ExpiresWithItsTTL ==
  \A updated \in 0 .. 4, ttl \in 0 .. 43, now \in 0 .. 150 :
    LET conf == [updated_ts |-> updated, ttl_ms |-> ttl]
    IN Expired(conf, now) <=> IF ttl = 43 THEN now > 3 * updated - 127
                                  ELSE now > 3 * (updated + ttl)

\* Listings: gb appears exactly beside uk or of itself, and only proxies with
\* the protocol of this program are listed.
ASSUME ListingsAsWanted ==
  /\ \A answer \in {<<>>, <<"us">>, <<"us", "uk">>, <<"uk", "gb", "uk">>} :
       LET listed == VPNCountries(answer)
           has(c) == \E n \in DOMAIN answer : answer[n] = c
       IN /\ \A c \in {"us", "uk"} : c \in listed <=> has(c)
          /\ "gb" \in listed <=> has("gb") \/ has("uk")
  /\ ListedProxies([IPList |-> [h \in {"a", "b", "c"} |-> "ip"],
                        Protocol |-> [h \in {"a", "b"} |-> IF h = "a" THEN "http" ELSE "ssh"]]) = {"a"}
=============================================================================
