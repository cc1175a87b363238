-------------------------- MODULE StartupFunctions --------------------------
(***************************************************************************)
(* The pure functions that main calls on its way to serving: the choice of *)
(* the endpoint (get_endpoint), the base proxy of an http or https URL     *)
(* (ProxyDialerFromURL), the resolvers of a list of URLs (FromURL,         *)
(* FastResolverFromURLs) and the versions in the answers of two services   *)
(* of Google (GetChromeVer, GetExtVer).  A URL is what url.Parse makes of  *)
(* it, the last time it is parsed; taken says whether the constructors of  *)
(* go-dns accept it; -1 stands for a number that is not there.             *)
(***************************************************************************)
EXTENDS Naturals, Integers, Sequences

MaxPort == 2 ^ 16 - 1

-----------------------------------------------------------------------------
(* get_endpoint.                                                           *)

\* Every value of -proxy-type and -force-port-field that is told apart.
DatacenterTypes == {"direct", "lum", "pool", "virt"}

Failed == [Host |-> "", Port |-> -1, TLSName |-> ""]

\* The first entry a range over the map meets, whichever that is.
SomeEntry(ip_list) ==
  IF ip_list = <<>> THEN {[host |-> "", ip |-> ""]}
  ELSE {[host |-> h, ip |-> ip_list[h]] : h \in DOMAIN ip_list}

\* strconv.ParseUint(.., 0, 16) of -force-port-field: what its text is as a
\* number, unless that is no number or does not fit.
IsPort(force) == force.number \in 0 .. MaxPort

\* The type the port is looked up by: a forced number skips the lookup, any
\* other forced text takes the place of -proxy-type.
EffectiveType(typ, force) ==
  IF force.text = "" THEN typ
  ELSE IF IsPort(force) THEN "skip" ELSE force.text

IsSupported(type) == type \in DatacenterTypes \cup {"peer", "skip"}

\* The variable trial of the code is the flag -dont-use-trial.
PortOf(port, type, force, trial) ==
  CASE type = "skip" -> IF IsPort(force) THEN force.number ELSE 0
    [] type = "peer" -> IF trial THEN port.Peer ELSE port.TrialPeer
    [] type \in DatacenterTypes -> IF trial THEN port.Direct ELSE port.Trial

\* The endpoints get_endpoint can return, Failed among them.
get_endpoint(tunnels, typ, trial, force) ==
  {IF e.host = "" \/ e.ip = "" \/ ~IsSupported(EffectiveType(typ, force)) THEN Failed
   ELSE [Host |-> e.ip, TLSName |-> e.host,
         Port |-> PortOf(tunnels.Port, EffectiveType(typ, force), force, trial)]
     : e \in SomeEntry(tunnels.IPList)}

-----------------------------------------------------------------------------
(* ProxyDialerFromURL.                                                     *)

PortOr(url, default) == IF url.port = -1 THEN default ELSE url.port

\* What the dialer keeps of the URL, or no dialer at all.  With an empty
\* server name DialContext opens no TLS session.
ProxyDialerFromURL(url) ==
  CASE url.scheme = "http"  -> {[host |-> url.host, port |-> PortOr(url, 80),
                                 tlsServerName |-> "", auth |-> url.user]}
    [] url.scheme = "https" -> {[host |-> url.host, port |-> PortOr(url, 443),
                                 tlsServerName |-> url.host, auth |-> url.user]}
    [] OTHER -> {}

-----------------------------------------------------------------------------
(* FromURL and FastResolverFromURLs.                                       *)

\* The text of a URL without a scheme is parsed once more, as one of dns.
WithScheme(url) == IF url.scheme = "" THEN [url EXCEPT !.scheme = "dns"] ELSE url

PlainResolver(url) == {[kind |-> "plain", host |-> url.host, port |-> PortOr(url, 53)]}
TCPResolver(url)   == {[kind |-> "tcp", host |-> url.host, port |-> PortOr(url, 53)]}

\* The constructors of these two may return an error.
DoTResolver(url) ==
  IF url.taken THEN {[kind |-> "dot", host |-> url.host, port |-> PortOr(url, 853)]} ELSE {}

\* The host is also the name in the URL of a DoH resolver's requests.
DoHResolver(url) ==
  IF url.taken
  THEN {[kind |-> IF url.scheme = "http" THEN "http" ELSE "https", host |-> url.host,
         port |-> PortOr(url, IF url.scheme = "http" THEN 80 ELSE 443)]}
  ELSE {}

\* The resolver of one URL; the empty set is the error.
FromURL(url) ==
  LET u == WithScheme(url) IN
    CASE ~url.parses -> {}
      [] url.parses /\ u.scheme \in {"udp", "dns"} -> PlainResolver(u)
      [] url.parses /\ u.scheme = "tcp" -> TCPResolver(u)
      [] url.parses /\ u.scheme \in {"http", "https", "doh"} -> DoHResolver(u)
      [] url.parses /\ u.scheme \in {"tls", "dot"} -> DoTResolver(u)
      [] OTHER -> {}

\* One URL that makes no resolver refuses the whole list.  A list of one
\* makes that resolver, any other list, the empty one too, makes a race.
FastResolverFromURLs(urls) ==
  IF \E n \in DOMAIN urls : FromURL(urls[n]) = {} THEN {}
  ELSE {[race |-> Len(urls) # 1,
         upstreams |-> [n \in DOMAIN urls |-> CHOOSE r \in FromURL(urls[n]) : TRUE]]}

-----------------------------------------------------------------------------
(* GetChromeVer and GetExtVer.                                             *)

\* An answer of status 200 that can be decoded.
Usable(answer) == answer.status = 200 /\ answer.decodes

\* Decoding fills an array of one version, which stays empty if the answer
\* lists none: that is not an error.
GetChromeVer(answer) == IF Usable(answer) THEN {answer.version} ELSE {}

\* A part that is missing on the way to the version is an error here.
GetExtVer(answer) == IF Usable(answer) THEN {answer.version} \ {""} ELSE {}
=============================================================================
