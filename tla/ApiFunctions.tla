---------------------------- MODULE ApiFunctions ----------------------------
(***************************************************************************)
(* The pure functions behind the API calls (holaapi.go): how the published *)
(* fallback configuration is unscrambled and dated, which countries and    *)
(* proxies are listed.                                                     *)
(***************************************************************************)
EXTENDS Integers, Sequences, SequencesExt

CONSTANTS
  Half,         \* 2^63: integers are -Half .. Half - 1
  Scale         \* 10^6, the nanoseconds of a millisecond

ASSUME WidthAssumption == Half \in Nat \ {0} /\ Scale \in Nat \ {0}

-----------------------------------------------------------------------------
(* fetchFallbackConfig and FallbackConfig.                                 *)

\* An integer cut to the width of the machine's.
Wrap(x) == ((x + Half) % (2 * Half)) - Half

\* The TTL of a configuration in nanoseconds.
TTL(ttl_ms) == Wrap(ttl_ms * Scale)

\* updated_ts is split into seconds and the rest, which loses nothing: it is
\* the moment in nanoseconds.
UpdatedAt(updated_ts) == updated_ts * Scale

\* The time package does not wrap when a duration is added to a moment.
Expired(conf, now) == now > UpdatedAt(conf.updated_ts) + TTL(conf.ttl_ms)

\* The last three bytes of the file come first.
Unscrambled(raw) == SubSeq(raw, Len(raw) - 2, Len(raw)) \o SubSeq(raw, 1, Len(raw) - 3)

\* What there is to decode; a file of less than four bytes is an error.
Decodable(raw) == IF Len(raw) < 4 THEN {} ELSE {Unscrambled(raw)}

-----------------------------------------------------------------------------
(* VPNCountries and print_proxies.                                         *)

\* The answer with gb beside uk, each country once; the code sorts them.
VPNCountries(answer) ==
  ToSet(answer) \cup (IF "uk" \in ToSet(answer) THEN {"gb"} ELSE {})

\* PROTOCOL_WHITELIST; a host without a protocol has the empty one.
IsListed(tunnels, host) ==
  host \in DOMAIN tunnels.Protocol /\ tunnels.Protocol[host] \in {"HTTP", "http"}

ListedProxies(tunnels) == {host \in DOMAIN tunnels.IPList : IsListed(tunnels, host)}
=============================================================================
