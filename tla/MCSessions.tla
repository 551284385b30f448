----------------------------- MODULE MCSessions -----------------------------
(***************************************************************************)
(* An instance of Sessions for TLC: one identity, two keys of Apple's, an    *)
(* hour of two ticks, a server that is started again once: with the default   *)
(* lifetimes, with a negative one and one that does not parse, with another    *)
(* secret and an access lifetime that does not parse, or with the secret that  *)
(* production refuses.                                                      *)
(***************************************************************************)
EXTENDS Sessions

CONSTANTS u, strong, default, dev

Users == {u}
Secrets == {strong, default, dev}

Environment(secret, production, clientID, access, refresh) ==
  [JWT_SECRET |-> secret, production |-> production, APPLE_CLIENT_ID |-> clientID,
   JWT_ACCESS_TTL |-> access, JWT_REFRESH_TTL |-> refresh]

SomeEnvs ==
  {Environment(strong, TRUE, "ours", Unset, Unset),
   Environment(strong, TRUE, "ours", -Hour, Malformed),
   Environment(dev, FALSE, Unset, Malformed, Unset),
   Environment(Unset, TRUE, "ours", Unset, Unset)}

\* devtoken with its default lifetime, and with one that outlives the clock.
SomeDevRuns == {[secret |-> dev, ttl |-> Hour], [secret |-> strong, ttl |-> MaxTime + 1]}

\* Tokens by both keys, one for another client, one out of order.
SomeAppleTokens ==
  {[user |-> u, kid |-> k, aud |-> "ours", good |-> TRUE] : k \in Kid}
    \cup {[user |-> u, kid |-> 1, aud |-> "other", good |-> TRUE],
          [user |-> u, kid |-> 1, aud |-> "ours", good |-> FALSE]}
=============================================================================
