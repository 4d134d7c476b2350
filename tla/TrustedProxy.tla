---------------------------- MODULE TrustedProxy ----------------------------
(***************************************************************************)
(* TrustProxy of src/middleware.go, which the chains, the GraphQL chain    *)
(* and the WebSocket chain share: where the NVX-IP header comes from.      *)
(***************************************************************************)
EXTENDS Sequences

CONSTANTS Address,
          TrustedProxies   \* Config.TrustedProxies, as the peers they match

\* X-Forwarded-For, leftmost element first.  A proxy that appends leaves what
\* the client wrote in front, also what is no address at all
Forwarded == Seq(Address \cup {"garbage"})

\* Only a trusted peer's X-Forwarded-For counts, and of that the leftmost
\* element, if it is an address
BadClientIP(peer, forwarded) ==
    IF forwarded # << >> /\ Head(forwarded) \in Address
    THEN Head(forwarded) ELSE peer
ClientIP(peer, forwarded) ==
    IF peer \in TrustedProxies /\ forwarded # << >> /\ Head(forwarded) \in Address
    THEN Head(forwarded) ELSE peer
=============================================================================
