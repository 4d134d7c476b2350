------------------------------ MODULE MCChain ------------------------------
(***************************************************************************)
(* Small instances of Chain for TLC.  ONE request on a route of every kind *)
(* goes through every layer with every kind of input: the properties of a  *)
(* single answer.  TWO requests that meet on the same two routes show what *)
(* requests can do to each other: one holds a slot or a quota the other    *)
(* wants, in every interleaving.                                           *)
(***************************************************************************)
EXTENDS ChainProperties, TLC

CONSTANTS r1, r2

Pair == {r1, r2}

Symmetric == Permutations(Pair)

MCAddress == {"a", "b", "c", "proxy"}
MCToken == {"t", "u"}

Conf0 == [kind |-> "webhook", throttle |-> FALSE, timeout |-> FALSE,
          limitPublic |-> FALSE, limitAuth |-> FALSE,
          callbacks |-> FALSE, counter |-> FALSE, wrapped |-> FALSE]

Input0 == [route |-> "none", method |-> "GET", origin |-> "none",
           cred |-> "valid", body |-> "fits", claimedIP |-> "b",
           from |-> "a", peer |-> "a", forwarded |-> << >>,
           agent |-> "browser", app |-> "shop", token |-> "t"]
-----------------------------------------------------------------------------
\* One route of every kind, with every option on somewhere
AllRoutes == {"login", "profile", "partner", "sync", "admin", "sign", "hook"}

AllConfig ==
    [rt \in AllRoutes |->
        CASE rt = "login"   -> [Conf0 EXCEPT !.kind = "public", !.limitPublic = TRUE,
                                             !.throttle = TRUE, !.timeout = TRUE]
          [] rt = "profile" -> [Conf0 EXCEPT !.kind = "public-auth", !.limitAuth = TRUE, !.throttle = TRUE,
                                             !.callbacks = TRUE, !.timeout = TRUE]
          [] rt = "partner" -> [Conf0 EXCEPT !.kind = "public-api-key", !.limitPublic = TRUE,
                                             !.counter = TRUE, !.wrapped = TRUE]
          [] rt = "sync"    -> [Conf0 EXCEPT !.kind = "internal", !.timeout = TRUE,
                                             !.wrapped = TRUE]
          [] rt = "admin"   -> [Conf0 EXCEPT !.kind = "admin", !.throttle = TRUE,
                                             !.callbacks = TRUE]
          [] rt = "sign"    -> [Conf0 EXCEPT !.kind = "presign", !.limitPublic = TRUE]
          [] rt = "hook"    -> [Conf0 EXCEPT !.timeout = TRUE]]

AllOnes == [rt \in AllRoutes |-> 1]
AllZeros == [rt \in AllRoutes |-> 0]
\* the API key route has no quota at all: every request is over it
AllQuota == [rt \in AllRoutes |-> IF rt = "partner" THEN 0 ELSE 1]

\* CORS looks at nothing but origin and method, and comes first
AllInputs ==
    { [Input0 EXCEPT !.route = rt, !.method = m, !.origin = "allowed", !.cred = c,
                     !.body = b] :
        rt \in AllRoutes, m \in {"POST", "OPTIONS"}, c \in Cred, b \in Body }
    \cup
    { [Input0 EXCEPT !.route = rt, !.method = m, !.origin = o, !.cred = c] :
        rt \in AllRoutes, m \in {"GET", "OPTIONS"}, o \in {"none", "foreign"},
        c \in {"valid", "badsig"} }
-----------------------------------------------------------------------------
\* Two routes that two requests contend for: limit 1 and no backlog on profile
PairRoutes == {"login", "profile"}

PairConfig ==
    [rt \in PairRoutes |->
        IF rt = "login"
        THEN [Conf0 EXCEPT !.kind = "public", !.limitPublic = TRUE, !.throttle = TRUE]
        ELSE [Conf0 EXCEPT !.kind = "public-auth", !.limitAuth = TRUE, !.throttle = TRUE]]

PairLimit == [rt \in PairRoutes |-> 1]
PairBacklog == [rt \in PairRoutes |-> IF rt = "login" THEN 1 ELSE 0]
PairQuota == [rt \in PairRoutes |-> 1]

Login == [Input0 EXCEPT !.route = "login"]
Profile == [Input0 EXCEPT !.route = "profile"]

\* who's request with what the proxy makes of X-Forwarded-For: it overwrites,
\* or appends to what the client wrote
Proxied(who, xff) == [Login EXCEPT !.peer = "proxy", !.from = who, !.forwarded = xff]

PairInputs ==
    { Login,
      [Login EXCEPT !.cred = "badsig", !.forwarded = <<"c">>],
      [Login EXCEPT !.forwarded = <<"c">>, !.claimedIP = "none"],
      [Login EXCEPT !.agent = "robot", !.app = "bank"],
      Proxied("a", <<"a">>), Proxied("c", <<"a", "c">>),
      Profile, [Profile EXCEPT !.token = "u"] }

\* Liveness: two requests that contend for one slot
LiveInputs == {Login}
-----------------------------------------------------------------------------
NoStatus == {}
NoHeader == {}
MCTrusted == {"proxy"}
MCRemoved == {"Server"}
MCStatus == {103, 200, 201}
MCAppHeader == {"Content-Type", "Server"}
MCAgent == {"browser", "robot"}
MCAppID == {"shop", "bank"}
=============================================================================
