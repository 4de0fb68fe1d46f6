------------------------------ MODULE MCAccess ------------------------------
(***************************************************************************)
(* The services Access is checked on: one mistake at a time, then every    *)
(* source of keys, every kind of cors section and every way to mount the   *)
(* actuator, each with the clients that can tell the difference.           *)
(***************************************************************************)
EXTENDS Access, TLC

\* What the issuer publishes: a key for encryption, one of a type nobody here
\* reads, two under one kid, and one without.
JWK(kid, use, kty, sound, key) == [kid |-> kid, use |-> use, kty |-> kty, sound |-> sound, key |-> key]
IssuersKeys == <<JWK("k1", "enc", "RSA", TRUE, "sealing"), JWK("k2", "sig", "OKP", TRUE, "odd"),
                 JWK("k1", "sig", "RSA", TRUE, "old"), JWK("k1", "", "RSA", TRUE, "new"),
                 JWK("", "sig", "EC", TRUE, "curve"), JWK("k3", "sig", "EC", FALSE, "torn")>>
MCDocuments == ("issuer" :> [readable |-> TRUE, keys |-> IssuersKeys])
    @@ ("mounted" :> [readable |-> TRUE, keys |-> IssuersKeys])
    @@ ("useless" :> [readable |-> TRUE, keys |-> SubSeq(IssuersKeys, 1, 2)])
    @@ ("missing" :> [readable |-> FALSE, keys |-> <<>>])
Pem(block, sound, kty) == [block |-> block, sound |-> sound, kty |-> kty, key |-> "new"]
MCPems == ("key" :> Pem("PUBLIC KEY", TRUE, "RSA")) @@ ("secret" :> Pem("PRIVATE KEY", TRUE, "RSA"))
    @@ ("ed25519" :> Pem("PUBLIC KEY", TRUE, "OKP"))

-----------------------------------------------------------------------------
NoCors == [origins |-> {}, methods |-> {}, headers |-> {}, exposed |-> {}, credentials |-> FALSE]
AppCors == [NoCors EXCEPT !.origins = {"app"}, !.credentials = TRUE, !.exposed = {"X-Total-Count"}]
Strict == [AppCors EXCEPT !.methods = {"GET"}, !.headers = {"Content-Type"}]
Anyone == [NoCors EXCEPT !.origins = {"*"}]

NoJWT == [issuer |-> "", audience |-> {}, leeway |-> 0, url |-> "", file |-> "", pem |-> ""]
Whole == [NoJWT EXCEPT !.issuer = "idp", !.audience = {"orders", "orders-v2"}]
ByURL == [Whole EXCEPT !.url = "https"]
ByFile == [Whole EXCEPT !.file = "mounted", !.leeway = 2]
ByPem == [Whole EXCEPT !.pem = "key"]
MistakenJWT == {[NoJWT EXCEPT !.issuer = "idp"], [NoJWT EXCEPT !.leeway = 2], Whole,
    [ByURL EXCEPT !.file = "mounted"], [ByURL EXCEPT !.audience = {"orders", ""}],
    [ByURL EXCEPT !.audience = {}], [ByURL EXCEPT !.issuer = ""], [ByURL EXCEPT !.url = "plain"],
    [ByURL EXCEPT !.url = "other"], [ByFile EXCEPT !.file = "useless"],
    [ByFile EXCEPT !.file = "missing"], [ByPem EXCEPT !.pem = "secret"],
    [ByPem EXCEPT !.pem = "ed25519"]}

-----------------------------------------------------------------------------
NoClaim == [shape |-> "none", names |-> {}]
Scoped(names) == [shape |-> "string", names |-> names]
Good == [alg |-> "RS256", kid |-> "k1", key |-> "new", kty |-> "RSA", iss |-> "idp",
         aud |-> {"orders"}, expires |-> TRUE, exp |-> 2, nbf |-> 0,
         scope |-> Scoped({"actuator", "orders"}), scp |-> NoClaim]
Tokens == {Good, [Good EXCEPT !.key = "old", !.exp = 9],
    [Good EXCEPT !.kid = "", !.scope = NoClaim, !.scp = [shape |-> "array", names |-> {"actuator"}]],
    [Good EXCEPT !.kid = "", !.key = "curve", !.kty = "EC", !.alg = "ES256", !.scope = Scoped({"orders"})],
    [Good EXCEPT !.key = "curve", !.kty = "EC", !.alg = "ES256"],
    [Good EXCEPT !.alg = "HS256"], [Good EXCEPT !.key = "sealing"],
    [Good EXCEPT !.kid = "k9"], [Good EXCEPT !.iss = "elsewhere"],
    [Good EXCEPT !.aud = {"billing"}], [Good EXCEPT !.aud = {"billing", "orders-v2"}],
    [Good EXCEPT !.expires = FALSE], [Good EXCEPT !.nbf = 2, !.exp = 3],
    [Good EXCEPT !.scope = Scoped({}), !.scp = [shape |-> "other", names |-> {"actuator"}]],
    [Good EXCEPT !.scope = Scoped({"orders"}), !.scp = Scoped({"actuator"})]}

Orders == <<"orders">>
Loglevel == <<"actuator", "loglevel">>

\* A script's GET, and what else may be said of one.
Get(path, token) ==
    [from |-> "none", credentialed |-> FALSE, preflight |-> FALSE, method |-> "GET", path |-> path,
     port |-> "app", token |-> token, json |-> FALSE, body |-> [reads |-> FALSE, level |-> ""]]
Put(token, reads, text) ==
    [Get(Loglevel, token) EXCEPT !.method = "PUT", !.body = [reads |-> reads, level |-> text]]
By(q, method) == [q EXCEPT !.method = method]
Page(q, origin, credentialed) == [q EXCEPT !.from = origin, !.credentialed = credentialed]
Preflight(q) == [q EXCEPT !.preflight = TRUE]

\* A client with every token, in time and out of it.
Callers == UNION {{Get(Orders, t), Get(<<"nowhere">>, t), Put(t, TRUE, "DEBUG")} :
                     t \in Tokens \cup {NoToken}}

\* Pages of both origins, with and without cookies, and a script: a GET, a form,
\* and what takes a preflight for its method, its token or its body.
PagesOf(token) ==
    {Page(Get(Orders, NoToken), o, c) : o \in {"app", "other"}, c \in BOOLEAN}
    \cup {Page(By(Get(Orders, NoToken), "POST"), o, TRUE) : o \in {"app", "other"}}
    \cup {Page(By(Get(Orders, NoToken), "HEAD"), "other", FALSE)}
    \cup UNION {{Page(q, o, FALSE), Preflight(Page(q, o, FALSE))} : o \in {"app", "other"},
                    q \in {Get(Orders, token), [By(Get(Orders, NoToken), "POST") EXCEPT !.json = TRUE]}}
    \cup {Get(Orders, NoToken), Page(Get(<<"actuator", "info">>, NoToken), "app", TRUE)}
    \cup UNION {{Page(Put(token, TRUE, "DEBUG"), p[1], p[2]),
                 Preflight(Page(Put(token, TRUE, "DEBUG"), p[1], p[2]))} :
                    p \in {<<"app", TRUE>>, <<"app", FALSE>>, <<"other", TRUE>>}}

\* An operator, and probes, at one listener or the other.
Operator ==
    {By(Get(<<"actuator", p>>, Good), m) :
        m \in {"GET", "POST"}, p \in {"loglevel", "info", "metrics", "pprof", "livez"}}
    \cup {By(Put(Good, TRUE, "DEBUG"), "POST")}
    \cup {Put(Good, b, t) : b \in BOOLEAN, t \in {"DEBUG", "LOUD"}}
    \cup {Get(p, NoToken) : p \in {<<"livez">>, <<"readyz">>, <<"actuator", "readyz">>,
                                   <<"actuator", "info">>, Loglevel}}
    \cup {By(Get(<<"actuator", "pprof", "symbol">>, NoToken), "POST")}
OnBoth(clients) == clients \cup {[q EXCEPT !.port = "private"] : q \in clients}

Plain == [tls |-> {}, expose |-> <<"livez", "readyz", "loglevel", "info">>, addr |-> "",
          operators |-> TRUE, cors |-> NoCors, jwt |-> ByURL, clients |-> {Get(Orders, NoToken)}]

EveryService ==
    {[Plain EXCEPT !.jwt = j] : j \in MistakenJWT}
    \cup {[Plain EXCEPT !.jwt = j, !.clients = Callers] :
             j \in {ByURL, ByFile, ByPem, NoJWT, [ByURL EXCEPT !.url = "loopback"]}}
    \cup {[Plain EXCEPT !.cors = c, !.clients = PagesOf(t)] :
             c \in {NoCors, AppCors, Strict, Anyone}, t \in {Good, NoToken}}
    \cup {[Plain EXCEPT !.cors = AppCors, !.operators = FALSE, !.clients = PagesOf(NoToken)]}
    \cup {[Plain EXCEPT !.cors = [c EXCEPT !.credentials = TRUE]] : c \in {NoCors, Anyone}}
    \cup {[Plain EXCEPT !.expose = x, !.operators = o, !.clients = Operator] : o \in BOOLEAN,
             x \in {<<>>, <<"loglevel", "info", "loglevel">>, <<"livez", "pprof", "metrics">>}}
    \cup {[Plain EXCEPT !.addr = ":9090", !.clients = OnBoth(Operator)]}
    \cup {[Plain EXCEPT !.expose = <<"livez", "readiness">>], [Plain EXCEPT !.tls = {"cert"}],
          [Plain EXCEPT !.tls = {"cert", "key"}]}

\* TLC evaluates EveryService once; what it replaces a constant by, at every use.
MCServices == EveryService
=============================================================================
