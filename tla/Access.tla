-------------------------------- MODULE Access --------------------------------
(***************************************************************************)
(* Who may do what: a service built as examples/http-secure builds it, from *)
(* the sections actuator, web and security of its configuration, and then  *)
(* asked by clients with tokens, by pages of other origins in browsers,    *)
(* and through a shared cache, while tokens come and go out of date.       *)
(*                                                                         *)
(* The order of the middleware and what a panic does to an answer are in   *)
(* Request; a key set that changes or cannot be read is in KeySet.         *)
(***************************************************************************)
EXTENDS Naturals, Sequences, SequencesExt, FiniteSets

CONSTANTS
    Services,    \* a service's configuration and wiring, and the requests it gets
    Documents,   \* name -> the key set it holds: [readable, keys], keys a sequence of JWKs
    Pems,        \* name -> the PEM file: [block, sound, kty, key]
    Levels,      \* the texts slog.Level understands
    Horizon      \* bound: the last tick of the clock

Origin == {"app", "other"}
None == "none"

\* What a key of the configuration, or of a JWK, is when it is left out.
Blank == ""

\* What a browser, a script or a probe sends.  json: its body is of a type that
\* no plain form has.  A preflight announces the method, the token and the body
\* to come and carries none of them.
Ask(from, credentialed, method, path, token) ==
    [from |-> from, credentialed |-> credentialed, preflight |-> FALSE, method |-> method,
     path |-> path, port |-> "app", token |-> token, json |-> FALSE,
     body |-> [reads |-> FALSE, level |-> Blank]]

NoToken == [alg |-> None]

\* A JWK's use and type, where "OKP" stands for the types nobody here reads; a
\* configuration names files that are there to be opened, readable or not, and
\* methods and headers by their names, never as "*"; and a key is of one type
\* wherever it turns up.
ServicesWellFormed ==
    /\ "INFO" \in Levels /\ Horizon \in Nat /\ "issuer" \in DOMAIN Documents
    /\ \A d \in DOMAIN Documents :
          /\ Documents[d].readable \in BOOLEAN
          /\ \A i \in DOMAIN Documents[d].keys :
                LET k == Documents[d].keys[i]
                IN k.use \in {Blank, "sig", "enc"} /\ k.kty \in {"RSA", "EC", "OKP"} /\ k.sound \in BOOLEAN
    /\ \A s \in Services :
          /\ s.tls \subseteq {"cert", "key"} /\ s.operators \in BOOLEAN /\ s.expose \in Seq(STRING)
          /\ s.cors.credentials \in BOOLEAN /\ s.jwt.leeway \in Nat
          /\ "*" \notin s.cors.methods \cup s.cors.headers
          /\ s.jwt.file \in DOMAIN Documents \cup {Blank} /\ s.jwt.pem \in DOMAIN Pems \cup {Blank}
          /\ \A q \in s.clients :
                /\ q.from \in Origin \cup {None} /\ q.port \in {"app", "private"}
                /\ q.credentialed \in BOOLEAN /\ q.preflight \in BOOLEAN /\ q.json \in BOOLEAN
                /\ q.token # NoToken =>
                      /\ q.token.exp \in Nat /\ q.token.nbf \in Nat
                      /\ \A d \in DOMAIN Documents : \A i \in DOMAIN Documents[d].keys :
                            Documents[d].keys[i].key = q.token.key => Documents[d].keys[i].kty = q.token.kty

VARIABLES
    service,     \* the sections and the wiring
    pc,          \* the constructor that is next, then where a request is
    mw,          \* security.DefaultMiddleware's slice
    keys,        \* keySet.keys
    routes,      \* path -> [name, guarded], on the listener that has them
    mounted,     \* how much of the whitelist Actuator.routes has gone through
    level,       \* App.Level
    now,         \* the clock, in units of the default leeway
    asked,       \* the request
    principal,   \* the Principal in its context
    head,        \* the response headers CORS sets
    status,      \* of the answer; 0 before there is one
    cache,       \* what the shared cache has stored
    granted      \* the preflights browsers remember
builtVars == <<service, mw, keys, routes, mounted>>
askedVars == <<asked, principal, head, status>>
outsideVars == <<cache, granted>>
accessVars == <<builtVars, pc, level, now, askedVars, outsideVars>>

-----------------------------------------------------------------------------
(* The actuator: its endpoints and the whitelist.                           *)

Endpoint == {"livez", "readyz", "info", "metrics", "loglevel", "pprof"}

Paths(name) ==
    CASE name \in {"livez", "readyz"} -> {<<name>>, <<"actuator", name>>}
      [] name = "pprof" -> {<<"actuator", name>>, <<"actuator", name, "symbol">>}
      [] OTHER -> {<<"actuator", name>>}

\* The methods of the patterns, of which GET takes HEAD too; the one of loglevel
\* names none.
Takes(path, method) ==
    CASE path = <<"actuator", "loglevel">>        -> TRUE
      [] path = <<"actuator", "pprof", "symbol">> -> method \in {"GET", "HEAD", "POST"}
      [] OTHER                                    -> method \in {"GET", "HEAD"}

Expose(s) == IF s.expose = <<>> THEN <<"livez", "readyz", "info">> ELSE s.expose

\* validate
Validates(s) == ToSet(Expose(s)) \subseteq Endpoint

IsProbe(path) == path \in Paths("livez") \cup Paths("readyz")

\* operators.Handle in front of Server.Handle; the private listener has neither.
Guards(s, path) == s.addr = Blank /\ s.operators /\ ~IsProbe(path)

NoRoutes == [p \in {} |-> [name |-> None, guarded |-> FALSE]]

\* net/http panics on a pattern it has already.
Register(name) ==
    IF Paths(name) \cap DOMAIN routes # {} THEN pc' = "panicked" /\ UNCHANGED routes
    ELSE /\ routes' = [p \in DOMAIN routes \cup Paths(name) |->
                         IF p \in Paths(name) THEN [name |-> name, guarded |-> Guards(service, p)]
                         ELSE routes[p]]
         /\ UNCHANGED pc

\* done: what the whitelist names twice is registered once.
Done(name) == \E i \in 1..mounted : Expose(service)[i] = name

-----------------------------------------------------------------------------
(* CORS and JWT sections.                                                   *)

Wildcard(c) == "*" \in c.origins

CorsErrs(c) == c.credentials /\ (Wildcard(c) \/ c.origins = {})
HasCors(s) == s.cors.origins # {}

\* cmpOr: what a section names stands in the place of the default.  Mutant: it is
\* added to it.
AllowedMethods(c) == IF c.methods = {} THEN {"GET", "POST", "PUT", "PATCH", "DELETE"} ELSE c.methods
DefaultAndNamed(c) == {"Authorization", "Content-Type"} \cup c.headers
AllowedHeaders(c) == IF c.headers = {} THEN {"Authorization", "Content-Type"} ELSE c.headers

\* A section counts as absent only if nothing in it is set.  Mutant: if it has
\* no issuer.
IsZeroWithoutIssuer(j) == j.issuer = Blank
IsZero(j) ==
    /\ j.issuer = Blank /\ j.audience = {} /\ j.leeway = 0
    /\ j.url = Blank /\ j.file = Blank /\ j.pem = Blank

Sources(j) == {f \in {"url", "file", "pem"} : j[f] # Blank}

\* rsaKey and ecKey refuse what is no key of theirs.
Usable(k) == k.use \in {Blank, "sig"} /\ k.kty \in {"RSA", "EC"} /\ k.sound

\* parseJWKS: several keys may have one kid.  Mutant: one of them is kept.
UsableOf(doc) == {k \in ToSet(doc.keys) : doc.readable /\ Usable(k)}
ParseJWKSOnePerKid(doc) ==
    LET usable == UsableOf(doc)
    IN [kid \in {k.kid : k \in usable} |-> {(CHOOSE k \in usable : k.kid = kid).key}]
ParseJWKS(doc) ==
    LET usable == UsableOf(doc)
    IN [kid \in {k.kid : k \in usable} |-> {k.key : k \in {u \in usable : u.kid = kid}}]

NoKeys == [kid \in {} |-> {}]

ReadsPem(p) ==
    /\ p.block \in {"PUBLIC KEY", "RSA PUBLIC KEY", "CERTIFICATE"}
    /\ p.sound /\ p.kty \in {"RSA", "EC"}

\* keysFor and checkJWKSURL: a URL is not read before the first token.
KeysFor(j) ==
    /\ Cardinality(Sources(j)) = 1
    /\ j.url # Blank => j.url \in {"https", "loopback"}
    /\ j.file # Blank => ParseJWKS(Documents[j.file]) # NoKeys
    /\ j.pem # Blank => ReadsPem(Pems[j.pem])

\* What newKeySet, newFileKeySet and newPEMKeySet begin with
KeysAtStart(j) ==
    CASE j.file # Blank -> ParseJWKS(Documents[j.file])
      [] j.pem # Blank  -> [kid \in {Blank} |-> {Pems[j.pem].key}]
      [] OTHER       -> NoKeys

AuthenticateErrs(j) == j.issuer = Blank \/ j.audience = {} \/ Blank \in j.audience \/ ~KeysFor(j)

Leeway(j) == IF j.leeway = 0 THEN 1 ELSE j.leeway

-----------------------------------------------------------------------------
(* A token.                                                                 *)

AllowedAlgs == [RS256 |-> "RSA", PS256 |-> "RSA", ES256 |-> "EC"]

\* keyfunc and candidates
Candidates(j, t) ==
    LET kid == IF j.pem # Blank THEN Blank ELSE t.kid
    IN IF kid = Blank THEN UNION {keys[k] : k \in DOMAIN keys}
       ELSE IF kid \in DOMAIN keys THEN keys[kid] ELSE {}

\* golang-jwt: the signature, then the claims.
Signed(j, t) ==
    /\ t.alg \in DOMAIN AllowedAlgs
    /\ t.key \in Candidates(j, t)
    /\ t.kty = AllowedAlgs[t.alg]

InTime(j, t) ==
    /\ t.expires /\ now < t.exp + Leeway(j)
    /\ now + Leeway(j) >= t.nbf

Verifies(j, t) ==
    Signed(j, t) /\ t.iss = j.issuer /\ t.aud \cap j.audience # {} /\ InTime(j, t)

\* A claim: [shape, names]; what is no string in an array is passed over.
Names(claim) == IF claim.shape \in {"string", "array"} THEN claim.names ELSE {}
ScopesOf(t) == IF Names(t.scope) # {} THEN Names(t.scope) ELSE Names(t.scp)

Nobody == [known |-> FALSE, scopes |-> {}]
PrincipalOf(t) == [known |-> TRUE, scopes |-> ScopesOf(t)]

-----------------------------------------------------------------------------
NoHead == [allow |-> None, credentials |-> FALSE, methods |-> {}, headers |-> {},
           exposed |-> {}, vary |-> FALSE]
Idle == Ask(None, FALSE, "GET", <<"orders">>, NoToken)

AccessInit ==
    /\ service \in Services
    /\ pc = "actuator.New"
    /\ mw = <<>> /\ keys = NoKeys /\ routes = NoRoutes /\ mounted = 0
    /\ level = "INFO" /\ now = 0
    /\ asked = Idle /\ principal = Nobody /\ head = NoHead /\ status = 0
    /\ cache = {} /\ granted = {}

\* run builds one thing after the other and gives up at the first error.
Built(constructor, errs, next) ==
    /\ pc = constructor
    /\ pc' = IF errs THEN "refused" ELSE next
    /\ UNCHANGED <<service, level, now, askedVars, outsideVars>>

NewActuator ==
    /\ Built("actuator.New", ~Validates(service), "web.New")
    /\ UNCHANGED <<mw, keys, routes, mounted>>

\* Half a TLS pair
NewServer ==
    /\ Built("web.New", Cardinality(service.tls) = 1, "DefaultMiddleware")
    /\ UNCHANGED <<mw, keys, routes, mounted>>

DefaultMiddleware ==
    /\ Built("DefaultMiddleware",
             CorsErrs(service.cors) \/ (~IsZero(service.jwt) /\ AuthenticateErrs(service.jwt)),
             "MountOn")
    /\ mw' = IF pc' = "refused" THEN <<>>
             ELSE <<"headers">> \o (IF HasCors(service) THEN <<"cors">> ELSE <<>>)
                                \o (IF IsZero(service.jwt) THEN <<>> ELSE <<"authenticate">>)
    /\ keys' = IF pc' = "refused" \/ IsZero(service.jwt) THEN keys ELSE KeysAtStart(service.jwt)
    /\ UNCHANGED <<routes, mounted>>

\* routes goes through the whitelist, then Serve begins.
MountOn ==
    /\ pc = "MountOn"
    /\ IF mounted = Len(Expose(service)) THEN pc' = "idle" /\ UNCHANGED <<routes, mounted>>
       ELSE LET name == Expose(service)[mounted + 1]
            IN /\ IF Done(name) THEN UNCHANGED <<pc, routes>> ELSE Register(name)
               /\ mounted' = mounted + 1
    /\ UNCHANGED <<service, mw, keys, level, now, askedVars, outsideVars>>

-----------------------------------------------------------------------------
(* Clients, browsers and the shared cache.                                  *)

Tick ==
    /\ pc = "idle" /\ now < Horizon
    /\ now' = now + 1
    /\ UNCHANGED <<builtVars, pc, level, askedVars, outsideVars>>

\* A script, a probe and a preflight go out at once.  Of a page's request the
\* browser does so with what a form could send just as well, whatever its origin;
\* for every other method, and for every header a form has not, it needs a
\* preflight of that path to have been granted.
Simple == {"GET", "HEAD", "POST"}
Needs(q) ==
    {<<"method", m>> : m \in {q.method} \ Simple}
        \cup {<<"header", h>> : h \in (IF q.token = NoToken THEN {} ELSE {"Authorization"})
                                      \cup (IF q.json THEN {"Content-Type"} ELSE {})}
Grants(h) == {<<"method", m>> : m \in h.methods} \cup {<<"header", n>> : n \in h.headers}

MaySend(q) ==
    q.from # None /\ ~q.preflight => \A n \in Needs(q) : \E g \in granted :
        /\ g.from = q.from /\ g.path = q.path /\ n \in g.what
        /\ q.credentialed => g.credentialed

Cacheable(q) == q.port = "app" /\ ~q.preflight /\ q.method = "GET" /\ q.token = NoToken

ClientAsks ==
    /\ pc = "idle"
    /\ \E q \in service.clients :
          /\ MaySend(q)
          /\ asked' = q
          /\ pc' = IF Cacheable(q) THEN "cache" ELSE IF q.port = "app" THEN "in" ELSE "mux"
    /\ principal' = Nobody /\ head' = NoHead /\ status' = 0
    /\ UNCHANGED <<builtVars, level, now, outsideVars>>

\* A stored answer that varies on the origin answers that origin only.
CacheAnswers ==
    /\ pc = "cache"
    /\ \E e \in cache :
          /\ e.path = asked.path /\ (e.head.vary => e.from = asked.from)
          /\ head' = e.head
    /\ status' = 200 /\ pc' = "answered"
    /\ UNCHANGED <<builtVars, level, now, asked, principal, outsideVars>>

CachePasses ==
    /\ pc = "cache"
    /\ pc' = "in"
    /\ UNCHANGED <<builtVars, level, now, askedVars, outsideVars>>

\* A page reads an answer that allows its origin, and its credentials.
Reads == head.allow = asked.from /\ (asked.credentialed => head.credentials)

\* The browser and the cache keep what they may.
Delivered ==
    /\ pc = "answered"
    /\ pc' = "idle"
    /\ cache' = IF Cacheable(asked) /\ status = 200
                THEN cache \cup {[path |-> asked.path, from |-> asked.from, head |-> head]}
                ELSE cache
    /\ granted' = IF /\ asked.from # None /\ asked.preflight /\ Reads
                     /\ Needs(asked) \subseteq Grants(head)
                  THEN granted \cup {[from |-> asked.from, credentialed |-> asked.credentialed,
                                      path |-> asked.path, what |-> Grants(head)]}
                  ELSE granted
    /\ UNCHANGED <<builtVars, level, now, askedVars>>

-----------------------------------------------------------------------------
(* The middleware and the handlers.                                         *)

Uses(m) == m \in ToSet(mw)
Answered(code) == status' = code /\ pc' = "answered"

OriginAllowed == Wildcard(service.cors) \/ asked.from \in service.cors.origins

\* What CORS adds whatever the origin.  Mutant: only for one that is allowed.
VaryLate == [NoHead EXCEPT !.vary = asked.from # None /\ OriginAllowed]
Vary == [NoHead EXCEPT !.vary = TRUE]

\* Headers, then CORS.
CorsHead ==
    LET c == service.cors
        allow == [Vary EXCEPT !.allow = asked.from, !.credentials = c.credentials]
    IN IF asked.from = None \/ ~OriginAllowed THEN Vary
       ELSE IF asked.preflight
       THEN [allow EXCEPT !.methods = AllowedMethods(c), !.headers = AllowedHeaders(c)]
       ELSE [allow EXCEPT !.exposed = {"X-Request-Id"} \cup c.exposed]

CORS ==
    /\ pc = "in"
    /\ head' = IF Uses("cors") THEN CorsHead ELSE head
    /\ IF Uses("cors") /\ asked.preflight THEN Answered(204)
       ELSE pc' = "authenticate" /\ UNCHANGED status
    /\ UNCHANGED <<builtVars, level, now, asked, principal, outsideVars>>

Bearer == IF asked.preflight THEN NoToken ELSE asked.token

\* The first token reads a key set that comes from a URL.
Authenticate ==
    /\ pc = "authenticate"
    /\ IF ~Uses("authenticate") \/ Bearer = NoToken
       THEN pc' = "mux" /\ UNCHANGED <<keys, principal, status>>
       ELSE IF keys = NoKeys
       THEN /\ keys' = ParseJWKS(Documents["issuer"])
            /\ IF keys' = NoKeys THEN Answered(401) ELSE UNCHANGED <<pc, status>>
            /\ UNCHANGED principal
       ELSE /\ IF Verifies(service.jwt, Bearer)
               THEN principal' = PrincipalOf(Bearer) /\ pc' = "mux" /\ UNCHANGED status
               ELSE Answered(401) /\ UNCHANGED principal
            /\ UNCHANGED keys
    /\ UNCHANGED <<service, mw, routes, mounted, level, now, asked, head, outsideVars>>

\* The actuator's routes are on one of the two listeners, the service's on the
\* application's.
Found ==
    /\ asked.path \in DOMAIN routes
    /\ asked.port = (IF service.addr = Blank THEN "app" ELSE "private")
Scope == {"actuator"}

\* RequireScope, all of them, at the mount.
Refused(route) == route.guarded /\ ~(principal.known /\ Scope \subseteq principal.scopes)

Method == IF asked.preflight THEN "OPTIONS" ELSE asked.method

ServeMux ==
    /\ pc = "mux"
    /\ IF Found
       THEN LET route == routes[asked.path]
            IN IF ~Takes(asked.path, Method) THEN Answered(405)
               ELSE IF Refused(route) THEN Answered(IF principal.known THEN 403 ELSE 401)
               ELSE IF route.name = "loglevel" THEN pc' = "loglevel" /\ UNCHANGED status
               ELSE Answered(200)
       ELSE Answered(IF asked.port = "app" /\ asked.path = <<"orders">>
                     THEN IF Method \in Simple THEN 200 ELSE 405 ELSE 404)
    /\ UNCHANGED <<builtVars, level, now, asked, principal, head, outsideVars>>

\* The switch over the methods.  Mutant: what is not a GET sets the level.
SetsUnlessGet == Method # "GET"
Sets == Method = "PUT"

LogLevel ==
    /\ pc = "loglevel"
    /\ CASE Method = "GET" -> Answered(200) /\ UNCHANGED level
         [] Sets           -> IF asked.body.reads /\ asked.body.level \in Levels
                              THEN Answered(200) /\ level' = asked.body.level
                              ELSE Answered(400) /\ UNCHANGED level
         [] OTHER          -> Answered(405) /\ UNCHANGED level
    /\ UNCHANGED <<builtVars, now, asked, principal, head, outsideVars>>

AccessOver ==
    /\ pc \in {"refused", "panicked"}
    /\ UNCHANGED accessVars

AccessNext ==
    \/ NewActuator \/ NewServer \/ DefaultMiddleware \/ MountOn
    \/ Tick \/ ClientAsks \/ CacheAnswers \/ CachePasses \/ Delivered
    \/ CORS \/ Authenticate \/ ServeMux \/ LogLevel
    \/ AccessOver

AccessSpec == AccessInit /\ [][AccessNext]_accessVars
-----------------------------------------------------------------------------
(* Properties                                                               *)

Building == {"actuator.New", "web.New", "DefaultMiddleware", "MountOn"}
Serving == {"idle", "cache", "in", "authenticate", "mux", "loglevel", "answered"}

AccessTypeOK ==
    /\ service \in Services
    /\ pc \in Building \cup Serving \cup {"refused", "panicked"}
    /\ ToSet(mw) \subseteq {"headers", "cors", "authenticate"}
    /\ \A p \in DOMAIN routes : routes[p] \in [name : Endpoint, guarded : BOOLEAN]
    /\ mounted \in 0..Len(Expose(service))
    /\ level \in Levels /\ now \in 0..Horizon
    /\ asked = Idle \/ asked \in service.clients
    /\ head.allow \in Origin \cup {None}
    /\ status \in {0, 200, 204, 400, 401, 403, 404, 405}
    /\ \A g \in granted : g.from \in Origin

\* A configuration with a mistake in it builds nothing, and only such a one is
\* refused: half a TLS pair (web.go:59-61), an endpoint that is none, a jwt
\* section begun and not finished ("a misspelt key must never leave a service
\* quietly unauthenticated", security.go:74-76), a key set nobody could trust.
WholeOrRefused ==
    LET s == service
        j == s.jwt
        begun == j.issuer # Blank \/ j.audience # {} \/ j.leeway # 0 \/ Sources(j) # {}
        jwk(k) == k.use # "enc" /\ k.kty # "OKP" /\ k.sound
        trusted == \/ Sources(j) = {"url"} /\ j.url \in {"https", "loopback"}
                   \/ /\ Sources(j) = {"file"} /\ Documents[j.file].readable
                      /\ \E i \in DOMAIN Documents[j.file].keys : jwk(Documents[j.file].keys[i])
                   \/ Sources(j) = {"pem"} /\ ReadsPem(Pems[j.pem])
        sound == /\ s.tls \in {{}, {"cert", "key"}}
                 /\ \A i \in DOMAIN s.expose : s.expose[i] \in Endpoint
                 /\ s.cors.credentials => s.cors.origins # {} /\ "*" \notin s.cors.origins
                 /\ begun => j.issuer # Blank /\ j.audience # {} /\ Blank \notin j.audience /\ trusted
    IN pc \notin Building => (pc \in Serving <=> sound)

OnApp == pc = "answered" /\ asked.port = "app"

\* Through preflights and a shared cache, and whatever was asked before, a page
\* reads an answer exactly if its origin and its credentials are allowed, with
\* the request's id (cors.go:32-41, 98-100).  What a form could send arrives from
\* any origin (cors.go:137); what a page's request needs beyond that arrives only
\* from an origin, with credentials and by a method and headers that the section
\* allows, and what it names is instead of the defaults (cors.go:79-80, 142-149).
PagesAsAllowed ==
    LET c == service.cors
        listed == asked.from \in c.origins \/ "*" \in c.origins
        credible == asked.credentialed => c.credentials
        form == asked.method \in Simple /\ asked.token = NoToken /\ ~asked.json
        named(x, list, default) == x \in (IF list = {} THEN default ELSE list)
    IN OnApp /\ asked.from # None =>
        /\ Reads <=> listed /\ credible
        /\ Reads /\ ~asked.preflight => "X-Request-Id" \in head.exposed
        /\ ~asked.preflight /\ ~form =>
              /\ listed /\ credible
              /\ asked.method \in Simple \/ named(asked.method, c.methods, {"PUT", "PATCH", "DELETE"})
              /\ asked.token # NoToken => named("Authorization", c.headers, {"Authorization"})
              /\ asked.json => named("Content-Type", c.headers, {"Content-Type"})

\* A token the issuer signed, with a key it publishes for that, under the kid
\* the token names, for this service, in its time.
Genuine(t) ==
    LET j == service.jwt
        L == IF j.leeway = 0 THEN 1 ELSE j.leeway
        doc == Documents[IF j.url # Blank THEN "issuer" ELSE j.file]
        published == IF j.pem # Blank THEN t.key = Pems[j.pem].key
                     ELSE doc.readable /\ \E i \in DOMAIN doc.keys :
                             /\ doc.keys[i].key = t.key /\ doc.keys[i].use # "enc"
                             /\ doc.keys[i].sound
                             /\ t.kid \in {Blank, doc.keys[i].kid}
    IN /\ published /\ <<t.alg, t.kty>> \in {<<"RS256", "RSA">>, <<"PS256", "RSA">>, <<"ES256", "EC">>}
       /\ t.iss = j.issuer /\ \E a \in t.aud : a \in j.audience
       /\ t.expires /\ t.nbf <= now + L /\ now < t.exp + L

\* What comes in with a token is served as whom the issuer meant or not at all,
\* on every path, also one that asks for no token and one that is not there
\* (authn.go:124-127), and a token that has run out no longer counts.
TokensJudged ==
    OnApp /\ ~asked.preflight =>
        IF asked.token = NoToken \/ ~Uses("authenticate") THEN principal = Nobody
        ELSE IF Genuine(asked.token)
        THEN /\ principal.known
             /\ principal.scopes = (IF Names(asked.token.scope) # {} THEN Names(asked.token.scope)
                              ELSE Names(asked.token.scp))
        ELSE principal = Nobody /\ status = 401

\* The level changes only by a PUT that says a level, and on a guarded mount
\* only by who is genuine now and holds the scope; nothing that is answered with
\* an error has changed it (http-secure/main.go:83-86, actuator.go:243-251).
OperatorsOnly ==
    [][level' # level =>
          /\ asked.method = "PUT" /\ ~asked.preflight /\ status' = 200
          /\ level' = asked.body.level
          /\ service.operators /\ service.addr = Blank =>
                /\ asked.token # NoToken /\ Genuine(asked.token) /\ "actuator" \in principal.scopes
                /\ asked.from # None => OriginAllowed /\ "PUT" \in AllowedMethods(service.cors)]_accessVars

\* What the whitelist does not name answers 404 on either listener, what it
\* names twice is there once (actuator.go:46-48, 129-131); a probe needs no
\* token, everything else behind operators does.
WhitelistHolds ==
    LET named == \E i \in DOMAIN Expose(service) : asked.path \in Paths(Expose(service)[i])
        here == asked.port = IF service.addr = Blank THEN "app" ELSE "private"
        refusal == IF asked.port = "app" THEN {401, 204} ELSE {}
    IN /\ pc # "panicked"
       /\ pc = "answered" /\ asked.path # <<"orders">> =>
             /\ status = 404 => ~named \/ ~here
             /\ ~named \/ ~here => status \in {404} \cup refusal
             /\ named /\ here /\ IsProbe(asked.path) /\ asked.token = NoToken
                   /\ asked.method = "GET" /\ ~asked.preflight => status = 200
             /\ status = 200 /\ service.operators /\ service.addr = Blank /\ ~IsProbe(asked.path) =>
                   "actuator" \in principal.scopes

\* The endpoints serve what they may (WhitelistHolds) and the level is the
\* operators' (OperatorsOnly).
ActuatorGuarded == []WhitelistHolds /\ OperatorsOnly
=============================================================================
