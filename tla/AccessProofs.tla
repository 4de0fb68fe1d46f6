---------------------------- MODULE AccessProofs ----------------------------
(***************************************************************************)
(* Whatever the configurations, the key sets, the clients and the tokens:  *)
(* a mistaken configuration builds nothing, a page reads what its origin   *)
(* may, a token counts for whom the issuer meant, and the actuator serves  *)
(* what its whitelist names to whom it may.  At the end, what the proofs   *)
(* of Request, Telemetry and Access say of the three together.             *)
(***************************************************************************)
EXTENDS Http, RequestProofs, TelemetryProofs, FiniteSetTheorems, TLAPS

-----------------------------------------------------------------------------
(* The inductive invariant                                                  *)

\* What DefaultMiddleware comes after, and what it comes before.
BeforeServing == {"actuator.New", "web.New", "DefaultMiddleware", "refused"}
Inside == {"mux", "loglevel", "answered"}

Proper(q) ==
    /\ q.from \in Origin \cup {None} /\ q.port \in {"app", "private"}
    /\ q.credentialed \in BOOLEAN /\ q.preflight \in BOOLEAN
    /\ q.token # NoToken =>
          /\ q.token.exp \in Nat /\ q.token.nbf \in Nat
          /\ \A d \in DOMAIN Documents : \A i \in DOMAIN Documents[d].keys :
                Documents[d].keys[i].key = q.token.key => Documents[d].keys[i].kty = q.token.kty

AccessTypes ==
    /\ service \in Services
    /\ pc \in Building \cup Serving \cup {"refused"}
    /\ ToSet(mw) \subseteq {"headers", "cors", "authenticate"}
    /\ level \in Levels /\ now \in 0..Horizon
    /\ asked = Idle \/ asked \in service.clients
    /\ head.allow \in Origin \cup {None}
    /\ status \in {0, 200, 204, 400, 401, 403, 404, 405}

Authenticates == Uses("authenticate")
AddsCors == Uses("cors")

\* The errors run gives up at.
BuildErrs(s) ==
    \/ ~Validates(s)
    \/ Cardinality(s.tls) = 1
    \/ CorsErrs(s.cors)
    \/ ~IsZero(s.jwt) /\ AuthenticateErrs(s.jwt)

\* What has been built was built without an error, from the sections.
Assembled ==
    /\ pc \notin {"actuator.New", "refused"} => Validates(service)
    /\ pc \notin {"actuator.New", "web.New", "refused"} => Cardinality(service.tls) # 1
    /\ pc \notin BeforeServing =>
          /\ ~CorsErrs(service.cors) /\ (IsZero(service.jwt) \/ ~AuthenticateErrs(service.jwt))
          /\ AddsCors <=> HasCors(service)
          /\ Authenticates <=> ~IsZero(service.jwt)
    /\ pc = "refused" => BuildErrs(service)

\* The keys are those of the one source there is.
Published ==
    /\ pc \in BeforeServing => keys = NoKeys
    /\ pc \notin BeforeServing /\ ~IsZero(service.jwt) =>
          /\ service.jwt.file # Blank => keys = ParseJWKS(Documents[service.jwt.file])
          /\ service.jwt.pem # Blank => keys = [kid \in {Blank} |-> {Pems[service.jwt.pem].key}]
          /\ service.jwt.url # Blank => keys \in {NoKeys, ParseJWKS(Documents["issuer"])}

\* The routes are those of the part of the whitelist that is mounted.
Mounts ==
    /\ mounted \in 0..Len(Expose(service))
    /\ pc \in BeforeServing => mounted = 0
    /\ pc \in Serving => mounted = Len(Expose(service))
    /\ DOMAIN routes = UNION {Paths(Expose(service)[i]) : i \in 1..mounted}
    /\ \A p \in DOMAIN routes :
          /\ routes[p] \in [name : Endpoint, guarded : BOOLEAN]
          /\ p \in Paths(routes[p].name) /\ routes[p].guarded = Guards(service, p)

\* What CORS says to a request from there.
NamesOrigin(c, from) == Wildcard(c) \/ from \in c.origins
HeadFor(s, from, preflight) ==
    LET c == s.cors
        allow == [Vary EXCEPT !.allow = from, !.credentials = c.credentials]
    IN IF ~HasCors(s) THEN NoHead
       ELSE IF from = None \/ ~NamesOrigin(c, from) THEN Vary
       ELSE IF preflight
       THEN [allow EXCEPT !.methods = AllowedMethods(c), !.headers = AllowedHeaders(c)]
       ELSE [allow EXCEPT !.exposed = {"X-Request-Id"} \cup c.exposed]

\* A request on its way has the head of its origin, from the middleware or from
\* the cache, and only one to the application's listener has one.
Heads ==
    /\ pc \in {"cache", "in"} => head = NoHead
    /\ pc \in {"cache", "in", "authenticate"} => principal = Nobody /\ asked.port = "app"
    /\ pc = "cache" => Cacheable(asked)
    /\ pc = "authenticate" \/ (pc \in Inside /\ asked.port = "app") =>
          head = HeadFor(service, asked.from, asked.preflight)
    /\ pc \in {"authenticate", "mux", "loglevel"} /\ asked.port = "app" =>
          ~(HasCors(service) /\ asked.preflight)
    /\ pc \in Inside /\ asked.port # "app" => head = NoHead /\ principal = Nobody

\* What the cache has stored is for everybody of its origin.
Open(path) ==
    /\ path \in DOMAIN routes /\ service.addr = Blank
    /\ ~routes[path].guarded /\ Takes(path, "GET")
Stored ==
    /\ pc \in Building => cache = {}
    /\ \A e \in cache : /\ e.head = HeadFor(service, e.from, FALSE)
                        /\ e.path = <<"orders">> \/ Open(e.path)

\* What browsers remember was granted by the section.
Granting(c) ==
    {<<"method", m>> : m \in AllowedMethods(c)} \cup {<<"header", h>> : h \in AllowedHeaders(c)}
MayArrive == MaySend(asked)
Granted ==
    /\ MayArrive
    /\ \A g \in granted :
          /\ g.from \in Origin /\ NamesOrigin(service.cors, g.from)
          /\ g.credentialed => service.cors.credentials
          /\ \A n \in g.what : n \in Granting(service.cors)

\* The principal is whom the token is of.
Judges == Authenticates /\ Bearer # NoToken
GenuineNow == Genuine(asked.token)
Known == GenuineNow /\ principal = PrincipalOf(asked.token)
Judged ==
    asked.port = "app" =>
        /\ pc \in Inside /\ ~Judges => principal = Nobody
        /\ pc \in {"mux", "loglevel"} /\ Judges => Known
        /\ pc = "answered" /\ Judges =>
              Known \/ (~GenuineNow /\ principal = Nobody /\ status = 401)

\* How the mux came to its answer.
Taken == Found /\ Takes(asked.path, Method)
RefusedHere == Refused(routes[asked.path])
MuxRouted ==
    /\ pc = "loglevel" => Taken /\ ~RefusedHere /\ routes[asked.path].name = "loglevel"
    /\ pc = "answered" =>
          \/ asked.path = <<"orders">>
          \/ asked.port = "app" /\ status = 204 /\ asked.preflight
          \/ asked.port = "app" /\ status = 401 /\ Bearer # NoToken
          \/ ~Found /\ status = 404
          \/ Found /\ ~Taken /\ status = 405
          \/ Taken /\ RefusedHere /\ status \in {401, 403}
          \/ /\ Taken /\ ~RefusedHere /\ status # 404
             /\ status = 200 \/ routes[asked.path].name = "loglevel"

AccessInv ==
    /\ AccessTypes /\ Assembled /\ Published /\ Mounts /\ Heads /\ Stored /\ Granted
    /\ Judged /\ MuxRouted

-----------------------------------------------------------------------------
(* The operators                                                            *)

\* No path of an endpoint is another's, and none is the service's own.
NameOf(p) == IF p[1] = "actuator" THEN p[2] ELSE p[1]

\* A path belongs to one endpoint, and the service's own to none.
LEMMA PathsApart ==
    ASSUME NEW n \in Endpoint, NEW p \in Paths(n)
    PROVE  NameOf(p) = n /\ p # <<"orders">>
<1>1. CASE n \in {"livez", "readyz"}
  <2>1. p \in {<<n>>, <<"actuator", n>>}
    BY <1>1 DEF Paths
  <2>2. CASE p = <<n>>
    BY <2>2, <1>1 DEF NameOf
  <2>3. CASE p = <<"actuator", n>>
    BY <2>3, <1>1 DEF NameOf
  <2> QED BY <2>1, <2>2, <2>3
<1>2. CASE n = "pprof"
  <2>1. p \in {<<"actuator", n>>, <<"actuator", n, "symbol">>}
    BY <1>2 DEF Paths
  <2>2. CASE p = <<"actuator", n>>
    BY <2>2, <1>2 DEF NameOf
  <2>3. CASE p = <<"actuator", n, "symbol">>
    BY <2>3, <1>2 DEF NameOf
  <2> QED BY <2>1, <2>2, <2>3
<1>3. CASE n \in {"info", "metrics", "loglevel"}
  <2>1. p = <<"actuator", n>>
    BY <1>3 DEF Paths
  <2> QED BY <2>1, <1>3 DEF NameOf
<1> QED BY <1>1, <1>2, <1>3 DEF Endpoint

\* A subset of three things has one of them when it is one of the singletons.
LEMMA OneOfThree ==
    ASSUME NEW x, NEW y, NEW z, NEW S, S \subseteq {x, y, z}
    PROVE  Cardinality(S) = 1 <=> S \in {{x}, {y}, {z}}
<1>1. IsFiniteSet(({x} \cup {y}) \cup {z})
  <2>1. IsFiniteSet({x})
    BY FS_Singleton
  <2>2. IsFiniteSet({x} \cup {y})
    BY <2>1, FS_AddElement
  <2> QED BY <2>2, FS_AddElement
<1>2. S \subseteq ({x} \cup {y}) \cup {z}
  OBVIOUS
<1>3. IsFiniteSet(S)
  BY <1>1, <1>2, FS_Subset
<1>4. Cardinality(S) = 1 <=> \E w : S = {w}
  BY <1>3, FS_Singleton
<1>5. ASSUME NEW w, S = {w} PROVE w \in {x, y, z}
  BY <1>5
<1> QED BY <1>4, <1>5

\* A TLS pair is whole or absent.
LEMMA PairIs ==
    ASSUME NEW S, S \subseteq {"cert", "key"}
    PROVE  Cardinality(S) # 1 <=> S \in {{}, {"cert", "key"}}
<1>1. Cardinality(S) = 1 <=> S \in {{"cert"}, {"key"}}
  <2>1. S \subseteq {"cert", "key", "key"}
    OBVIOUS
  <2>2. Cardinality(S) = 1 <=> S \in {{"cert"}, {"key"}, {"key"}}
    BY <2>1, OneOfThree
  <2> QED BY <2>2
<1>2. S \in {{}, {"cert"}, {"key"}, {"cert", "key"}}
  <2>1. CASE "cert" \in S /\ "key" \in S
    BY <2>1
  <2>2. CASE "cert" \in S /\ "key" \notin S
    <3>1. S = {"cert"}
      BY <2>2
    <3> QED BY <3>1
  <2>3. CASE "cert" \notin S /\ "key" \in S
    <3>1. S = {"key"}
      BY <2>3
    <3> QED BY <3>1
  <2>4. CASE "cert" \notin S /\ "key" \notin S
    BY <2>4
  <2> QED BY <2>1, <2>2, <2>3, <2>4
<1>3. S \in {{"cert"}, {"key"}} <=> S \notin {{}, {"cert", "key"}}
  <2>1. "cert" # "key"
    OBVIOUS
  <2>2. CASE S = {}
    BY <2>2
  <2>3. CASE S = {"cert"}
    BY <2>1, <2>3
  <2>4. CASE S = {"key"}
    BY <2>1, <2>4
  <2>5. CASE S = {"cert", "key"}
    BY <2>1, <2>5
  <2> QED BY <1>2, <2>2, <2>3, <2>4, <2>5
<1> QED BY <1>1, <1>3

\* Exactly one of the three sources.
LEMMA SourcesAre ==
    ASSUME NEW j
    PROVE  /\ Cardinality(Sources(j)) = 1 <=> Sources(j) \in {{"url"}, {"file"}, {"pem"}}
           /\ "url" \in Sources(j) <=> j.url # Blank
           /\ "file" \in Sources(j) <=> j.file # Blank
           /\ "pem" \in Sources(j) <=> j.pem # Blank
           /\ Sources(j) \subseteq {"url", "file", "pem"}
<1>1. Sources(j) \subseteq {"url", "file", "pem"}
  BY DEF Sources
<1>2. Cardinality(Sources(j)) = 1 <=> Sources(j) \in {{"url"}, {"file"}, {"pem"}}
  BY <1>1, OneOfThree
<1>5. /\ "url" \in Sources(j) <=> j.url # Blank
      /\ "file" \in Sources(j) <=> j.file # Blank
      /\ "pem" \in Sources(j) <=> j.pem # Blank
  BY DEF Sources
<1> QED BY <1>1, <1>2, <1>5

\* What parseJWKS keeps: the usable keys, under their kid.
LEMMA UsableAre ==
    ASSUME NEW doc, NEW k
    PROVE  k \in UsableOf(doc) <=>
               doc.readable /\ \E i \in DOMAIN doc.keys : k = doc.keys[i] /\ Usable(k)
  BY DEF UsableOf, ToSet

\* What parseJWKS returns: the kids of the usable keys,
LEMMA ParsedKids ==
    ASSUME NEW doc
    PROVE  DOMAIN ParseJWKS(doc) = {k.kid : k \in UsableOf(doc)}
  BY DEF ParseJWKS

\* under each kid every usable key that has it,
LEMMA ParsedKeys ==
    ASSUME NEW doc, NEW kid \in DOMAIN ParseJWKS(doc), NEW key
    PROVE  key \in ParseJWKS(doc)[kid] <=> \E k \in UsableOf(doc) : k.kid = kid /\ k.key = key
<1>1. ParseJWKS(doc)[kid] = {k.key : k \in {u \in UsableOf(doc) : u.kid = kid}}
  BY DEF ParseJWKS
<1> QED BY <1>1

\* and nothing only where no key is usable.
LEMMA ParsedNone ==
    ASSUME NEW doc
    PROVE  ParseJWKS(doc) = NoKeys <=> UsableOf(doc) = {}
<1>1. ASSUME ParseJWKS(doc) = NoKeys PROVE UsableOf(doc) = {}
  <2>1. DOMAIN NoKeys = {}
    BY DEF NoKeys
  <2>2. {k.kid : k \in UsableOf(doc)} = {}
    BY <1>1, <2>1, ParsedKids
  <2> QED BY <2>2
<1>2. ASSUME UsableOf(doc) = {} PROVE ParseJWKS(doc) = NoKeys
  <2>1. {k.kid : k \in UsableOf(doc)} = {}
    BY <1>2
  <2> QED BY <2>1 DEF ParseJWKS, NoKeys
<1> QED BY <1>1, <1>2

\* The keys a token is tried with, of a parsed set and of a PEM file.
LEMMA CandidatesParsed ==
    ASSUME NEW j, NEW t, NEW doc, j.pem = Blank, keys = ParseJWKS(doc)
    PROVE  t.key \in Candidates(j, t) <=>
               \E k \in UsableOf(doc) : k.key = t.key /\ t.kid \in {Blank, k.kid}
<1>1. CASE t.kid = Blank
  <2>1. Candidates(j, t) = UNION {keys[k] : k \in DOMAIN keys}
    BY <1>1 DEF Candidates
  <2>2. t.key \in Candidates(j, t) <=> \E kid \in DOMAIN keys : t.key \in keys[kid]
    BY <2>1
  <2>3. \A k \in UsableOf(doc) : k.kid \in DOMAIN keys
    BY ParsedKids
  <2> QED BY <1>1, <2>2, <2>3, ParsedKeys
<1>2. CASE t.kid # Blank /\ t.kid \in DOMAIN keys
  <2>1. Candidates(j, t) = keys[t.kid]
    BY <1>2 DEF Candidates
  <2>2. t.key \in keys[t.kid] <=> \E k \in UsableOf(doc) : k.kid = t.kid /\ k.key = t.key
    BY <1>2, ParsedKeys
  <2>3. \A k : t.kid \in {Blank, k.kid} <=> k.kid = t.kid
    BY <1>2
  <2> QED BY <2>1, <2>2, <2>3
<1>3. CASE t.kid # Blank /\ t.kid \notin DOMAIN keys
  <2>1. Candidates(j, t) = {}
    BY <1>3 DEF Candidates
  <2>2. \A k \in UsableOf(doc) : k.kid # t.kid
    BY <1>3, ParsedKids
  <2> QED BY <1>3, <2>1, <2>2
<1> QED BY <1>1, <1>2, <1>3

\* A key from a PEM is tried whatever kid a token names.
LEMMA CandidatesPem ==
    ASSUME NEW j, NEW t, NEW key, j.pem # Blank, keys = [kid \in {Blank} |-> {key}]
    PROVE  Candidates(j, t) = {key}
<1>1. Candidates(j, t) = UNION {keys[k] : k \in DOMAIN keys}
  BY DEF Candidates
<1>2. DOMAIN keys = {Blank} /\ keys[Blank] = {key}
  OBVIOUS
<1> QED BY <1>1, <1>2

\* Of the uses a JWK may have, those rsaKey and ecKey take.
LEMMA UsableIs ==
    ASSUME ServicesWellFormed, NEW d \in DOMAIN Documents, NEW i \in DOMAIN Documents[d].keys
    PROVE  LET k == Documents[d].keys[i]
           IN Usable(k) <=> k.use # "enc" /\ k.kty # "OKP" /\ k.sound
<1> DEFINE k == Documents[d].keys[i]
<1>1. k.use \in {Blank, "sig", "enc"} /\ k.kty \in {"RSA", "EC", "OKP"} /\ k.sound \in BOOLEAN
  BY DEF ServicesWellFormed
<1>2. Blank # "enc"
  BY Zenon DEF Blank
<1>3. k.use \in {Blank, "sig"} <=> k.use # "enc"
  BY <1>1, <1>2
<1>4. k.kty \in {"RSA", "EC"} <=> k.kty # "OKP"
  BY <1>1
<1> QED BY <1>3, <1>4 DEF Usable

-----------------------------------------------------------------------------
(* The sections                                                             *)

\* A jwt section that names one readable source of keys it can trust.
Trusted(j) ==
    \/ Sources(j) = {"url"} /\ j.url \in {"https", "loopback"}
    \/ /\ Sources(j) = {"file"} /\ Documents[j.file].readable
       /\ \E i \in DOMAIN Documents[j.file].keys :
             LET k == Documents[j.file].keys[i] IN k.use # "enc" /\ k.kty # "OKP" /\ k.sound
    \/ Sources(j) = {"pem"} /\ ReadsPem(Pems[j.pem])

\* keysFor succeeds on the sources WholeOrRefused calls trusted.
LEMMA KeysForIs ==
    ASSUME ServicesWellFormed, NEW s \in Services
    PROVE  KeysFor(s.jwt) <=> Trusted(s.jwt)
<1> DEFINE j == s.jwt
<1> DEFINE doc == Documents[j.file]
<1>1. /\ j.file # Blank => j.file \in DOMAIN Documents
      /\ j.pem # Blank => j.pem \in DOMAIN Pems
  BY DEF ServicesWellFormed
<1>2. ASSUME j.file # Blank
      PROVE  ParseJWKS(doc) # NoKeys <=>
                 doc.readable /\ \E i \in DOMAIN doc.keys :
                     doc.keys[i].use # "enc" /\ doc.keys[i].kty # "OKP" /\ doc.keys[i].sound
  <2>1. UsableOf(doc) # {} <=> doc.readable /\ \E i \in DOMAIN doc.keys : Usable(doc.keys[i])
    BY UsableAre
  <2>2. \A i \in DOMAIN doc.keys :
            Usable(doc.keys[i]) <=>
                doc.keys[i].use # "enc" /\ doc.keys[i].kty # "OKP" /\ doc.keys[i].sound
    BY <1>1, <1>2, UsableIs
  <2> QED BY <2>1, <2>2, ParsedNone
<1>3. CASE Cardinality(Sources(j)) # 1
  <2>1. Sources(j) \notin {{"url"}, {"file"}, {"pem"}}
    BY <1>3, SourcesAre
  <2> QED BY <1>3, <2>1 DEF KeysFor, Trusted
<1>4. CASE Sources(j) = {"url"}
  <2>1. j.url # Blank /\ j.file = Blank /\ j.pem = Blank /\ Cardinality(Sources(j)) = 1
    BY <1>4, SourcesAre
  <2>2. Sources(j) # {"file"} /\ Sources(j) # {"pem"}
    BY <1>4
  <2> QED BY <1>4, <2>1, <2>2 DEF KeysFor, Trusted
<1>5. CASE Sources(j) = {"file"}
  <2>1. j.url = Blank /\ j.file # Blank /\ j.pem = Blank /\ Cardinality(Sources(j)) = 1
    BY <1>5, SourcesAre
  <2>2. Sources(j) # {"url"} /\ Sources(j) # {"pem"}
    BY <1>5
  <2>3. KeysFor(j) <=> ParseJWKS(doc) # NoKeys
    BY <2>1 DEF KeysFor
  <2> QED BY <1>2, <1>5, <2>1, <2>2, <2>3 DEF Trusted
<1>6. CASE Sources(j) = {"pem"}
  <2>1. j.url = Blank /\ j.file = Blank /\ j.pem # Blank /\ Cardinality(Sources(j)) = 1
    BY <1>6, SourcesAre
  <2>2. Sources(j) # {"url"} /\ Sources(j) # {"file"}
    BY <1>6
  <2> QED BY <1>6, <2>1, <2>2 DEF KeysFor, Trusted
<1>7. Cardinality(Sources(j)) = 1 => Sources(j) \in {{"url"}, {"file"}, {"pem"}}
  BY SourcesAre
<1> QED BY <1>3, <1>4, <1>5, <1>6, <1>7

\* One source at a time, of a section that DefaultMiddleware takes.
LEMMA OneSource ==
    ASSUME NEW j, KeysFor(j)
    PROVE  \/ j.url # Blank /\ j.file = Blank /\ j.pem = Blank
           \/ j.url = Blank /\ j.file # Blank /\ j.pem = Blank
           \/ j.url = Blank /\ j.file = Blank /\ j.pem # Blank
<1>1. Sources(j) \in {{"url"}, {"file"}, {"pem"}}
  BY SourcesAre DEF KeysFor
<1>2. CASE Sources(j) = {"url"}
  BY <1>2, SourcesAre
<1>3. CASE Sources(j) = {"file"}
  BY <1>3, SourcesAre
<1>4. CASE Sources(j) = {"pem"}
  BY <1>4, SourcesAre
<1> QED BY <1>1, <1>2, <1>3, <1>4

\* What the whole of a configuration is when it has no mistake.
Faultless(s) ==
    LET j == s.jwt
    IN /\ s.tls \in {{}, {"cert", "key"}}
       /\ \A i \in DOMAIN s.expose : s.expose[i] \in Endpoint
       /\ s.cors.credentials => s.cors.origins # {} /\ "*" \notin s.cors.origins
       /\ j.issuer # Blank \/ j.audience # {} \/ j.leeway # 0 \/ Sources(j) # {} =>
             j.issuer # Blank /\ j.audience # {} /\ Blank \notin j.audience /\ Trusted(j)

\* validate accepts the whitelists of known endpoints.
LEMMA ValidatesIs ==
    ASSUME ServicesWellFormed, NEW s \in Services
    PROVE  Validates(s) <=> \A i \in DOMAIN s.expose : s.expose[i] \in Endpoint
<1>1. s.expose \in Seq(STRING)
  BY DEF ServicesWellFormed
<1>2. CASE s.expose = <<>>
  <2>1. Expose(s) = <<"livez", "readyz", "info">>
    BY <1>2 DEF Expose
  <2>2. \A i \in DOMAIN Expose(s) : Expose(s)[i] \in {"livez", "readyz", "info"}
    BY <2>1
  <2>3. DOMAIN s.expose = {}
    BY <1>2
  <2> QED BY <2>2, <2>3 DEF Validates, ToSet, Endpoint
<1>3. CASE s.expose # <<>>
  <2>1. Expose(s) = s.expose
    BY <1>3 DEF Expose
  <2> QED BY <2>1 DEF Validates, ToSet
<1> QED BY <1>2, <1>3

\* run gives up exactly at what WholeOrRefused calls a mistake.
LEMMA FaultlessIs ==
    ASSUME ServicesWellFormed, NEW s \in Services
    PROVE  ~BuildErrs(s) <=> Faultless(s)
<1> DEFINE j == s.jwt
<1>1. Validates(s) <=> \A i \in DOMAIN s.expose : s.expose[i] \in Endpoint
  BY ValidatesIs
<1>2. Cardinality(s.tls) # 1 <=> s.tls \in {{}, {"cert", "key"}}
  <2>1. s.tls \subseteq {"cert", "key"}
    BY DEF ServicesWellFormed
  <2> QED BY <2>1, PairIs
<1>3. ~CorsErrs(s.cors) <=>
          (s.cors.credentials => s.cors.origins # {} /\ "*" \notin s.cors.origins)
  <2>1. s.cors.credentials \in BOOLEAN
    BY DEF ServicesWellFormed
  <2> QED BY <2>1 DEF CorsErrs, Wildcard
<1>4. ~IsZero(j) <=> j.issuer # Blank \/ j.audience # {} \/ j.leeway # 0 \/ Sources(j) # {}
  <2>1. Sources(j) # {} <=> j.url # Blank \/ j.file # Blank \/ j.pem # Blank
    <3>1. Sources(j) # {} <=> "url" \in Sources(j) \/ "file" \in Sources(j) \/ "pem" \in Sources(j)
      BY SourcesAre
    <3> QED BY <3>1, SourcesAre
  <2> QED BY <2>1 DEF IsZero
<1>5. ~AuthenticateErrs(j) <=>
          j.issuer # Blank /\ j.audience # {} /\ Blank \notin j.audience /\ Trusted(j)
  BY KeysForIs DEF AuthenticateErrs
<1> QED BY <1>1, <1>2, <1>3, <1>4, <1>5 DEF BuildErrs, Faultless

-----------------------------------------------------------------------------
(* Tokens                                                                   *)

\* The kid of a token and the keys the issuer publishes, as Genuine has it.
PublishedIn(doc, t) ==
    doc.readable /\ \E i \in DOMAIN doc.keys :
        /\ doc.keys[i].key = t.key /\ doc.keys[i].use # "enc" /\ doc.keys[i].sound
        /\ t.kid \in {Blank, doc.keys[i].kid}

\* A usable key is one the issuer's document has for signing.
LEMMA PublishedIs ==
    ASSUME ServicesWellFormed, Proper(asked), asked.token # NoToken, asked.token.kty \in {"RSA", "EC"},
           NEW d \in DOMAIN Documents
    PROVE  LET t == asked.token
           IN (\E k \in UsableOf(Documents[d]) : k.key = t.key /\ t.kid \in {Blank, k.kid})
                  <=> PublishedIn(Documents[d], t)
<1> DEFINE t == asked.token
<1> DEFINE doc == Documents[d]
<1>1. ASSUME NEW i \in DOMAIN doc.keys, doc.keys[i].key = t.key
      PROVE  Usable(doc.keys[i]) <=> doc.keys[i].use # "enc" /\ doc.keys[i].sound
  <2>1. doc.keys[i].kty = t.kty
    BY <1>1 DEF Proper
  <2>2. doc.keys[i].kty # "OKP"
    BY <2>1
  <2> QED BY <2>2, UsableIs
<1> QED BY <1>1, UsableAre DEF PublishedIn

\* The document whose keys count, of a service that has one.
DocOf(j) == IF j.url # Blank THEN "issuer" ELSE j.file

\* Where the keys are in a document, there is that document.
LEMMA DocIs ==
    ASSUME ServicesWellFormed, service \in Services, KeysFor(service.jwt), service.jwt.pem = Blank
    PROVE  DocOf(service.jwt) \in DOMAIN Documents
<1>1. /\ service.jwt.file \in DOMAIN Documents \cup {Blank}
      /\ "issuer" \in DOMAIN Documents
  BY DEF ServicesWellFormed
<1> QED BY <1>1, OneSource DEF DocOf

Paired(t) == <<t.alg, t.kty>> \in {<<"RS256", "RSA">>, <<"PS256", "RSA">>, <<"ES256", "EC">>}
Timely(j, t) ==
    LET L == IF j.leeway = 0 THEN 1 ELSE j.leeway
    IN t.expires /\ t.nbf <= now + L /\ now < t.exp + L

\* Genuine, with its parts named.
LEMMA GenuineIs ==
    ASSUME NEW t
    PROVE  LET j == service.jwt
           IN Genuine(t) <=>
                 /\ IF j.pem # Blank THEN t.key = Pems[j.pem].key
                    ELSE PublishedIn(Documents[DocOf(j)], t)
                 /\ Paired(t)
                 /\ t.iss = j.issuer /\ \E a \in t.aud : a \in j.audience
                 /\ Timely(j, t)
  BY DEF Genuine, PublishedIn, DocOf, Paired, Timely

\* The table of algorithms is what a key's type allows.
LEMMA PairedIs ==
    ASSUME NEW t
    PROVE  /\ t.alg \in DOMAIN AllowedAlgs /\ t.kty = AllowedAlgs[t.alg] <=> Paired(t)
           /\ Paired(t) => t.kty \in {"RSA", "EC"}
  BY DEF AllowedAlgs, Paired

\* The code's comparison of times is the one Genuine makes.
LEMMA TimelyIs ==
    ASSUME ServicesWellFormed, service \in Services, Proper(asked), asked.token # NoToken, now \in Nat
    PROVE  InTime(service.jwt, asked.token) <=> Timely(service.jwt, asked.token)
<1> DEFINE j == service.jwt
<1> DEFINE t == asked.token
<1>1. t.exp \in Nat /\ t.nbf \in Nat
  BY DEF Proper
<1>2. j.leeway \in Nat
  BY DEF ServicesWellFormed
<1>3. Leeway(j) = (IF j.leeway = 0 THEN 1 ELSE j.leeway) /\ Leeway(j) \in Nat
  BY <1>2 DEF Leeway
<1>4. now + Leeway(j) >= t.nbf <=> t.nbf <= now + Leeway(j)
  BY <1>1, <1>3
<1> QED BY <1>3, <1>4 DEF InTime, Timely

\* The keys the middleware has are those of its one source, once it has any.
Loaded(j) ==
    /\ j.file # Blank => keys = ParseJWKS(Documents[j.file])
    /\ j.pem # Blank => keys = [kid \in {Blank} |-> {Pems[j.pem].key}]
    /\ j.url # Blank => keys = ParseJWKS(Documents["issuer"])

\* What the middleware verifies is what is genuine.
LEMMA VerifiedIs ==
    ASSUME ServicesWellFormed, service \in Services, Proper(asked), asked.token # NoToken, now \in Nat,
           KeysFor(service.jwt), Loaded(service.jwt)
    PROVE  Verifies(service.jwt, asked.token) <=> GenuineNow
<1> DEFINE j == service.jwt
<1> DEFINE t == asked.token
<1>1. ASSUME Paired(t)
      PROVE  t.key \in Candidates(j, t) <=>
                 IF j.pem # Blank THEN t.key = Pems[j.pem].key
                 ELSE PublishedIn(Documents[DocOf(j)], t)
  <2>1. CASE j.pem # Blank
    <3>1. Candidates(j, t) = {Pems[j.pem].key}
      BY <2>1, CandidatesPem DEF Loaded
    <3> QED BY <2>1, <3>1
  <2>2. CASE j.pem = Blank
    <3>1. keys = ParseJWKS(Documents[DocOf(j)])
      BY <2>2, OneSource DEF Loaded, DocOf
    <3>2. t.key \in Candidates(j, t) <=>
              \E k \in UsableOf(Documents[DocOf(j)]) : k.key = t.key /\ t.kid \in {Blank, k.kid}
      BY <2>2, <3>1, CandidatesParsed
    <3>3. t.kty \in {"RSA", "EC"}
      BY <1>1, PairedIs
    <3> QED BY <2>2, <3>2, <3>3, DocIs, PublishedIs
  <2> QED BY <2>1, <2>2
<1>2. Signed(j, t) <=> t.key \in Candidates(j, t) /\ Paired(t)
  BY PairedIs DEF Signed
<1>3. t.aud \cap j.audience # {} <=> \E a \in t.aud : a \in j.audience
  OBVIOUS
<1>4. InTime(j, t) <=> Timely(j, t)
  BY TimelyIs
<1> QED BY <1>1, <1>2, <1>3, <1>4, GenuineIs DEF Verifies, GenuineNow

\* With nothing usable at the issuer, nothing is genuine.
LEMMA NoneGenuine ==
    ASSUME ServicesWellFormed, service \in Services, Proper(asked), asked.token # NoToken,
           KeysFor(service.jwt), service.jwt.url # Blank, ParseJWKS(Documents["issuer"]) = NoKeys
    PROVE  ~GenuineNow
<1> DEFINE t == asked.token
<1>1. service.jwt.pem = Blank /\ DocOf(service.jwt) = "issuer" /\ "issuer" \in DOMAIN Documents
  BY OneSource DEF DocOf, ServicesWellFormed
<1>2. SUFFICES ASSUME PublishedIn(Documents["issuer"], t), Paired(t) PROVE FALSE
  BY <1>1, GenuineIs DEF GenuineNow
<1>3. t.kty \in {"RSA", "EC"}
  BY <1>2, PairedIs
<1>4. \E k \in UsableOf(Documents["issuer"]) : k.key = t.key /\ t.kid \in {Blank, k.kid}
  BY <1>1, <1>2, <1>3, PublishedIs
<1> QED BY <1>4, ParsedNone

-----------------------------------------------------------------------------
(* Heads                                                                    *)

Allows(s, from) == HasCors(s) /\ from # None /\ NamesOrigin(s.cors, from)

\* What CORS says where it grants nothing.
LEMMA PlainHead ==
    /\ NoHead.allow = None /\ NoHead.methods = {} /\ ~NoHead.vary
    /\ Vary.allow = None /\ Vary.methods = {} /\ Vary.vary
  BY DEF NoHead, Vary

\* What CORS grants an origin that is listed,
LEMMA AllowedHead ==
    ASSUME NEW s, NEW from, NEW preflight, Allows(s, from)
    PROVE  LET h == HeadFor(s, from, preflight)
           IN /\ h.allow = from /\ h.credentials = s.cors.credentials /\ h.vary
              /\ preflight => /\ h.methods = AllowedMethods(s.cors)
                              /\ h.headers = AllowedHeaders(s.cors)
              /\ ~preflight => "X-Request-Id" \in h.exposed /\ h.methods = {}
<1> DEFINE allow == [Vary EXCEPT !.allow = from, !.credentials = s.cors.credentials]
<1>1. DOMAIN allow = {"allow", "credentials", "methods", "headers", "exposed", "vary"}
  BY DEF Vary, NoHead
<1>4. allow.allow = from /\ allow.credentials = s.cors.credentials /\ allow.methods = {}
  BY DEF Vary, NoHead
<1>5. allow.vary
  BY DEF Vary, NoHead
<1>2. CASE preflight
  <2>1. HeadFor(s, from, preflight) =
            [allow EXCEPT !.methods = AllowedMethods(s.cors), !.headers = AllowedHeaders(s.cors)]
    BY <1>2 DEF HeadFor, Allows
  <2> QED BY <1>1, <1>4, <1>5, <1>2, <2>1
<1>3. CASE ~preflight
  <2>1. HeadFor(s, from, preflight) =
            [allow EXCEPT !.exposed = {"X-Request-Id"} \cup s.cors.exposed]
    BY <1>3 DEF HeadFor, Allows
  <2> QED BY <1>1, <1>4, <1>5, <1>3, <2>1
<1> QED BY <1>2, <1>3

\* and any other.
LEMMA OtherHead ==
    ASSUME NEW s, NEW from, NEW preflight, ~Allows(s, from)
    PROVE  LET h == HeadFor(s, from, preflight)
           IN h.allow = None /\ h.methods = {} /\ (h.vary <=> HasCors(s))
<1>1. HeadFor(s, from, preflight) = IF HasCors(s) THEN Vary ELSE NoHead
  BY DEF HeadFor, Allows
<1> QED BY <1>1, PlainHead

\* A head that does not vary is the same for everybody.
LEMMA SameHead ==
    ASSUME NEW s, NEW from, NEW other, NEW preflight,
           HeadFor(s, from, preflight).vary => from = other
    PROVE  HeadFor(s, from, preflight) = HeadFor(s, other, preflight)
<1>1. CASE HasCors(s)
  <2>1. HeadFor(s, from, preflight).vary
    BY <1>1, AllowedHead, OtherHead
  <2> QED BY <2>1
<1>2. CASE ~HasCors(s)
  BY <1>2 DEF HeadFor
<1> QED BY <1>1, <1>2

\* What the middleware writes is a function of the origin and the kind of request.
LEMMA CorsHeadIs == HasCors(service) => CorsHead = HeadFor(service, asked.from, asked.preflight)
  BY DEF CorsHead, HeadFor, OriginAllowed, NamesOrigin

\* CORS allows the origin that asks, or none.
LEMMA HeadAllows ==
    ASSUME NEW s, NEW from \in Origin \cup {None}, NEW preflight
    PROVE  HeadFor(s, from, preflight).allow \in {from, None}
  BY AllowedHead, OtherHead

-----------------------------------------------------------------------------
(* Steps                                                                    *)

\* What is asked is one of the client's requests, or none yet.
LEMMA AskedProper ==
    ASSUME ServicesWellFormed, AccessTypes
    PROVE  Proper(asked)
<1>1. Proper(Idle)
  <2>1. /\ Idle.from = None /\ Idle.port = "app" /\ Idle.token = NoToken
        /\ Idle.credentialed \in BOOLEAN /\ Idle.preflight \in BOOLEAN
    BY DEF Idle, Ask
  <2> QED BY <2>1 DEF Proper
<1>2. \A q \in service.clients : Proper(q)
  BY DEF AccessTypes, ServicesWellFormed, Proper
<1> QED BY <1>1, <1>2 DEF AccessTypes

\* The slice DefaultMiddleware returns.
LEMMA Appended ==
    ASSUME NEW S, NEW s \in Seq(S), NEW t \in Seq(S)
    PROVE  s \o t \in Seq(S) /\ ToSet(s \o t) = ToSet(s) \cup ToSet(t)
<1>1. \A i \in DOMAIN (s \o t) : (s \o t)[i] \in ToSet(s) \cup ToSet(t)
  <2>1. ASSUME NEW i \in DOMAIN (s \o t) PROVE (s \o t)[i] \in ToSet(s) \cup ToSet(t)
    <3>1. CASE i <= Len(s)
      <4>1. i \in DOMAIN s /\ (s \o t)[i] = s[i]
        BY <3>1
      <4> QED BY <4>1 DEF ToSet
    <3>2. CASE i > Len(s)
      <4>1. i - Len(s) \in DOMAIN t /\ (s \o t)[i] = t[i - Len(s)]
        BY <3>2
      <4> QED BY <4>1 DEF ToSet
    <3> QED BY <3>1, <3>2
  <2> QED BY <2>1
<1>2. \A i \in DOMAIN s : s[i] = (s \o t)[i] /\ i \in DOMAIN (s \o t)
  OBVIOUS
<1>3. \A i \in DOMAIN t : t[i] = (s \o t)[i + Len(s)] /\ i + Len(s) \in DOMAIN (s \o t)
  OBVIOUS
<1>4. \A x : x \in ToSet(s \o t) => x \in ToSet(s) \cup ToSet(t)
  BY <1>1 DEF ToSet
<1>5. \A x : x \in ToSet(s) => x \in ToSet(s \o t)
  BY <1>2 DEF ToSet
<1>6. \A x : x \in ToSet(t) => x \in ToSet(s \o t)
  <2>1. ASSUME NEW i \in DOMAIN t PROVE t[i] \in ToSet(s \o t)
    BY <1>3 DEF ToSet
  <2> QED BY <2>1 DEF ToSet
<1> QED BY <1>4, <1>5, <1>6

\* The elements of a sequence of none and of one.
LEMMA Single == ToSet(<<>>) = {} /\ \A x : ToSet(<<x>>) = {x}
<1>1. DOMAIN <<>> = {}
  OBVIOUS
<1>2. ASSUME NEW x PROVE ToSet(<<x>>) = {x}
  <2>1. Len(<<x>>) = 1 /\ <<x>>[1] = x
    OBVIOUS
  <2>2. DOMAIN <<x>> = {1}
    BY <2>1
  <2> QED BY <2>1, <2>2 DEF ToSet
<1> QED BY <1>1, <1>2 DEF ToSet

\* A sequence of one.
LEMMA OneLong ==
    ASSUME NEW S, NEW x \in S
    PROVE  <<x>> \in Seq(S)
  OBVIOUS

Slice(s) == <<"headers">> \o (IF HasCors(s) THEN <<"cors">> ELSE <<>>)
                          \o (IF IsZero(s.jwt) THEN <<>> ELSE <<"authenticate">>)

\* The slice has what the sections ask for.
LEMMA SliceIs ==
    ASSUME NEW s
    PROVE  /\ ToSet(Slice(s)) \subseteq {"headers", "cors", "authenticate"}
           /\ "cors" \in ToSet(Slice(s)) <=> HasCors(s)
           /\ "authenticate" \in ToSet(Slice(s)) <=> ~IsZero(s.jwt)
<1> DEFINE Layers == {"headers", "cors", "authenticate"}
<1> DEFINE c == IF HasCors(s) THEN <<"cors">> ELSE <<>>
<1> DEFINE a == IF IsZero(s.jwt) THEN <<>> ELSE <<"authenticate">>
<1> DEFINE h == <<"headers">>
<1>1. h \in Seq(Layers) /\ <<"cors">> \in Seq(Layers) /\ <<"authenticate">> \in Seq(Layers)
  <2>1. "headers" \in Layers /\ "cors" \in Layers /\ "authenticate" \in Layers
    OBVIOUS
  <2> QED BY <2>1, OneLong
<1>2. <<>> \in Seq(Layers)
  OBVIOUS
<1>3. c \in Seq(Layers) /\ a \in Seq(Layers)
  BY Zenon, <1>1, <1>2
<1>4. ToSet(c) = (IF HasCors(s) THEN {"cors"} ELSE {})
  BY Single
<1>5. ToSet(a) = (IF IsZero(s.jwt) THEN {} ELSE {"authenticate"})
  BY Single
<1>6. ToSet(h) = {"headers"}
  BY Single
<1>7. Slice(s) = (h \o c) \o a
  BY Zenon DEF Slice
<1> HIDE DEF c, a, h
<1>8. h \o c \in Seq(Layers) /\ ToSet(h \o c) = ToSet(h) \cup ToSet(c)
  BY <1>1, <1>3, Appended
<1>9. ToSet((h \o c) \o a) = ToSet(h \o c) \cup ToSet(a)
  <2> DEFINE hc == h \o c
  <2>1. hc \in Seq(Layers)
    BY <1>8
  <2> HIDE DEF hc
  <2>2. ToSet(hc \o a) = ToSet(hc) \cup ToSet(a)
    BY <1>3, <2>1, Appended
  <2> QED BY <2>2 DEF hc
<1> QED BY <1>4, <1>5, <1>6, <1>7, <1>8, <1>9

\* What a step leaves alone, and where it can go from where it is.
LEMMA Fixed ==
    ASSUME [AccessNext]_accessVars
    PROVE  /\ service' = service
           /\ pc \notin Building => UNCHANGED <<mw, routes, mounted>>
           /\ pc # "MountOn" => UNCHANGED <<routes, mounted>>
           /\ pc \notin {"idle", "cache", "answered"} => UNCHANGED outsideVars
           /\ pc # "idle" => UNCHANGED <<now, asked>>
           /\ pc # "loglevel" => UNCHANGED level
  BY DEF AccessNext, NewActuator, NewServer, DefaultMiddleware, MountOn, Tick, ClientAsks, CacheAnswers,
         CachePasses, Delivered, CORS, Authenticate, ServeMux, LogLevel, AccessOver, Built,
         accessVars, builtVars, askedVars, outsideVars, Building

\* The whitelist is a sequence, of endpoints once it has been validated.
LEMMA ExposeIs ==
    ASSUME ServicesWellFormed, NEW s \in Services
    PROVE  /\ Len(Expose(s)) \in Nat /\ DOMAIN Expose(s) = 1..Len(Expose(s))
           /\ Validates(s) => \A i \in 1..Len(Expose(s)) : Expose(s)[i] \in Endpoint
<1>1. s.expose \in Seq(STRING)
  BY DEF ServicesWellFormed
<1>2. Len(Expose(s)) \in Nat /\ DOMAIN Expose(s) = 1..Len(Expose(s))
  <2>1. CASE s.expose = <<>>
    <3>1. Expose(s) = <<"livez", "readyz", "info">>
      BY <2>1 DEF Expose
    <3> QED BY <3>1
  <2>2. CASE s.expose # <<>>
    BY <1>1, <2>2 DEF Expose
  <2> QED BY <2>1, <2>2
<1>3. Validates(s) => \A i \in DOMAIN Expose(s) : Expose(s)[i] \in Endpoint
  BY DEF Validates, ToSet
<1> QED BY <1>2, <1>3

\* The whitelist's next entry is there already, or none of its paths are.
LEMMA Apart ==
    ASSUME ServicesWellFormed, service \in Services, Validates(service), Mounts,
           mounted # Len(Expose(service)), ~Done(Expose(service)[mounted + 1])
    PROVE  Paths(Expose(service)[mounted + 1]) \cap DOMAIN routes = {}
<1> DEFINE E == Expose(service)
<1>1. \A i \in 1..Len(E) : E[i] \in Endpoint
  BY ExposeIs
<1>2. Len(E) \in Nat /\ mounted \in 0..Len(E) /\ mounted + 1 \in 1..Len(E)
  BY ExposeIs DEF Mounts
<1>3. ASSUME NEW i \in 1..mounted, NEW p \in Paths(E[i]), p \in Paths(E[mounted + 1])
      PROVE  FALSE
  <2>1. E[i] \in Endpoint /\ E[mounted + 1] \in Endpoint
    BY <1>1, <1>2
  <2>2. NameOf(p) = E[i] /\ NameOf(p) = E[mounted + 1]
    BY <1>3, <2>1, PathsApart
  <2> QED BY <1>3, <2>2 DEF Done
<1>4. DOMAIN routes = UNION {Paths(E[i]) : i \in 1..mounted}
  BY DEF Mounts
<1> QED BY <1>3, <1>4

\* The routes after an entry of the whitelist.
LEMMA Registered ==
    ASSUME ServicesWellFormed, service \in Services, Validates(service), Mounts, MountOn,
           mounted # Len(Expose(service))
    PROVE  LET name == Expose(service)[mounted + 1]
           IN /\ pc' = "MountOn" /\ mounted' = mounted + 1
              /\ DOMAIN routes' = DOMAIN routes \cup Paths(name)
              /\ \A p \in DOMAIN routes : routes'[p] = routes[p]
              /\ \A p \in DOMAIN routes' \ DOMAIN routes :
                    /\ p \in Paths(name)
                    /\ routes'[p] = [name |-> name, guarded |-> Guards(service, p)]
<1> DEFINE E == Expose(service)
<1> DEFINE name == E[mounted + 1]
<1>1. pc = "MountOn" /\ mounted' = mounted + 1
  BY DEF MountOn
<1>2. CASE Done(name)
  <2>1. UNCHANGED <<pc, routes>>
    BY <1>2 DEF MountOn
  <2>2. Paths(name) \subseteq DOMAIN routes
    BY <1>2 DEF Done, Mounts
  <2> QED BY <1>1, <2>1, <2>2
<1>3. CASE ~Done(name)
  <2>1. Register(name)
    BY <1>3 DEF MountOn
  <2>2. Paths(name) \cap DOMAIN routes = {}
    BY <1>3, Apart
  <2>3. /\ routes' = [p \in DOMAIN routes \cup Paths(name) |->
                         IF p \in Paths(name) THEN [name |-> name, guarded |-> Guards(service, p)]
                         ELSE routes[p]]
        /\ UNCHANGED pc
    BY <2>1, <2>2 DEF Register
  <2>4. DOMAIN routes' = DOMAIN routes \cup Paths(name)
    BY <2>3
  <2>5. ASSUME NEW p \in DOMAIN routes PROVE routes'[p] = routes[p]
    BY <2>2, <2>3
  <2>6. ASSUME NEW p \in DOMAIN routes' \ DOMAIN routes
        PROVE  p \in Paths(name) /\ routes'[p] = [name |-> name, guarded |-> Guards(service, p)]
    BY <2>3, <2>4
  <2> QED BY <1>1, <2>3, <2>4, <2>5, <2>6
<1> QED BY <1>2, <1>3

\* One lemma for each part of IInv: the whitelist, which is why no pattern is
\* registered twice,
LEMMA MountsKept ==
    ASSUME ServicesWellFormed, AccessTypes, Assembled, Mounts, [AccessNext]_accessVars
    PROVE  Mounts' /\ pc' # "panicked"
<1> DEFINE E == Expose(service)
<1>1. service' = service /\ service \in Services
  BY Fixed DEF AccessTypes
<1>2. CASE MountOn /\ mounted # Len(E)
  <2>1. pc = "MountOn" /\ Validates(service)
    BY <1>2 DEF MountOn, Assembled
  <2> DEFINE name == E[mounted + 1]
  <2>2. /\ pc' = "MountOn" /\ mounted' = mounted + 1
        /\ DOMAIN routes' = DOMAIN routes \cup Paths(name)
        /\ \A p \in DOMAIN routes : routes'[p] = routes[p]
        /\ \A p \in DOMAIN routes' \ DOMAIN routes :
              /\ p \in Paths(name)
              /\ routes'[p] = [name |-> name, guarded |-> Guards(service, p)]
    BY <1>1, <1>2, <2>1, Registered
  <2>3. Len(E) \in Nat /\ mounted \in 0..Len(E) /\ mounted' \in 0..Len(E) /\ name \in Endpoint
    BY <1>1, <1>2, <2>1, <2>2, ExposeIs DEF Mounts
  <2>4. DOMAIN routes' = UNION {Paths(E[i]) : i \in 1..mounted'}
    <3>1. 1..mounted' = (1..mounted) \cup {mounted + 1}
      BY <2>2, <2>3
    <3>2. DOMAIN routes = UNION {Paths(E[i]) : i \in 1..mounted}
      BY DEF Mounts
    <3> QED BY <2>2, <3>1, <3>2
  <2>5. ASSUME NEW p \in DOMAIN routes'
        PROVE  /\ routes'[p] \in [name : Endpoint, guarded : BOOLEAN]
               /\ p \in Paths(routes'[p].name) /\ routes'[p].guarded = Guards(service, p)
    <3>1. CASE p \in DOMAIN routes
      BY <2>2, <3>1 DEF Mounts
    <3>2. CASE p \notin DOMAIN routes
      <4>1. Guards(service, p) \in BOOLEAN
        BY DEF Guards
      <4>2. routes'[p] = [name |-> name, guarded |-> Guards(service, p)] /\ p \in Paths(name)
        BY <2>2, <3>2
      <4> QED BY <2>3, <4>1, <4>2
    <3> QED BY <3>1, <3>2
  <2>6. pc' \notin BeforeServing /\ pc' \notin Serving /\ pc' # "panicked"
    BY <2>2 DEF BeforeServing, Serving
  <2> QED BY <1>1, <2>3, <2>4, <2>5, <2>6 DEF Mounts
<1>3. CASE MountOn /\ mounted = Len(E)
  <2>1. pc' = "idle" /\ UNCHANGED <<routes, mounted>>
    BY <1>3 DEF MountOn
  <2>2. pc' \notin BeforeServing
    BY <2>1 DEF BeforeServing
  <2> QED BY <1>1, <1>3, <2>1, <2>2 DEF Mounts
<1>4. CASE ~MountOn
  <2>1. UNCHANGED <<routes, mounted>>
    BY <1>4 DEF AccessNext, NewActuator, NewServer, DefaultMiddleware, Tick, ClientAsks, CacheAnswers,
         CachePasses, Delivered, CORS, Authenticate, ServeMux, LogLevel, AccessOver, Built,
         accessVars, builtVars, askedVars, outsideVars
  <2>2. /\ pc' \in BeforeServing => pc \in BeforeServing
        /\ pc' \in Serving => pc \in Serving
        /\ pc' = "panicked" => pc = "panicked"
    BY <1>4 DEF AccessNext, NewActuator, NewServer, DefaultMiddleware, Tick, ClientAsks, CacheAnswers,
         CachePasses, Delivered, CORS, Authenticate, ServeMux, LogLevel, AccessOver, Built,
         accessVars, BeforeServing, Serving, Answered
  <2>3. pc # "panicked"
    BY DEF AccessTypes, Building, Serving
  <2> QED BY <1>1, <2>1, <2>2, <2>3 DEF Mounts
<1> QED BY <1>2, <1>3, <1>4

\* Building: which constructor follows which.
LEMMA Builds ==
    ASSUME AccessTypes, [AccessNext]_accessVars
    PROVE  \/ pc' = pc /\ UNCHANGED <<mw, keys>> /\ pc \in BeforeServing
           \/ NewActuator \/ NewServer \/ DefaultMiddleware
           \/ pc \notin BeforeServing /\ pc' \notin BeforeServing /\ UNCHANGED mw
<1>1. CASE pc \in BeforeServing
  BY <1>1 DEF AccessNext, MountOn, Tick, ClientAsks, CacheAnswers, CachePasses, Delivered, CORS,
       Authenticate, ServeMux, LogLevel, AccessOver, accessVars, builtVars, BeforeServing
<1>2. CASE pc \notin BeforeServing
  <2>1. pc' \notin BeforeServing
    BY <1>2 DEF AccessNext, NewActuator, NewServer, DefaultMiddleware, MountOn, Register, Tick, ClientAsks,
         CacheAnswers, CachePasses, Delivered, CORS, Authenticate, ServeMux, LogLevel,
         AccessOver, Built, Answered, accessVars, BeforeServing
  <2>2. UNCHANGED mw
    BY <1>2 DEF AccessNext, NewActuator, NewServer, DefaultMiddleware, MountOn, Tick, ClientAsks,
         CacheAnswers, CachePasses, Delivered, CORS, Authenticate, ServeMux, LogLevel,
         AccessOver, Built, accessVars, builtVars, BeforeServing
  <2> QED BY <1>2, <2>1, <2>2
<1> QED BY <1>1, <1>2

\* what has been built,
LEMMA AssembledKept ==
    ASSUME ServicesWellFormed, AccessTypes, Assembled, [AccessNext]_accessVars
    PROVE  Assembled' /\ ToSet(mw)' \subseteq {"headers", "cors", "authenticate"}
<1>1. service' = service
  BY Fixed
<1>2. CASE pc' = pc /\ UNCHANGED <<mw, keys>> /\ pc \in BeforeServing
  BY <1>1, <1>2 DEF Assembled, AddsCors, Authenticates, Uses, AccessTypes
<1>3. CASE NewActuator
  <2>1. pc = "actuator.New" /\ mw' = mw /\ pc' = IF ~Validates(service) THEN "refused" ELSE "web.New"
    BY <1>3 DEF NewActuator, Built
  <2>2. pc' \in BeforeServing
    BY <2>1 DEF BeforeServing
  <2> QED BY <1>1, <2>1, <2>2 DEF Assembled, BuildErrs, AccessTypes
<1>4. CASE NewServer
  <2>1. /\ pc = "web.New" /\ mw' = mw
        /\ pc' = IF Cardinality(service.tls) = 1 THEN "refused" ELSE "DefaultMiddleware"
    BY <1>4 DEF NewServer, Built
  <2>2. pc' \in BeforeServing
    BY <2>1 DEF BeforeServing
  <2> QED BY <1>1, <2>1, <2>2 DEF Assembled, BuildErrs, AccessTypes
<1>5. CASE DefaultMiddleware
  <2> DEFINE errs == CorsErrs(service.cors) \/ (~IsZero(service.jwt) /\ AuthenticateErrs(service.jwt))
  <2>1. pc = "DefaultMiddleware" /\ pc' = IF errs THEN "refused" ELSE "MountOn"
    BY <1>5 DEF DefaultMiddleware, Built
  <2>2. CASE errs
    <3>1. pc' = "refused" /\ pc' \in BeforeServing /\ mw' = <<>>
      BY <1>5, <2>1, <2>2 DEF DefaultMiddleware, BeforeServing
    <3>2. ToSet(mw') = {}
      BY <3>1, Single
    <3>3. BuildErrs(service)
      BY <2>2 DEF BuildErrs
    <3> QED BY <1>1, <3>1, <3>2, <3>3 DEF Assembled
  <2>3. CASE ~errs
    <3>1. pc' = "MountOn"
      BY <2>1, <2>3
    <3>2. mw' = Slice(service)
      BY <1>5, <3>1 DEF DefaultMiddleware, Slice
    <3>3. /\ ToSet(mw') \subseteq {"headers", "cors", "authenticate"}
          /\ AddsCors' <=> HasCors(service)
          /\ Authenticates' <=> ~IsZero(service.jwt)
      BY <3>2, SliceIs DEF AddsCors, Authenticates, Uses
    <3>4. Validates(service) /\ Cardinality(service.tls) # 1
      BY <2>1 DEF Assembled
    <3> QED BY <1>1, <2>3, <3>1, <3>3, <3>4 DEF Assembled
  <2> QED BY <2>2, <2>3
<1>6. CASE pc \notin BeforeServing /\ pc' \notin BeforeServing /\ UNCHANGED mw
  <2>1. /\ pc \notin {"actuator.New", "web.New", "refused"} /\ pc' # "refused"
    BY <1>6 DEF BeforeServing
  <2> QED BY <1>1, <1>6, <2>1 DEF Assembled, AddsCors, Authenticates, Uses, AccessTypes
<1> QED BY <1>2, <1>3, <1>4, <1>5, <1>6, Builds

\* Only a URL leaves the middleware without keys until the first token.
LEMMA ByUrl ==
    ASSUME Assembled, Published, pc \notin BeforeServing, Authenticates
    PROVE  /\ KeysFor(service.jwt) /\ ~IsZero(service.jwt)
           /\ keys = NoKeys => service.jwt.url # Blank
           /\ keys # NoKeys => Loaded(service.jwt)
<1> DEFINE j == service.jwt
<1>1. ~IsZero(j) /\ KeysFor(j)
  BY DEF Assembled, AuthenticateErrs
<1>2. j.file # Blank => keys = ParseJWKS(Documents[j.file]) /\ keys # NoKeys
  BY <1>1 DEF Published, KeysFor
<1>3. j.pem # Blank => keys = [kid \in {Blank} |-> {Pems[j.pem].key}] /\ keys # NoKeys
  <2>1. DOMAIN [kid \in {Blank} |-> {Pems[j.pem].key}] # DOMAIN NoKeys
    BY DEF NoKeys
  <2> QED BY <1>1, <2>1 DEF Published
<1>4. j.url # Blank => keys \in {NoKeys, ParseJWKS(Documents["issuer"])}
  BY <1>1 DEF Published
<1> QED BY <1>1, <1>2, <1>3, <1>4, OneSource DEF Loaded

\* the keys,
LEMMA PublishedKept ==
    ASSUME ServicesWellFormed, AccessTypes, Assembled, Published, [AccessNext]_accessVars
    PROVE  Published'
<1> DEFINE j == service.jwt
<1>1. service' = service
  BY Fixed
<1>2. CASE pc' = pc /\ UNCHANGED <<mw, keys>> /\ pc \in BeforeServing
  BY <1>1, <1>2 DEF Published
<1>3. CASE NewActuator
  <2>1. pc \in BeforeServing /\ pc' \in BeforeServing /\ keys' = keys
    BY <1>3 DEF NewActuator, Built, BeforeServing
  <2> QED BY <2>1 DEF Published
<1>4. CASE NewServer
  <2>1. pc \in BeforeServing /\ pc' \in BeforeServing /\ keys' = keys
    BY <1>4 DEF NewServer, Built, BeforeServing
  <2> QED BY <2>1 DEF Published
<1>5. CASE DefaultMiddleware
  <2>1. /\ pc = "DefaultMiddleware" /\ pc \in BeforeServing /\ pc' \in {"refused", "MountOn"}
        /\ pc' = "MountOn" => IsZero(j) \/ ~AuthenticateErrs(j)
        /\ keys' = IF pc' = "refused" \/ IsZero(j) THEN keys ELSE KeysAtStart(j)
    BY <1>5 DEF DefaultMiddleware, Built, BeforeServing
  <2>2. CASE pc' = "refused"
    <3>1. pc' \in BeforeServing
      BY <2>2 DEF BeforeServing
    <3> QED BY <2>1, <2>2, <3>1 DEF Published
  <2>3. CASE pc' = "MountOn"
    <3>1. pc' \notin BeforeServing
      BY <2>3 DEF BeforeServing
    <3>2. CASE IsZero(j)
      BY <1>1, <3>1, <3>2 DEF Published
    <3>3. CASE ~IsZero(j)
      <4>1. keys' = KeysAtStart(j) /\ KeysFor(j)
        BY <2>1, <2>3, <3>3 DEF AuthenticateErrs
      <4>2. /\ j.file # Blank => keys' = ParseJWKS(Documents[j.file])
            /\ j.pem # Blank => keys' = [kid \in {Blank} |-> {Pems[j.pem].key}]
            /\ j.url # Blank => keys' = NoKeys
        BY <4>1, OneSource DEF KeysAtStart
      <4> QED BY <1>1, <3>1, <4>2 DEF Published
    <3> QED BY <3>2, <3>3
  <2> QED BY <2>1, <2>2, <2>3
<1>6. CASE pc \notin BeforeServing /\ pc' \notin BeforeServing /\ UNCHANGED mw
  <2>1. CASE UNCHANGED keys
    <3>1. UNCHANGED <<service, keys>> /\ (pc \in BeforeServing)' = (pc \in BeforeServing)
      BY <1>1, <1>6, <2>1
    <3> QED BY Zenon, <3>1 DEF Published
  <2>2. CASE ~UNCHANGED keys
    <3>1. Authenticate
      BY <1>6, <2>2 DEF AccessNext, NewActuator, NewServer, DefaultMiddleware, MountOn, Tick, ClientAsks,
           CacheAnswers, CachePasses, Delivered, CORS, ServeMux, LogLevel, AccessOver, Built,
           accessVars, builtVars, BeforeServing
    <3>2. Authenticates /\ keys = NoKeys /\ keys' = ParseJWKS(Documents["issuer"])
      BY <2>2, <3>1 DEF Authenticate, Authenticates
    <3>3. j.url # Blank /\ KeysFor(j)
      BY <1>6, <3>2, ByUrl
    <3>4. j.file = Blank /\ j.pem = Blank
      BY <3>3, OneSource
    <3> QED BY <1>1, <1>6, <3>2, <3>4 DEF Published
  <2> QED BY <2>1, <2>2
<1> QED BY <1>2, <1>3, <1>4, <1>5, <1>6, Builds

\* A request is under way from ClientAsks to Delivered.
UnderWay == {"cache", "in", "authenticate"} \cup Inside

\* A request is under way in these steps only.
LEMMA Serves ==
    ASSUME AccessTypes, [AccessNext]_accessVars
    PROVE  \/ pc' \notin UnderWay
           \/ UNCHANGED accessVars
           \/ ClientAsks \/ CacheAnswers \/ CachePasses \/ CORS \/ Authenticate
           \/ ServeMux \/ LogLevel
  BY DEF AccessNext, NewActuator, NewServer, DefaultMiddleware, MountOn, Register, Tick, Delivered, AccessOver,
       Built, UnderWay, Inside

\* the head, for which the cache must be right,
LEMMA HeadsKept ==
    ASSUME ServicesWellFormed, AccessTypes, Assembled, Heads, Stored, [AccessNext]_accessVars
    PROVE  Heads'
<1>1. service' = service /\ Proper(asked)
  BY Fixed, AskedProper
<1>2. CASE pc' \notin UnderWay
  BY <1>2 DEF Heads, UnderWay, Inside
<1>3. CASE UNCHANGED accessVars
  BY <1>3 DEF Heads, accessVars, builtVars, askedVars, Cacheable
<1>4. CASE ClientAsks
  <2>1. PICK q \in service.clients :
            /\ asked' = q
            /\ pc' = IF Cacheable(q) THEN "cache" ELSE IF q.port = "app" THEN "in" ELSE "mux"
    BY <1>4 DEF ClientAsks
  <2>2. principal' = Nobody /\ head' = NoHead
    BY <1>4 DEF ClientAsks
  <2>3. Cacheable(q) => q.port = "app"
    BY DEF Cacheable
  <2>4. Cacheable(asked)' <=> Cacheable(q)
    BY <2>1 DEF Cacheable
  <2> QED BY <2>1, <2>2, <2>3, <2>4 DEF Heads, Inside
<1>5. CASE CacheAnswers
  <2>1. PICK e \in cache : (e.head.vary => e.from = asked.from) /\ head' = e.head
    BY <1>5 DEF CacheAnswers
  <2>2. pc = "cache" /\ pc' = "answered" /\ UNCHANGED <<asked, principal>>
    BY <1>5 DEF CacheAnswers
  <2>3. asked.port = "app" /\ ~asked.preflight /\ principal = Nobody
    BY <2>2 DEF Heads, Cacheable
  <2>4. e.head = HeadFor(service, e.from, FALSE)
    BY DEF Stored
  <2>5. e.head = HeadFor(service, asked.from, FALSE)
    BY <2>1, <2>4, SameHead
  <2>6. asked.preflight = FALSE
    BY <1>1, <2>3 DEF Proper
  <2>7. head' = HeadFor(service, asked.from, asked.preflight)
    BY <2>1, <2>5, <2>6
  <2> QED BY <1>1, <2>2, <2>3, <2>7 DEF Heads, Inside
<1>6. CASE CachePasses
  <2>1. pc = "cache" /\ pc' = "in" /\ UNCHANGED <<asked, principal, head>>
    BY <1>6 DEF CachePasses, askedVars
  <2> QED BY <1>1, <2>1 DEF Heads, Inside
<1>7. CASE CORS
  <2>1. pc = "in" /\ UNCHANGED <<asked, principal>> /\ pc' \in {"answered", "authenticate"}
    BY <1>7 DEF CORS, Answered
  <2>2. pc' = "authenticate" => ~(AddsCors /\ asked.preflight)
    BY <1>7 DEF CORS, Answered, AddsCors
  <2>3. head' = IF AddsCors THEN CorsHead ELSE head
    BY <1>7 DEF CORS, AddsCors
  <2>4. AddsCors <=> HasCors(service)
    BY <2>1 DEF Assembled, BeforeServing
  <2>5. head = NoHead /\ principal = Nobody /\ asked.port = "app"
    BY <2>1 DEF Heads
  <2>6. head' = HeadFor(service, asked.from, asked.preflight)
    BY <2>3, <2>4, <2>5, CorsHeadIs DEF HeadFor
  <2> QED BY <1>1, <2>1, <2>2, <2>4, <2>5, <2>6 DEF Heads, Inside
<1>8. CASE Authenticate
  <2>1. /\ pc = "authenticate" /\ pc' \in {"authenticate", "mux", "answered"}
        /\ UNCHANGED <<asked, head>> /\ (pc' = "authenticate" => UNCHANGED principal)
    BY <1>8 DEF Authenticate, Answered
  <2> QED BY <1>1, <2>1 DEF Heads, Inside
<1>9. CASE ServeMux
  <2>1. pc = "mux" /\ pc' \in {"loglevel", "answered"} /\ UNCHANGED <<asked, head, principal>>
    BY <1>9 DEF ServeMux, Answered
  <2> QED BY <1>1, <2>1 DEF Heads, Inside
<1>10. CASE LogLevel
  <2>1. pc = "loglevel" /\ pc' = "answered" /\ UNCHANGED <<asked, head, principal>>
    BY <1>10 DEF LogLevel, Answered
  <2> QED BY <1>1, <2>1 DEF Heads, Inside
<1> QED BY <1>2, <1>3, <1>4, <1>5, <1>6, <1>7, <1>8, <1>9, <1>10, Serves

\* Nobody is unknown, and whoever has a token is not.
LEMMA NobodyIs == ~Nobody.known /\ \A t : PrincipalOf(t).known /\ PrincipalOf(t).scopes = ScopesOf(t)
  BY DEF Nobody, PrincipalOf

\* A page whose request needs something has been granted that by the section.
LEMMA NeedsGranted ==
    ASSUME Granted, asked.from # None, ~asked.preflight, NEW n \in Needs(asked)
    PROVE  /\ NamesOrigin(service.cors, asked.from) /\ n \in Granting(service.cors)
           /\ asked.credentialed => service.cors.credentials
<1>1. PICK g \in granted : /\ g.from = asked.from /\ n \in g.what
                           /\ asked.credentialed => g.credentialed
  BY DEF Granted, MayArrive, MaySend
<1> QED BY <1>1 DEF Granted

\* What a request needs that a form could not send.
LEMMA NeedsAre ==
    ASSUME NEW q
    PROVE  /\ q.method \notin Simple => <<"method", q.method>> \in Needs(q)
           /\ q.token # NoToken => <<"header", "Authorization">> \in Needs(q)
           /\ q.json => <<"header", "Content-Type">> \in Needs(q)
  BY DEF Needs

\* A method is granted as one, and a header too.
LEMMA GrantedAs ==
    ASSUME NEW c, NEW x
    PROVE  /\ <<"method", x>> \in Granting(c) => x \in AllowedMethods(c)
           /\ <<"header", x>> \in Granting(c) => x \in AllowedHeaders(c)
<1>1. \A a, b : <<"method", a>> # <<"header", b>>
  OBVIOUS
<1>2. \A k, a, b : <<k, a>> = <<k, b>> => a = b
  OBVIOUS
<1> QED BY <1>1, <1>2 DEF Granting

\* What a shared cache may store was for everybody.
LEMMA Storable ==
    ASSUME AccessTypes, Proper(asked), Heads, Judged, MuxRouted, pc = "answered", Cacheable(asked),
           status = 200
    PROVE  /\ head = HeadFor(service, asked.from, FALSE)
           /\ asked.path = <<"orders">> \/ Open(asked.path)
<1>1. /\ asked.port = "app" /\ ~asked.preflight /\ asked.method = "GET" /\ asked.token = NoToken
      /\ asked.preflight = FALSE
  BY DEF Cacheable, Proper
<1>2. head = HeadFor(service, asked.from, FALSE)
  BY <1>1 DEF Heads, Inside
<1>3. Method = "GET" /\ Bearer = NoToken
  BY <1>1 DEF Method, Bearer
<1>4. principal = Nobody
  BY <1>1, <1>3 DEF Judged, Judges, Inside
<1>5. CASE asked.path # <<"orders">>
  <2>1. Taken /\ ~RefusedHere
    BY <1>1, <1>3, <1>5 DEF MuxRouted
  <2>2. asked.path \in DOMAIN routes /\ service.addr = Blank /\ Takes(asked.path, "GET")
    BY <1>1, <1>3, <2>1 DEF Taken, Found
  <2>3. ~routes[asked.path].guarded
    BY <1>4, <2>1, NobodyIs DEF RefusedHere, Refused
  <2> QED BY <1>2, <2>2, <2>3 DEF Open
<1> QED BY <1>2, <1>5

\* the cache, for which the head and the whitelist must be,
LEMMA StoredKept ==
    ASSUME ServicesWellFormed, AccessTypes, Mounts, Heads, Stored, Judged, MuxRouted, [AccessNext]_accessVars
    PROVE  Stored'
<1>1. service' = service /\ Proper(asked)
  BY Fixed, AskedProper
<1>2. CASE cache = {} /\ cache' = {}
  BY <1>2 DEF Stored
<1>3. CASE pc \notin Building /\ pc' \notin Building
  <2>1. routes' = routes
    BY <1>3, Fixed
  <2>2. \A e \in cache : e.path = <<"orders">> \/ Open(e.path)'
    BY <1>1, <2>1 DEF Stored, Open
  <2>3. CASE cache' = cache
    BY <1>1, <1>3, <2>2, <2>3 DEF Stored
  <2>4. CASE cache' # cache
    <3>1. Delivered
      BY <1>3, <2>4 DEF AccessNext, NewActuator, NewServer, DefaultMiddleware, MountOn, Tick, ClientAsks,
           CacheAnswers, CachePasses, CORS, Authenticate, ServeMux, LogLevel, AccessOver, Built,
           accessVars, outsideVars
    <3>2. /\ pc = "answered" /\ Cacheable(asked) /\ status = 200
          /\ cache' = cache \cup {[path |-> asked.path, from |-> asked.from, head |-> head]}
      BY <2>4, <3>1 DEF Delivered
    <3>3. head = HeadFor(service, asked.from, FALSE) /\ (asked.path = <<"orders">> \/ Open(asked.path))
      BY <1>1, <3>2, Storable
    <3>4. Open(asked.path) => Open(asked.path)'
      <4>1. UNCHANGED asked
        BY <3>1 DEF Delivered, askedVars
      <4> QED BY <1>1, <2>1, <4>1 DEF Open
    <3>5. UNCHANGED asked
      BY <3>1 DEF Delivered, askedVars
    <3>6. ASSUME NEW e \in cache'
          PROVE  /\ e.head = HeadFor(service, e.from, FALSE)
                 /\ e.path = <<"orders">> \/ Open(e.path)'
      <4>1. CASE e \in cache
        BY <2>2, <4>1 DEF Stored
      <4>2. CASE e = [path |-> asked.path, from |-> asked.from, head |-> head]
        <5>1. e.path = asked.path /\ e.from = asked.from /\ e.head = head
          BY <4>2
        <5> QED BY <1>1, <2>1, <3>3, <5>1 DEF Open
      <4> QED BY <3>2, <4>1, <4>2
    <3> QED BY <1>1, <1>3, <3>6 DEF Stored
  <2> QED BY <2>3, <2>4
<1>4. CASE pc \in Building
  <2>1. cache = {}
    BY <1>4 DEF Stored
  <2>2. UNCHANGED outsideVars
    BY <1>4, Fixed DEF Building
  <2> QED BY <1>2, <2>1, <2>2 DEF outsideVars
<1>5. pc \notin Building => pc' \notin Building
  BY DEF AccessNext, NewActuator, NewServer, DefaultMiddleware, MountOn, Tick, ClientAsks, CacheAnswers,
     CachePasses, Delivered, CORS, Authenticate, ServeMux, LogLevel, AccessOver, Built,
     Answered, accessVars, Building
<1> QED BY <1>3, <1>4, <1>5

\* A head that allows a page's origin is what CORS says to an origin that is listed.
LEMMA ReadableHead ==
    ASSUME NEW s, NEW from, from # None, NEW preflight, HeadFor(s, from, preflight).allow = from
    PROVE  LET h == HeadFor(s, from, preflight)
           IN /\ Allows(s, from) /\ h.credentials = s.cors.credentials
              /\ preflight => h.methods = AllowedMethods(s.cors) /\ h.headers = AllowedHeaders(s.cors)
<1>1. Allows(s, from)
  BY OtherHead
<1> QED BY <1>1, AllowedHead

\* What a page's browser keeps of a preflight, the section grants.
LEMMA Grantable ==
    ASSUME Proper(asked), Heads, pc = "answered", asked.preflight, Reads, asked.from # None
    PROVE  /\ asked.from \in Origin /\ NamesOrigin(service.cors, asked.from)
           /\ asked.credentialed => service.cors.credentials
           /\ Grants(head) = Granting(service.cors)
<1>1. head.allow = asked.from /\ (asked.credentialed => head.credentials)
  BY DEF Reads
<1>2. head = HeadFor(service, asked.from, asked.preflight)
  <2>1. asked.port # "app" => head.allow = None
    BY PlainHead DEF Heads, Inside
  <2>2. asked.port = "app"
    BY <1>1, <2>1
  <2> QED BY <2>2 DEF Heads, Inside
<1>3. /\ Allows(service, asked.from) /\ head.credentials = service.cors.credentials
      /\ head.methods = AllowedMethods(service.cors) /\ head.headers = AllowedHeaders(service.cors)
  <2> DEFINE h == HeadFor(service, asked.from, asked.preflight)
  <2>1. h.allow = asked.from
    BY <1>1, <1>2
  <2>2. /\ Allows(service, asked.from) /\ h.credentials = service.cors.credentials
        /\ h.methods = AllowedMethods(service.cors) /\ h.headers = AllowedHeaders(service.cors)
    BY <2>1, ReadableHead
  <2> QED BY <1>2, <2>2
<1>4. asked.from \in Origin /\ NamesOrigin(service.cors, asked.from)
  BY <1>3 DEF Allows, Proper
<1> QED BY <1>1, <1>3, <1>4 DEF Grants, Granting

\* the preflights,
LEMMA RememberedKept ==
    ASSUME ServicesWellFormed, AccessTypes, Heads, Granted, [AccessNext]_accessVars
    PROVE  Granted'
<1>1. service' = service /\ Proper(asked)
  BY Fixed, AskedProper
<1>2. granted' = granted \/ Delivered
  BY DEF AccessNext, NewActuator, NewServer, DefaultMiddleware, MountOn, Tick, ClientAsks, CacheAnswers,
     CachePasses, CORS, Authenticate, ServeMux, LogLevel, AccessOver, Built, accessVars, outsideVars
<1>3. granted \subseteq granted'
  BY <1>2 DEF Delivered
<1>4. MayArrive'
  <2>1. CASE asked' = asked
    BY <1>3, <2>1 DEF Granted, MayArrive, MaySend, Needs
  <2>2. CASE ClientAsks
    <3>1. MaySend(asked')
      BY <2>2 DEF ClientAsks
    <3>2. granted' = granted
      BY <2>2 DEF ClientAsks, outsideVars
    <3> QED BY <3>1, <3>2 DEF MayArrive, MaySend, Needs
  <2>3. ClientAsks \/ asked' = asked
    BY DEF AccessNext, NewActuator, NewServer, DefaultMiddleware, MountOn, Tick, CacheAnswers, CachePasses,
       Delivered, CORS, Authenticate, ServeMux, LogLevel, AccessOver, Built, accessVars, askedVars
  <2> QED BY <2>1, <2>2, <2>3
<1>5. ASSUME NEW g \in granted'
      PROVE  /\ g.from \in Origin /\ NamesOrigin(service.cors, g.from)
             /\ g.credentialed => service.cors.credentials
             /\ \A n \in g.what : n \in Granting(service.cors)
  <2>1. CASE g \in granted
    BY <2>1 DEF Granted
  <2>2. CASE g \notin granted
    <3>1. Delivered
      BY <1>2, <2>2
    <3>2. /\ pc = "answered" /\ asked.preflight /\ Reads /\ asked.from # None
          /\ g = [from |-> asked.from, credentialed |-> asked.credentialed,
                  path |-> asked.path, what |-> Grants(head)]
      BY <2>2, <3>1 DEF Delivered
    <3> QED BY <1>1, <3>2, Grantable
  <2> QED BY <2>1, <2>2
<1> QED BY <1>1, <1>4, <1>5 DEF Granted, NamesOrigin, Wildcard

\* What a step past the middleware goes by stays as it was.
LEMMA Steady ==
    ASSUME UNCHANGED <<service, routes, mw, now, asked>>
    PROVE  /\ UNCHANGED <<Judges, GenuineNow, Bearer, Method, Found, Taken>>
           /\ UNCHANGED principal => UNCHANGED <<Known, RefusedHere>>
<1>1. UNCHANGED <<Bearer, Method, Found, Taken>>
  BY DEF Bearer, Method, Found, Taken
<1>2. UNCHANGED Judges
  BY <1>1 DEF Judges, Authenticates, Uses
<1>3. UNCHANGED GenuineNow
  BY DEF GenuineNow, Genuine
<1>4. UNCHANGED principal => UNCHANGED <<Known, RefusedHere>>
  BY <1>3 DEF Known, RefusedHere, Refused
<1> QED BY <1>1, <1>2, <1>3, <1>4

\* the principal,
LEMMA JudgedKept ==
    ASSUME ServicesWellFormed, AccessTypes, Assembled, Published, Heads, Judged, [AccessNext]_accessVars
    PROVE  Judged'
<1>1. service' = service /\ service \in Services /\ Proper(asked) /\ now \in Nat
  BY Fixed, AskedProper DEF AccessTypes, ServicesWellFormed
<1>2. CASE pc' \notin UnderWay
  BY <1>2 DEF Judged, UnderWay, Inside
<1>3. CASE UNCHANGED accessVars
  <2>1. UNCHANGED <<service, routes, mw, now, asked, principal, pc, status>>
    BY <1>3 DEF accessVars, builtVars, askedVars
  <2>2. UNCHANGED <<Judges, Known, GenuineNow>>
    BY <2>1, Steady
  <2> QED BY <2>1, <2>2 DEF Judged
<1>4. CASE ClientAsks
  <2>1. \/ pc' \in {"cache", "in"}
        \/ pc' = "mux" /\ asked'.port # "app"
    BY <1>4 DEF ClientAsks
  <2> QED BY <2>1 DEF Judged, Inside
<1>5. CASE CacheAnswers
  <2>1. pc = "cache" /\ pc' = "answered" /\ UNCHANGED <<service, routes, mw, now, asked, principal>>
    BY <1>5 DEF CacheAnswers, builtVars
  <2>2. asked.token = NoToken /\ principal = Nobody
    BY <2>1 DEF Heads, Cacheable
  <2>3. ~Judges
    BY <2>2 DEF Judges, Bearer
  <2> QED BY <2>1, <2>2, <2>3, Steady DEF Judged
<1>6. CASE CachePasses
  <2>1. pc' = "in"
    BY <1>6 DEF CachePasses
  <2> QED BY <2>1 DEF Judged, Inside
<1>7. CASE CORS
  <2>1. pc = "in" /\ UNCHANGED <<service, routes, mw, now, asked, principal>>
    BY <1>7 DEF CORS, builtVars
  <2>2. pc' = "authenticate" \/ (pc' = "answered" /\ asked.preflight)
    BY <1>7 DEF CORS, Answered
  <2>3. asked.preflight => ~Judges
    BY DEF Judges, Bearer
  <2>4. principal = Nobody
    BY <2>1 DEF Heads
  <2> QED BY <2>1, <2>2, <2>3, <2>4, Steady DEF Judged, Inside
<1>8. CASE Authenticate
  <2>1. pc = "authenticate" /\ UNCHANGED <<service, routes, mw, now, asked>>
    BY <1>8 DEF Authenticate
  <2>2. principal = Nobody /\ pc \notin BeforeServing
    BY <2>1 DEF Heads, BeforeServing
  <2>3. CASE ~Judges
    <3>1. pc' = "mux" /\ principal' = principal
      BY <1>8, <2>3 DEF Authenticate, Judges, Authenticates
    <3> QED BY <2>1, <2>2, <2>3, <3>1, Steady DEF Judged
  <2>4. CASE Judges
    <3>1. Authenticates /\ Bearer = asked.token /\ asked.token # NoToken
      BY <2>4 DEF Judges, Bearer
    <3>2. KeysFor(service.jwt)
      BY <2>2, <3>1, ByUrl
    <3>3. CASE keys = NoKeys
      <4>1. /\ keys' = ParseJWKS(Documents["issuer"]) /\ principal' = principal
            /\ keys' = NoKeys => pc' = "answered" /\ status' = 401
            /\ keys' # NoKeys => pc' = pc
        BY <1>8, <3>1, <3>3 DEF Authenticate, Answered, Authenticates
      <4>2. CASE keys' # NoKeys
        BY <2>1, <4>1, <4>2 DEF Judged, Inside
      <4>3. CASE keys' = NoKeys
        <5>1. service.jwt.url # Blank
          BY <2>2, <3>1, <3>3, ByUrl
        <5>2. ~GenuineNow
          BY <1>1, <3>1, <3>2, <4>1, <4>3, <5>1, NoneGenuine
        <5> QED BY <2>1, <2>2, <2>4, <4>1, <4>3, <5>2, Steady DEF Judged
      <4> QED BY <4>2, <4>3
    <3>4. CASE keys # NoKeys
      <4>1. Loaded(service.jwt)
        BY <2>2, <3>1, <3>4, ByUrl
      <4>2. Verifies(service.jwt, asked.token) <=> GenuineNow
        BY <1>1, <3>1, <3>2, <4>1, VerifiedIs
      <4>3. CASE GenuineNow
        <5>1. principal' = PrincipalOf(asked.token) /\ pc' = "mux"
          BY <1>8, <3>1, <3>4, <4>2, <4>3 DEF Authenticate, Authenticates
        <5>2. UNCHANGED <<Judges, GenuineNow>>
          BY <2>1, Steady
        <5>3. Known'
          BY <2>1, <4>3, <5>1, <5>2 DEF Known
        <5> QED BY <2>4, <5>1, <5>2, <5>3 DEF Judged
      <4>4. CASE ~GenuineNow
        <5>1. pc' = "answered" /\ status' = 401 /\ principal' = principal
          BY <1>8, <3>1, <3>4, <4>2, <4>4 DEF Authenticate, Authenticates, Answered
        <5> QED BY <2>1, <2>2, <2>4, <4>4, <5>1, Steady DEF Judged
      <4> QED BY <4>3, <4>4
    <3> QED BY <3>3, <3>4
  <2> QED BY <2>3, <2>4
<1>9. CASE ServeMux
  <2>1. /\ pc = "mux" /\ pc' \in {"loglevel", "answered"}
        /\ UNCHANGED <<service, routes, mw, now, asked, principal>>
    BY <1>9 DEF ServeMux, Answered, builtVars
  <2>2. UNCHANGED <<Judges, Known, GenuineNow>>
    BY <2>1, Steady
  <2> QED BY <2>1, <2>2 DEF Judged, Inside
<1>10. CASE LogLevel
  <2>1. /\ pc = "loglevel" /\ pc' = "answered"
        /\ UNCHANGED <<service, routes, mw, now, asked, principal>>
    BY <1>10 DEF LogLevel, Answered, builtVars
  <2>2. UNCHANGED <<Judges, Known, GenuineNow>>
    BY <2>1, Steady
  <2> QED BY <2>1, <2>2 DEF Judged, Inside
<1> QED BY <1>2, <1>3, <1>4, <1>5, <1>6, <1>7, <1>8, <1>9, <1>10, Serves

\* the mux's answer,
LEMMA RoutedKept ==
    ASSUME ServicesWellFormed, AccessTypes, Heads, Stored, MuxRouted, [AccessNext]_accessVars
    PROVE  MuxRouted'
<1>1. service' = service /\ Proper(asked)
  BY Fixed, AskedProper
<1>2. CASE pc' \notin UnderWay
  BY <1>2 DEF MuxRouted, UnderWay, Inside
<1>3. CASE UNCHANGED accessVars
  <2>1. UNCHANGED <<service, routes, mw, now, asked, principal, pc, status>>
    BY <1>3 DEF accessVars, builtVars, askedVars
  <2>2. UNCHANGED <<Bearer, Found, Taken, RefusedHere>>
    BY <2>1, Steady
  <2> QED BY <2>1, <2>2 DEF MuxRouted
<1>4. CASE ClientAsks
  <2>1. pc' \in {"cache", "in", "mux"}
    BY <1>4 DEF ClientAsks
  <2> QED BY <2>1 DEF MuxRouted
<1>5. CASE CacheAnswers
  <2>1. /\ pc = "cache" /\ pc' = "answered" /\ status' = 200
        /\ UNCHANGED <<service, routes, mw, now, asked, principal>>
    BY <1>5 DEF CacheAnswers, builtVars
  <2>2. asked.path = <<"orders">> \/ Open(asked.path)
    BY <1>5 DEF CacheAnswers, Stored
  <2>3. asked.port = "app" /\ Method = "GET"
    BY <2>1 DEF Heads, Cacheable, Method
  <2>4. Open(asked.path) => Taken /\ ~RefusedHere
    BY <2>3 DEF Open, Taken, Found, RefusedHere, Refused
  <2>5. UNCHANGED <<Taken, RefusedHere>>
    BY <2>1, Steady
  <2> QED BY <2>1, <2>2, <2>4, <2>5 DEF MuxRouted
<1>6. CASE CachePasses
  <2>1. pc' = "in"
    BY <1>6 DEF CachePasses
  <2> QED BY <2>1 DEF MuxRouted
<1>7. CASE CORS
  <2>1. pc = "in" /\ asked' = asked
    BY <1>7 DEF CORS
  <2>2. pc' = "authenticate" \/ (pc' = "answered" /\ asked.preflight /\ status' = 204)
    BY <1>7 DEF CORS, Answered
  <2>3. asked.port = "app"
    BY <2>1 DEF Heads
  <2> QED BY <2>1, <2>2, <2>3 DEF MuxRouted
<1>8. CASE Authenticate
  <2>1. pc = "authenticate" /\ asked' = asked /\ asked.port = "app"
    BY <1>8 DEF Authenticate, Heads
  <2>2. pc' \in {"authenticate", "mux"} \/ (pc' = "answered" /\ status' = 401 /\ Bearer # NoToken)
    BY <1>8, <2>1 DEF Authenticate, Answered
  <2>3. Bearer' = Bearer
    BY <2>1 DEF Bearer
  <2> QED BY <2>1, <2>2, <2>3 DEF MuxRouted
<1>9. CASE ServeMux
  <2>1. pc = "mux" /\ UNCHANGED <<service, routes, mw, now, asked, principal>>
    BY <1>9 DEF ServeMux, builtVars
  <2>2. UNCHANGED <<Found, Taken, RefusedHere>>
    BY <2>1, Steady
  <2>3. CASE Found /\ ~Taken
    <3>1. pc' = "answered" /\ status' = 405
      BY <1>9, <2>3 DEF ServeMux, Taken, Answered
    <3> QED BY <2>2, <2>3, <3>1 DEF MuxRouted
  <2>4. CASE Taken /\ RefusedHere
    <3>1. pc' = "answered" /\ status' \in {401, 403}
      BY <1>9, <2>4 DEF ServeMux, Taken, RefusedHere, Answered
    <3> QED BY <2>2, <2>4, <3>1 DEF MuxRouted
  <2>5. CASE Taken /\ ~RefusedHere
    <3>1. \/ pc' = "loglevel" /\ routes[asked.path].name = "loglevel"
          \/ pc' = "answered" /\ status' = 200
      BY <1>9, <2>5 DEF ServeMux, Taken, RefusedHere, Answered
    <3> QED BY <2>1, <2>2, <2>5, <3>1 DEF MuxRouted
  <2>6. CASE ~Found
    <3>1. pc' = "answered" /\ (asked.path = <<"orders">> \/ status' = 404)
      BY <1>9, <2>6 DEF ServeMux, Answered
    <3> QED BY <2>1, <2>2, <2>6, <3>1 DEF MuxRouted
  <2>7. Taken => Found
    BY DEF Taken
  <2> QED BY <2>3, <2>4, <2>5, <2>6, <2>7
<1>10. CASE LogLevel
  <2>1. /\ pc = "loglevel" /\ pc' = "answered" /\ status' \in {200, 400, 405}
        /\ UNCHANGED <<service, routes, mw, now, asked, principal>>
    BY <1>10 DEF LogLevel, Answered, builtVars
  <2>2. UNCHANGED <<Found, Taken, RefusedHere>>
    BY <2>1, Steady
  <2> QED BY <2>1, <2>2 DEF MuxRouted
<1> QED BY <1>2, <1>3, <1>4, <1>5, <1>6, <1>7, <1>8, <1>9, <1>10, Serves

\* and the types.
LEMMA AccessTypesKept ==
    ASSUME ServicesWellFormed, AccessTypes, Assembled, Mounts, Heads, Stored, [AccessNext]_accessVars
    PROVE  AccessTypes'
<1>1. service' = service /\ service \in Services /\ Proper(asked)
  BY Fixed, AskedProper DEF AccessTypes
<1>2. pc' \in Building \cup Serving \cup {"refused"}
  <2>1. pc' # "panicked"
    BY MountsKept
  <2>2. pc' \in Building \cup Serving \cup {"refused", "panicked"}
    BY DEF AccessTypes, AccessNext, NewActuator, NewServer, DefaultMiddleware, MountOn, Register, Tick, ClientAsks,
       CacheAnswers, CachePasses, Delivered, CORS, Authenticate, ServeMux, LogLevel, AccessOver,
       Built, Answered, accessVars, Building, Serving
  <2> QED BY <2>1, <2>2
<1>3. ToSet(mw)' \subseteq {"headers", "cors", "authenticate"}
  BY AssembledKept
<1>4. level' \in Levels
  <2>1. level' = level \/ level' \in Levels
    BY Fixed DEF AccessNext, NewActuator, NewServer, DefaultMiddleware, MountOn, Tick, ClientAsks,
       CacheAnswers, CachePasses, Delivered, CORS, Authenticate, ServeMux, LogLevel, AccessOver,
       Built, accessVars
  <2> QED BY <2>1 DEF AccessTypes
<1>5. now' \in 0..Horizon
  <2>1. now' = now \/ (now < Horizon /\ now' = now + 1)
    BY DEF AccessNext, NewActuator, NewServer, DefaultMiddleware, MountOn, Tick, ClientAsks,
       CacheAnswers, CachePasses, Delivered, CORS, Authenticate, ServeMux, LogLevel, AccessOver,
       Built, accessVars
  <2>2. now \in 0..Horizon /\ Horizon \in Nat
    BY DEF AccessTypes, ServicesWellFormed
  <2> QED BY <2>1, <2>2
<1>6. asked' = Idle \/ asked' \in service.clients
  <2>1. asked' = asked \/ asked' \in service.clients
    BY DEF AccessNext, NewActuator, NewServer, DefaultMiddleware, MountOn, Tick, ClientAsks,
       CacheAnswers, CachePasses, Delivered, CORS, Authenticate, ServeMux, LogLevel, AccessOver,
       Built, accessVars, askedVars
  <2> QED BY <2>1 DEF AccessTypes
<1>7. head'.allow \in Origin \cup {None}
  <2>1. CASE head' = head
    BY <2>1 DEF AccessTypes
  <2>2. CASE head' = NoHead
    BY <2>2, PlainHead
  <2>3. CASE CORS
    <3>1. head' = (IF AddsCors THEN CorsHead ELSE head) /\ pc = "in"
      BY <2>3 DEF CORS, AddsCors
    <3>2. AddsCors => HasCors(service)
      BY <3>1 DEF Assembled, BeforeServing
    <3>3. HeadFor(service, asked.from, asked.preflight).allow \in {asked.from, None}
      BY <1>1, HeadAllows DEF Proper
    <3> QED BY <1>1, <3>1, <3>2, <3>3, CorsHeadIs DEF AccessTypes, Proper
  <2>4. CASE CacheAnswers
    <3>1. PICK e \in cache : (e.head.vary => e.from = asked.from) /\ head' = e.head
      BY <2>4 DEF CacheAnswers
    <3>2. e.head = HeadFor(service, e.from, FALSE)
      BY DEF Stored
    <3>3. e.head = HeadFor(service, asked.from, FALSE)
      BY <3>1, <3>2, SameHead
    <3>4. HeadFor(service, asked.from, FALSE).allow \in {asked.from, None}
      BY <1>1, HeadAllows DEF Proper
    <3> QED BY <1>1, <3>1, <3>3, <3>4 DEF Proper
  <2>5. head' = head \/ head' = NoHead \/ CORS \/ CacheAnswers
    BY DEF AccessNext, NewActuator, NewServer, DefaultMiddleware, MountOn, Tick, ClientAsks, CachePasses,
       Delivered, Authenticate, ServeMux, LogLevel, AccessOver, Built, accessVars, askedVars
  <2> QED BY <2>1, <2>2, <2>3, <2>4, <2>5
<1>8. status' \in {0, 200, 204, 400, 401, 403, 404, 405}
  BY DEF AccessTypes, AccessNext, NewActuator, NewServer, DefaultMiddleware, MountOn, Tick, ClientAsks,
     CacheAnswers, CachePasses, Delivered, CORS, Authenticate, ServeMux, LogLevel, AccessOver,
     Built, Answered, accessVars, askedVars
<1> QED BY <1>1, <1>2, <1>3, <1>4, <1>5, <1>6, <1>7, <1>8 DEF AccessTypes

-----------------------------------------------------------------------------
(* The invariant holds                                                      *)

\* IInv holds at the start,
LEMMA AccessInitially == ASSUME ServicesWellFormed, AccessInit PROVE AccessInv
<1>1. pc = "actuator.New" /\ pc \in BeforeServing /\ pc \notin UnderWay /\ pc \in Building
  BY DEF AccessInit, BeforeServing, UnderWay, Inside, Building
<1>2. mw = <<>> /\ ToSet(mw) = {}
  BY Single DEF AccessInit
<1>3. AccessTypes
  <2>1. service \in Services /\ level \in Levels /\ asked = Idle /\ status = 0
    BY DEF AccessInit, ServicesWellFormed
  <2>2. now \in 0..Horizon
    BY DEF AccessInit, ServicesWellFormed
  <2>3. head.allow \in Origin \cup {None}
    BY PlainHead DEF AccessInit
  <2> QED BY <1>1, <1>2, <2>1, <2>2, <2>3 DEF AccessTypes
<1>4. Assembled
  BY <1>1 DEF Assembled
<1>5. Published
  BY <1>1 DEF AccessInit, Published
<1>6. Mounts
  <2>1. mounted = 0 /\ DOMAIN routes = {}
    BY DEF AccessInit, NoRoutes
  <2>2. Len(Expose(service)) \in Nat
    BY <1>3, ExposeIs DEF AccessTypes
  <2>3. 1..0 = {} /\ 0 \in 0..Len(Expose(service))
    BY <2>2
  <2>4. UNION {Paths(Expose(service)[i]) : i \in 1..mounted} = {}
    BY <2>1, <2>3
  <2>5. pc \notin Serving
    BY <1>1 DEF Serving
  <2> QED BY <1>1, <2>1, <2>3, <2>4, <2>5 DEF Mounts
<1>7. Heads
  BY <1>1 DEF Heads, UnderWay, Inside
<1>8. Stored
  BY DEF AccessInit, Stored
<1>9. Granted
  <2>1. asked.from = None
    BY DEF AccessInit, Idle, Ask
  <2> QED BY <2>1 DEF AccessInit, Granted, MayArrive, MaySend
<1>10. Judged /\ MuxRouted
  BY <1>1 DEF Judged, MuxRouted, UnderWay, Inside
<1> QED BY <1>3, <1>4, <1>5, <1>6, <1>7, <1>8, <1>9, <1>10 DEF AccessInv

\* is kept by every step,
LEMMA Inductive == ASSUME ServicesWellFormed, AccessInv, [AccessNext]_accessVars PROVE AccessInv'
  BY AccessTypesKept, AssembledKept, PublishedKept, MountsKept, HeadsKept, StoredKept, RememberedKept,
     JudgedKept, RoutedKept DEF AccessInv

\* and so holds always.
LEMMA AccessInvariance == ASSUME ServicesWellFormed PROVE AccessSpec => []AccessInv
<1>1. AccessInit => AccessInv
  BY AccessInitially
<1>2. AccessInv /\ [AccessNext]_accessVars => AccessInv'
  BY Inductive
<1> QED BY <1>1, <1>2, PTL DEF AccessSpec

-----------------------------------------------------------------------------
(* What follows                                                             *)

\* What IInv says of each property of the run.
LEMMA Typed == ASSUME ServicesWellFormed, AccessInv PROVE AccessTypeOK
<1>1. \A p \in DOMAIN routes : routes[p] \in [name : Endpoint, guarded : BOOLEAN]
  BY DEF AccessInv, Mounts
<1>2. mounted \in 0..Len(Expose(service))
  BY DEF AccessInv, Mounts
<1>3. \A g \in granted : g.from \in Origin
  BY DEF AccessInv, Granted
<1> QED BY <1>1, <1>2, <1>3 DEF AccessInv, AccessTypes, AccessTypeOK

\* A service that serves was built from sections without a mistake.
LEMMA Whole == ASSUME ServicesWellFormed, AccessInv PROVE WholeOrRefused
<1>1. service \in Services /\ pc \in Building \cup Serving \cup {"refused"}
  BY DEF AccessInv, AccessTypes
<1>2. ~BuildErrs(service) <=> Faultless(service)
  BY <1>1, FaultlessIs
<1>3. pc \in Serving => ~BuildErrs(service)
  <2>1. pc \in Serving => pc \notin BeforeServing
    BY DEF Serving, BeforeServing
  <2> QED BY <2>1 DEF AccessInv, Assembled, BuildErrs, BeforeServing
<1>4. pc = "refused" => BuildErrs(service)
  BY DEF AccessInv, Assembled
<1>5. pc \notin Building => (pc \in Serving <=> Faultless(service))
  BY <1>1, <1>2, <1>3, <1>4 DEF Serving
<1> QED BY <1>5 DEF WholeOrRefused, Faultless, Trusted

\* A page reads by the head, which is that of its origin, and what it needed to
\* arrive its browser was granted.
LEMMA Pages == ASSUME ServicesWellFormed, AccessInv PROVE PagesAsAllowed
<1> DEFINE c == service.cors
<1> DEFINE listed == asked.from \in c.origins \/ "*" \in c.origins
<1> DEFINE credible == asked.credentialed => c.credentials
<1> DEFINE form == asked.method \in Simple /\ asked.token = NoToken /\ ~asked.json
<1> DEFINE named(x, list, default) == x \in (IF list = {} THEN default ELSE list)
<1>1. Proper(asked)
  BY AskedProper DEF AccessInv
<1>2. SUFFICES ASSUME OnApp, asked.from # None
               PROVE  /\ Reads <=> listed /\ credible
                      /\ Reads /\ ~asked.preflight => "X-Request-Id" \in head.exposed
                      /\ ~asked.preflight /\ ~form =>
                            /\ listed /\ credible
                            /\ asked.method \in Simple \/ named(asked.method, c.methods, {"PUT", "PATCH", "DELETE"})
                            /\ asked.token # NoToken => named("Authorization", c.headers, {"Authorization"})
                            /\ asked.json => named("Content-Type", c.headers, {"Content-Type"})
  BY DEF PagesAsAllowed
<1>3. head = HeadFor(service, asked.from, asked.preflight)
  BY <1>2 DEF OnApp, AccessInv, Heads, Inside
<1>4. listed <=> Allows(service, asked.from)
  BY <1>2 DEF Allows, HasCors, NamesOrigin, Wildcard
<1>5. /\ Reads <=> listed /\ credible
      /\ Reads /\ ~asked.preflight => "X-Request-Id" \in head.exposed
  <2>1. CASE Allows(service, asked.from)
    <3>1. /\ head.allow = asked.from /\ head.credentials = c.credentials
          /\ ~asked.preflight => "X-Request-Id" \in head.exposed
      BY <1>3, <2>1, AllowedHead
    <3> QED BY <1>4, <2>1, <3>1 DEF Reads
  <2>2. CASE ~Allows(service, asked.from)
    <3>1. head.allow = None
      BY <1>3, <2>2, OtherHead
    <3> QED BY <1>2, <1>4, <2>2, <3>1 DEF Reads
  <2> QED BY <2>1, <2>2
<1>6. ASSUME ~asked.preflight, ~form
      PROVE  /\ listed /\ credible
             /\ asked.method \in Simple \/ named(asked.method, c.methods, {"PUT", "PATCH", "DELETE"})
             /\ asked.token # NoToken => named("Authorization", c.headers, {"Authorization"})
             /\ asked.json => named("Content-Type", c.headers, {"Content-Type"})
  <2>1. ASSUME NEW n \in Needs(asked)
        PROVE  n \in Granting(c) /\ NamesOrigin(c, asked.from) /\ credible
    BY <1>2, <1>6, <2>1, NeedsGranted DEF AccessInv
  <2>2. listed /\ credible
    <3>1. PICK n \in Needs(asked) : TRUE
      BY <1>6, NeedsAre
    <3> QED BY <2>1, <3>1 DEF NamesOrigin, Wildcard
  <2>3. asked.method \notin Simple => asked.method \in AllowedMethods(c)
    BY <2>1, NeedsAre, GrantedAs
  <2>4. /\ asked.token # NoToken => "Authorization" \in AllowedHeaders(c)
        /\ asked.json => "Content-Type" \in AllowedHeaders(c)
    BY <2>1, NeedsAre, GrantedAs
  <2>5. asked.method \in Simple \/ named(asked.method, c.methods, {"PUT", "PATCH", "DELETE"})
    BY <2>3 DEF AllowedMethods, Simple
  <2>6. /\ asked.token # NoToken => named("Authorization", c.headers, {"Authorization"})
        /\ asked.json => named("Content-Type", c.headers, {"Content-Type"})
    BY <2>4 DEF AllowedHeaders
  <2> QED BY <2>2, <2>5, <2>6
<1> QED BY <1>5, <1>6

\* A principal is known by a token that verifies now.
LEMMA Tokens == ASSUME ServicesWellFormed, AccessInv PROVE TokensJudged
<1> DEFINE t == asked.token
<1>1. SUFFICES ASSUME OnApp, ~asked.preflight
               PROVE  IF t = NoToken \/ ~Uses("authenticate") THEN principal = Nobody
                      ELSE IF Genuine(t)
                      THEN /\ principal.known
                           /\ principal.scopes = (IF Names(t.scope) # {} THEN Names(t.scope)
                                            ELSE Names(t.scp))
                      ELSE principal = Nobody /\ status = 401
  BY DEF TokensJudged
<1>2. pc = "answered" /\ asked.port = "app" /\ Bearer = t
  BY <1>1 DEF OnApp, Bearer
<1>3. Judges <=> ~(t = NoToken \/ ~Uses("authenticate"))
  BY <1>2 DEF Judges, Authenticates
<1>4. CASE ~Judges
  BY <1>2, <1>3, <1>4 DEF AccessInv, Judged, Inside
<1>5. CASE Judges /\ Genuine(t)
  <2>1. principal = PrincipalOf(t)
    BY <1>2, <1>5 DEF AccessInv, Judged, Known, GenuineNow
  <2> QED BY <1>3, <1>5, <2>1, NobodyIs DEF ScopesOf
<1>6. CASE Judges /\ ~Genuine(t)
  <2>1. principal = Nobody /\ status = 401
    BY <1>2, <1>6 DEF AccessInv, Judged, Known, GenuineNow
  <2> QED BY <1>3, <1>6, <2>1
<1> QED BY <1>4, <1>5, <1>6

\* The paths the whitelist names are those there are, once Serve has begun.
LEMMA NamedIs ==
    ASSUME ServicesWellFormed, AccessTypes, Mounts, pc \in Serving
    PROVE  (\E i \in DOMAIN Expose(service) : asked.path \in Paths(Expose(service)[i]))
               <=> asked.path \in DOMAIN routes
<1>1. DOMAIN Expose(service) = 1..mounted
  BY ExposeIs DEF AccessTypes, Mounts
<1>2. DOMAIN routes = UNION {Paths(Expose(service)[i]) : i \in 1..mounted}
  BY DEF Mounts
<1> QED BY <1>1, <1>2

\* Behind operators only a probe is not guarded, and what is guarded is served
\* to who has the scope.
LEMMA Behind ==
    ASSUME Mounts, Found, service.operators, service.addr = Blank, ~IsProbe(asked.path),
           ~RefusedHere
    PROVE  principal.known /\ "actuator" \in principal.scopes
<1>1. routes[asked.path].guarded
  BY DEF Mounts, Found, Guards
<1> QED BY <1>1 DEF RefusedHere, Refused, Scope

\* A probe's GET is taken, is not refused and is not the level's.
LEMMA Probing ==
    ASSUME Mounts, Found, IsProbe(asked.path), Method = "GET"
    PROVE  Taken /\ ~RefusedHere /\ routes[asked.path].name # "loglevel"
<1> DEFINE p == asked.path
<1>1. PICK n \in {"livez", "readyz"} : p \in Paths(n)
  BY DEF IsProbe
<1>2. p \in Paths(routes[p].name) /\ routes[p].name \in Endpoint /\ routes[p].guarded = Guards(service, p)
  BY DEF Mounts, Found
<1>3. NameOf(p) = n /\ NameOf(p) = routes[p].name
  BY <1>1, <1>2, PathsApart DEF Endpoint
<1>4. ~RefusedHere
  BY <1>2 DEF RefusedHere, Refused, Guards
<1>5. Takes(p, "GET")
  BY DEF Takes
<1> QED BY <1>3, <1>4, <1>5 DEF Taken

\* What the mux answered is what the whitelist and the mount say.
LEMMA Whitelisted == ASSUME ServicesWellFormed, AccessInv PROVE WhitelistHolds
<1> DEFINE named == \E i \in DOMAIN Expose(service) : asked.path \in Paths(Expose(service)[i])
<1> DEFINE here == asked.port = IF service.addr = Blank THEN "app" ELSE "private"
<1> DEFINE refusal == IF asked.port = "app" THEN {401, 204} ELSE {}
<1>1. pc # "panicked"
  BY DEF AccessInv, AccessTypes, Building, Serving
<1>2. SUFFICES ASSUME pc = "answered", asked.path # <<"orders">>
               PROVE  /\ status = 404 => ~named \/ ~here
                      /\ ~named \/ ~here => status \in {404} \cup refusal
                      /\ named /\ here /\ IsProbe(asked.path) /\ asked.token = NoToken
                            /\ asked.method = "GET" /\ ~asked.preflight => status = 200
                      /\ status = 200 /\ service.operators /\ service.addr = Blank
                            /\ ~IsProbe(asked.path) => "actuator" \in principal.scopes
  BY <1>1 DEF WhitelistHolds
<1>3. Found <=> named /\ here
  <2>1. pc \in Serving
    BY <1>2 DEF Serving
  <2> QED BY <2>1, NamedIs DEF AccessInv, Found
<1>4. Taken => Found
  BY DEF Taken
<1>5. \/ asked.port = "app" /\ status = 204 /\ asked.preflight
      \/ asked.port = "app" /\ status = 401 /\ Bearer # NoToken
      \/ ~Found /\ status = 404
      \/ Found /\ ~Taken /\ status = 405
      \/ Taken /\ RefusedHere /\ status \in {401, 403}
      \/ /\ Taken /\ ~RefusedHere /\ status # 404
         /\ status = 200 \/ routes[asked.path].name = "loglevel"
  BY <1>2 DEF AccessInv, MuxRouted
<1>6. status = 404 => ~named \/ ~here
  BY <1>3, <1>4, <1>5
<1>7. ~named \/ ~here => status \in {404} \cup refusal
  BY <1>3, <1>4, <1>5
<1>8. ASSUME named, here, IsProbe(asked.path), asked.token = NoToken, asked.method = "GET",
             ~asked.preflight
      PROVE  status = 200
  <2>1. Method = "GET" /\ Bearer = NoToken /\ Found
    BY <1>3, <1>8 DEF Method, Bearer
  <2>2. Taken /\ ~RefusedHere /\ routes[asked.path].name # "loglevel"
    BY <1>8, <2>1, Probing DEF AccessInv
  <2> QED BY <1>5, <1>8, <2>1, <2>2
<1>9. ASSUME status = 200, service.operators, service.addr = Blank, ~IsProbe(asked.path)
      PROVE  "actuator" \in principal.scopes
  <2>1. Taken /\ ~RefusedHere
    BY <1>5, <1>9
  <2> QED BY <1>4, <1>9, <2>1, Behind DEF AccessInv
<1> QED BY <1>6, <1>7, <1>8, <1>9

\* What a step that sets the level has to be.
SetByOperator ==
    level' # level =>
        /\ asked.method = "PUT" /\ ~asked.preflight /\ status' = 200
        /\ level' = asked.body.level
        /\ service.operators /\ service.addr = Blank =>
              /\ asked.token # NoToken /\ Genuine(asked.token) /\ "actuator" \in principal.scopes
              /\ asked.from # None => OriginAllowed /\ "PUT" \in AllowedMethods(service.cors)

\* The level is set at the end of a way that a guard is on.
LEMMA Operated == ASSUME ServicesWellFormed, AccessInv, [AccessNext]_accessVars PROVE SetByOperator
<1>1. SUFFICES ASSUME level' # level
               PROVE  /\ asked.method = "PUT" /\ ~asked.preflight /\ status' = 200
                      /\ level' = asked.body.level
                      /\ service.operators /\ service.addr = Blank =>
                            /\ asked.token # NoToken /\ Genuine(asked.token)
                            /\ "actuator" \in principal.scopes
                            /\ asked.from # None => OriginAllowed /\ "PUT" \in AllowedMethods(service.cors)
  BY DEF SetByOperator
<1>2. LogLevel
  BY <1>1 DEF AccessNext, NewActuator, NewServer, DefaultMiddleware, MountOn, Tick, ClientAsks, CacheAnswers,
     CachePasses, Delivered, CORS, Authenticate, ServeMux, AccessOver, Built, accessVars
<1>3. pc = "loglevel" /\ Method = "PUT" /\ status' = 200 /\ level' = asked.body.level
  BY <1>1, <1>2 DEF LogLevel, Sets, Answered
<1>4. asked.method = "PUT" /\ ~asked.preflight
  BY <1>3 DEF Method
<1>5. ASSUME service.operators, service.addr = Blank
      PROVE  /\ asked.token # NoToken /\ Genuine(asked.token)
             /\ "actuator" \in principal.scopes
             /\ asked.from # None => OriginAllowed /\ "PUT" \in AllowedMethods(service.cors)
  <2>1. Taken /\ Found /\ ~RefusedHere /\ routes[asked.path].name = "loglevel"
    BY <1>3 DEF AccessInv, MuxRouted, Taken
  <2>2. asked.port = "app"
    BY <1>5, <2>1 DEF Found
  <2>3. ~IsProbe(asked.path)
    <3>1. asked.path \in Paths("loglevel") /\ "loglevel" \in Endpoint
      BY <2>1 DEF AccessInv, Mounts, Found, Endpoint
    <3>2. NameOf(asked.path) = "loglevel"
      BY <3>1, PathsApart
    <3>3. ASSUME NEW n \in {"livez", "readyz"}, asked.path \in Paths(n) PROVE FALSE
      <4>1. NameOf(asked.path) = n
        BY <3>3, PathsApart DEF Endpoint
      <4> QED BY <3>2, <4>1
    <3> QED BY <3>3 DEF IsProbe
  <2>4. principal.known /\ "actuator" \in principal.scopes
    BY <1>5, <2>1, <2>3, Behind DEF AccessInv
  <2>5. Judges
    <3>1. principal # Nobody
      BY <2>4, NobodyIs
    <3> QED BY <1>3, <2>2, <3>1 DEF AccessInv, Judged, Inside
  <2>6. asked.token # NoToken /\ Genuine(asked.token)
    <3>1. Known
      BY <1>3, <2>2, <2>5 DEF AccessInv, Judged
    <3> QED BY <2>5, <3>1 DEF Judges, Bearer, Known, GenuineNow
  <2>7. ASSUME asked.from # None PROVE OriginAllowed /\ "PUT" \in AllowedMethods(service.cors)
    <3>1. <<"method", "PUT">> \in Needs(asked)
      BY <1>4, NeedsAre DEF Simple
    <3>2. NamesOrigin(service.cors, asked.from) /\ <<"method", "PUT">> \in Granting(service.cors)
      BY <1>4, <2>7, <3>1, NeedsGranted DEF AccessInv
    <3> QED BY <3>2, GrantedAs DEF OriginAllowed, NamesOrigin
  <2> QED BY <2>4, <2>6, <2>7
<1> QED BY <1>3, <1>4, <1>5

-----------------------------------------------------------------------------
(* The theorems                                                             *)

\* Every variable of the model keeps its type: the routes are of endpoints, the
\* heads allow an origin or none, the grants are of origins.
THEOREM AccessTyped == ASSUME ServicesWellFormed PROVE AccessSpec => []AccessTypeOK
<1>1. AccessInv => AccessTypeOK
  BY Typed
<1> QED BY <1>1, AccessInvariance, PTL

\* A service gets to Serve if and only if there is no mistake in its sections:
\* half a TLS pair, an endpoint that is none, a wildcard with credentials, a jwt
\* section begun and not finished, keys nobody could trust (web.New,
\* actuator.New, security.DefaultMiddleware).
THEOREM MistakesRefused == ASSUME ServicesWellFormed PROVE AccessSpec => []WholeOrRefused
<1>1. AccessInv => WholeOrRefused
  BY Whole
<1> QED BY <1>1, AccessInvariance, PTL

\* Through preflights, browsers that remember them and a shared cache, a page
\* reads what its origin and its credentials allow, and nothing but a plain GET
\* arrives that the section does not (cors.go).
THEOREM OriginsKept == ASSUME ServicesWellFormed PROVE AccessSpec => []PagesAsAllowed
<1>1. AccessInv => PagesAsAllowed
  BY Pages
<1> QED BY <1>1, AccessInvariance, PTL

\* Who comes with a token is served as whom the issuer meant, or not at all,
\* whatever the algorithms, kids, claims and clocks (authn.go, keys.go).
THEOREM TokensCount == ASSUME ServicesWellFormed PROVE AccessSpec => []TokensJudged
<1>1. AccessInv => TokensJudged
  BY Tokens
<1> QED BY <1>1, AccessInvariance, PTL

\* The actuator serves what its whitelist names, on its one listener, to whom it
\* may, and only an operator sets the level (actuator.go, http-secure/main.go).
THEOREM GuardKept == ASSUME ServicesWellFormed PROVE AccessSpec => ActuatorGuarded
<1>1. AccessInv => WhitelistHolds
  BY Whitelisted
<1>2. AccessInv /\ [AccessNext]_accessVars => [SetByOperator]_accessVars
  BY Operated
<1>3. AccessSpec => []WhitelistHolds
  BY <1>1, AccessInvariance, PTL
<1>4. AccessSpec => [][SetByOperator]_accessVars
  BY <1>2, AccessInvariance, PTL DEF AccessSpec
<1>5. [][SetByOperator]_accessVars => OperatorsOnly
  BY PTL DEF SetByOperator, OperatorsOnly
<1> QED BY <1>3, <1>4, <1>5, PTL DEF ActuatorGuarded

-----------------------------------------------------------------------------
(* The three sides of Http together.                                        *)

\* Whichever side is looked at, the state of each of the three keeps its types:
\* a step of one of them leaves the others alone.
THEOREM HttpTyped ==
    ASSUME WiringsWellFormed, InOrder, ServicesWellFormed
    PROVE  HttpSpec => []HttpTypeOK
<1>1. HttpInit => Init /\ TelemetryInit /\ AccessInit
  BY DEF HttpInit
<1>2. [HttpNext]_httpVars =>
         /\ [Next]_vars /\ [TelemetryNext]_telemetryVars /\ [AccessNext]_accessVars
  BY DEF HttpNext, httpVars, requestVars
<1>3. HttpSpec => Spec /\ TelemetrySpec /\ AccessSpec
  BY <1>1, <1>2, PTL DEF HttpSpec, Spec, TelemetrySpec, AccessSpec
<1>4. (Spec => []TypeOK) /\ (TelemetrySpec => []TelemetryTypeOK) /\ (AccessSpec => []AccessTypeOK)
  BY TypeCorrect, TelemetryTyped, AccessTyped
<1>. QED
  BY <1>3, <1>4, PTL DEF HttpTypeOK
=============================================================================
