# A specification of go-boot

go-boot is a small application framework for Go services: an `App` starts and
stops a list of Components, and a Starter package per technology (web, gRPC,
database, Kafka, RabbitMQ, security, actuator, tracing) provides one of them.
This directory holds TLA+ modules that model the parts of it where goroutines,
brokers, contexts and clocks meet, TLC configurations that check them on small
instances, and proofs, checked by TLAPS, that hold for every instance.

Paths below are relative to the repository's root (`src/` in `PROJECT.json`).
`PROJECT.json` lists, for every definition, the lines of code it stands for.

    tlc -workers 2 -config Rabbit_delivery.cfg MCRabbit.tla
    tlapm RabbitProofs.tla


## 1. Inventory

| component | state it keeps | operations | what is hard about it |
|---|---|---|---|
| **App lifecycle** `app.go`, `goboot.go` | the Components and their order, how many run, `ready`, the death channel, `stopWatch` | `Add`, `Start`, `Stop`, `Run`, `Checks`, `Ready` | one driver, one watcher goroutine per Component that can die, two timeouts, a drain delay, signals captured and handed back, the caller's context |
| **RabbitMQ consumer** `rabbit/rabbit.go` | `conn`, `ch`, `closing`, `fatal`, the consume loop | `Start`, `Drain`, `Stop`, `Check`; the loop receives, handles, settles, redials | a redial racing Drain and Stop; settling on a connection that is gone; who cancels what first |
| **Kafka consumer** `kafka/kafka.go` | two contexts, `closing`, `fatal`, the client's position, the group's commit | `Start`, `Drain`, `Stop`, `Check`; the loop polls, handles partitions in parallel, commits | partial failure of a batch; rebalances; a commit that fails; cancellation racing a poll |
| **JWT authentication** `security/authn.go`, `jwks.go` | cached keys, the time of the last read, a mutex | `Authenticate`, `keyfunc`, `refresh` | many requests and one fetch; staleness; the floor between reads |
| **Actuator** `actuator/actuator.go` | the Checks pulled at Start, `draining`, an own listener, the log level | `Start`, `Drain`, `Stop`, `livez`, `readyz`, `loggers`, `info`, metrics | a probe overlapping start and shutdown |
| **gRPC health** `grpc/health/health.go` | none of its own: reads the App | `Check` | agreeing with the Actuator without sharing its flag |
| **Web server** `web/web.go`, `respond.go` | a listener, the server, a death channel | `Start`, `Stop`, `Handle`, encoding of answers | serve failing on its own against Stop |
| **Web middleware** `web/middleware.go` | one recorder per request | `Recovery`, `Logging`, `RequestID` | panics before and after the header, informational statuses, hijacked connections |
| **gRPC** `grpc/grpc.go`, `reflection/` | none | handler options, an error sanitiser | what a caller may be told of an error or a panic, and where it is written down |
| **Metrics** `web/metrics`, `grpc/metrics` | library counters, one recorder per request | middleware | counting what the client will get while a panic is still on its way to `Recovery` |
| **Tracing** `trace/`, `preset/traced` | an exporter inside the OpenTelemetry library | `Start`, `Stop`, three middlewares | one span per request; the route is written on a request that not everybody holds; flushing within the stop budget |
| **Database** `db/db.go` | a pool; the schema version in the database | `Start` (ping, migrate), `Stop`, `Check`, `WithTx` | one end per transaction; several pods migrating at once |
| **CORS and headers** `security/cors.go`, `security.go` | none | per-request header rules | what browsers and shared caches make of them later |
| **Configuration** `config.go` | none | `Load` merges four files and the environment over what is filled in | precedence, null sections, spellings, a mistake in any layer |
| **Logger context** `logger.go` | a context value | with and from | whose logger a layer finds |
| **Presets** `preset/` | none | wiring | nothing of its own |
| **Scaffold command** `cmd/goboot/main.go` | a directory on disk | copy a template | a copy that fails half way, a second try, two at once |
| **Examples, prototypes, test helpers** | | | not part of the library |

How they interact:

- The App calls every Component's `Start`, `Drain` and `Stop` from one goroutine,
  lowest `Tier` first on the way up and last on the way down. A Component talks
  back only over the channel its `Start` returned (its death).
- The Actuator and gRPC health ask the App for `Ready` and, respectively, for the
  `Checks` of its Components, from request goroutines.
- The consumers run a goroutine of their own between `Start` and `Stop`; `Drain`
  and `Stop` are called on the App's goroutine and race it.
- `Authenticate` runs on every request goroutine and meets the others in the key
  set's mutex.

What makes each correct:

- *App*: dependencies outlive what uses them through start, failed start and stop;
  readiness falls before anything is withdrawn; everything drains before anything
  stops; nothing is left running; a death, a signal or the caller ends `Run`, and
  a hanging Component cannot keep it; the reason is reported; no goroutine leaks.
- *Consumers*: at-least-once: a broker forgets a message only after a handler
  succeeded on it, through broken connections, rebalances, refused commits and
  shutdown; a clean stop leaves nothing behind; an outage is survived and a
  refusal is fatal; Stop returns whatever a handler does.
- *Key set*: nothing verifies on a key the source is known to have withdrawn; the
  issuer is not read more often than the floor; a rotated key becomes usable;
  every request is answered.
- *Probes*: never UP over an outage or after a drain; no Check runs on a Component
  that has not started.
- *Web*: a panic before an answer becomes one and a later one adds nothing to it, an
  abort cuts the connection, and the access line says what the client was sent; in
  whatever order the middleware was listed, nobody reaches a handler he may not call; a
  shutdown is told from a death.
- *Database*: no pod serves on a schema that is not there yet, each migration takes
  effect once and in order, and a transaction ends the way `WithTx` says it did.
- *Configuration*: a field has what the highest layer that names it says; a source that
  is not sound and a mistake that no higher layer takes back, and nothing else, stop the
  start.
- *Security*: a section begun and not finished builds nothing; a token counts for
  what the issuer meant, in its time; a page reads what its origin may, also out of
  a shared cache, and sends no more than a form could unless the section allows it;
  only operators set the log level.
- *Telemetry*: the access line, the counters and the spans agree with each other and
  with what the client got.
- *Scaffold*: half a project never looks whole, and nothing is written over.

The hazards, each at its line and with the properties that would notice it, are
listed in `PROJECT.json` under `hazards`.


## 2. The modules

    AppContract      what an App promises from outside          (abstract)
      ^ implemented by
    Lifecycle        app.go                                     AppProofs
      ^ extended by
    Readiness        actuator + gRPC health, composed with the App
                                                                AppProofs

    AtLeastOnce      what both consumers promise of a message   (abstract)
      ^ implemented by                    ^ implemented by
    Rabbit           rabbit/rabbit.go     Kafka   kafka/kafka.go
    RabbitProofs                          KafkaProofs

    KeySet           security/jwks.go                           KeySetProofs

    Request          web/, and the middleware of security/      RequestProofs
    Telemetry        Logging, metrics, trace and the connect options
                                                                TelemetryProofs
    Access           actuator, cors, jwt: a service as examples/http-secure builds it
                                                                AccessProofs
      Http           the three, side by side                    AccessProofs
      MCHttp

    Scaffold         cmd/goboot new                             StartupProofs
    Config           config.go: Load                            StartupProofs
    Database         db/db.go and the migrate subcommand        StartupProofs
      Startup        the three, side by side                    StartupProofs
      MCStartup

    MCLifecycle, MCReadiness, MCRabbit, MCKafka, MCKeySet, MCTelemetry, MCAccess
                     the instances TLC explores

Http and Startup put modules that share no state into one search: a variable of
theirs (`side`, `story`) says which of them a behaviour is about, and the other two stay
in an initial state, in the instances in one. The names of modules that are extended
together are kept apart by the module's own (`TelemetryInit`, `accessVars`, `ConfigNext`).

A definition whose comment calls it a mutant is the definition that follows with a
plausible bug. Nothing uses it. Substituted for the real one it makes TLC report
the property it is listed with in `PROJECT.json`: that is how each property
is known to depend on the code, and not on the shape of the model.

### Lifecycle

| in the module | in `app.go` |
|---|---|
| `comps`, `order`, `started`, `ready`, `death`, `stopWatch` | the fields of `App` |
| `watchChan` | the channel `stopWatch` holds or held; closing it twice would panic |
| `pc`, `cursor` | where the goroutine in `Start`, `Run` or `Stop` stands, and its loop index |
| `mode` | driven by `Run`, or by a caller that uses `Start` and `Stop` |
| `budget` | the `WithTimeout` of `Start` or `stopStarted` |
| `delay` | how the drain delay ended |
| `callerDone`, `signals`, `signalled` | the caller's context, `signal.NotifyContext` and `stopSignals` |
| `status`, `drained`, `errc`, `watcher` | each Component as the App's calls left it; its death channel; its watcher goroutine |

A call into a Component takes time: between the step that enters it and
`StartReturns`, `StartFails` or `StopReturns`, anything else may happen: deaths,
signals, deadlines. `Drain` is one step, as a Drainer returns at once by contract.
The sort is stated, not executed: the order is the one permutation that is sorted
by Tier and stable. `Checks` and `Ready` only read and appear in Readiness.
`AppContract` is the same App as a load balancer or a database sees it: a set of
live Components that grows and shrinks at the top, and a phase.

### Readiness

Every step of Lifecycle, plus a readiness probe over HTTP or gRPC that is asked,
tests `Ready`, collects its Checks and runs them one by one, while dependencies
fail and come back. The Actuator pulls its Checks in its own `Start` (Components
above it have not started by then) and has a draining flag; gRPC health
pulls them on each probe and has none. The Components' Checks themselves are
"fails while its dependency is sick, and may fail once it has been stopped".

### Rabbit

`place` is the broker's view of each message; `conn` and `consuming` the last
connection and the consumer on it; `installed` whether the fields `c.conn`, `c.ch`
hold it (a redial dials, consumes, and only then installs); `buffer` what the
client was sent and the loop has not received; `loop` where the consume loop
stands; `fresh` whether the delivery in hand belongs to the present connection,
so that settling it has an effect; `main` where the goroutine in `Start`, `Drain`,
`Stop` stands. The two halves of `Drain` (set `closing`, then read `c.ch`) and the
four of `Stop` (drain, wait, cancel, close) are steps of their own because the loop
runs between them. `overtook` remembers that a dial was under way when the shutdown
began. The broker and the AMQP client are external.

### Kafka

`committed` is the group's offset, `position` the client's, `from`/`upto` the batch
in hand, `at` and `task` the goroutine per partition, `commit` how the last commit
ended. `closing` stands for both the flag and the cancelled `pollCtx` (`Drain` sets
one right after the other, and both are only tested in places where either
ends the loop). `Revoke` and `Restore` are a rebalance to another member, `Replace`
a kill and restart. The cluster and franz-go are external; what is assumed of the
client is that a poll hands out each record of an assignment once, and that only a
new assignment goes back to the commit. The package's stated exception, where a
group that has never committed begins, is left out: the model starts from a group
that has.

### KeySet

`cached` and `fetched` are the key set's fields; the mutex is "some request is
loading"; `req`, `token`, `answer` are the requests, one of which may be inside
`load`. Times are ages, counted up to `Floor + 1`, beyond which nothing looks. A
token is its kid and the key that signed it; parsing, algorithms, claims and
scopes are left out. The three sources differ as in the code: a PEM is never
read again and has no kids, a file is read when the key set is built, a URL with
the first token.

### Request

One request at a time on its way through `chain`, the slice a service passed to
`Use` followed by what guards the route: `at` is who has it, `flow` whether it is on
its way in, out, or unwinding with a panic or `ErrAbortHandler`. Each middleware is an
action for its first half; only `Logging` and `Recovery` have a second. `out` holds
the recorder each of these two put in (`Recovery` puts in none when it was
handed one) and, beside them, what net/http has taken: its first final status, the
headers of that moment, whose text is in the body, and whether the connection was
hijacked behind the recorders. The handler is any sequence of 1xx, status, write,
flush, hijack, a failing RPC trailer, return, panic or abort. `server` is the
listener, which may break, the serving goroutine, the death channel and the call of
`Stop`, which may begin at any moment of all this; what `Serve` returns is one step of
the model with what the goroutine makes of it (`ServeReturned`, `Reported`). Tokens are
verified or not: how is KeySet's matter. Header values, origins, request IDs and encodings are left out.

### Telemetry

The same way in and out, looked at by those who write down what they see: `place` and
`heading` are Request's `at` and `flow`. `objs` are the `http.Request`s that `r.WithContext` makes one of
the other, `held` the one each middleware's `r` is, `pattern` whether ServeMux has
filled it in: that is how the route can be known to one layer and not to another.
`rec` has the recorders of `Logging`, `Recovery` and `web/metrics`, `err` what goes from
one interceptor to the next, `answer` what the caller of an RPC is told. A handler
returns, fails with an error it chose or one it did not, panics or aborts. Which
layers there are, in which order, is a constant.

### Access

One service, built constructor by constructor as `examples/http-secure/main.go` does it
(`pc` names the next one; any error ends it), and then asked by clients, pages and
probes while `now` moves on. `keys` is the key set as parsed, `routes` what
`MountOn` has registered and behind which guard, `mounted` how far it is in the
whitelist, which it goes through one entry to a step, as the loop in `routes` does;
`head` is what CORS put on the answer, `principal` what `Authenticate` put in the context.
Outside, `cache` is a shared cache in front of the application's listener that keeps what has
no token and honours `Vary`, `granted` the preflights a browser remembers, by origin, path and
credentials. The browser is the one of the Fetch standard: a GET, HEAD or POST that a form
could send goes out from any page (and `cors.go:137` passes it on whatever its
origin), any other method, a token or a JSON body only after a preflight that
named it. A `"*"` among the methods or headers of a section, and when a preflight expires,
are left out. A token is what golang-jwt looks at: algorithm, kid, the key that signed, issuer, audience,
expiry, and its two scope claims by shape and content. The properties say what is
allowed in terms of the configuration and the issuer's document and not of the
functions that decide it. Durations are units of the default leeway. A preflight and
a request are one step per middleware; when the key set is read again is KeySet's.

### Config

A document is a function from canonical paths to values, which is the nested map of the
code written flat; a path that others extend holds `Section`. `Load` is one action per
check, per YAML file, per line of a `.properties` file, per variable of the sorted
environment, and for the decode; `doc` is the map a parser's loop has made so far,
`merged` what the sources before have come to. `Merge` works as `merge` does, top down, and
`Set` is `set`, which is a merge of one path. A YAML file is a map and its lines have no
order, so it is one step. Of a text only what the decode tells apart is kept: the kind the
YAML parser or `parseValue` gives it, whether `ParseDuration` reads it, and whether
a list has anything but texts in it. `Fits` is what mapstructure and the two hooks take for
each type of field. The name of a variable is kept beside its path, because
`profileOf` looks at it before it is split (`<PREFIX>PRO__FILE` picks a profile).

The properties know no documents and no merging. Every line of every source is a
*saying*, with its layer, line, path and value; a later line of the same source takes back
one about a related path, a higher layer overrules one. `HighestLayerWins` says of
each field that it is what the saying that stands makes of it, `RefusedForAMistake` that
`Load` returns nil exactly when every source is as it has to be and every saying that
stands is about a field, of a kind that `MayBeSaidOf` its type: a table of the
property's own, from the documentation and not from the decode. A mistake that a
higher layer takes back is not refused; section 4 says so.

### Scaffold

One action per file: any number of `goboot new` at once, each of which may fail or be
killed at any of its steps, leaving a file half written; a developer who removes a
directory or edits a project that is finished. `met` remembers which invocations
overlapped, because two at once into one directory do mix and the code does not claim
otherwise.

### Database

Every process of a rollout: pods that migrate on start, pods that refuse to, and the
migration Job. `applied` is the schema, `lock` goose's session lock, `at` and `next` how
far a process is. A `Start` may fail at each step, which is also how its budget
ends, and a process may die at each step. `tx` is a pod's transaction as the
database has it, `call`, `verdict` and `told` what `WithTx` knows of it; the request's
context may end, and the database or database/sql's own goroutine may roll back,
between any two steps of `WithTx`. A service without migrations of its own, for which
`Start` is the ping alone, is left out.


## 3. What the runs check

A passing run explores every behaviour of its instance.

| run | instance | what it shows |
|---|---|---|
| `Lifecycle_app` | four Components in three Tiers, two of them in one Tier, two in different Tiers with one name; two that die, three that drain and one that does neither; up to two manual `Stop`s | every order of `Add`, every failing or hanging start or stop, deaths, signals, deadlines: start, drain and stop happen in the promised order (`OrderKept`), nothing is left running and a repeated `Stop` is harmless (`StopsClean`), `Run` waits out the drain delay, a second signal kills and a death is reported (`RunAsPromised`). Every behaviour is one `AppContract` allows; every phase ends, a request or a death ends `Run`, no watcher leaks |
| `Readiness_probe` | an Actuator with its own listener, a checked pool, a web server with gRPC health | neither probe answers UP over an outage that lasted as long as the probe, nor when asked after the first Drain, and no Check runs on a Component that has not started |
| `Rabbit_delivery` | two messages, prefetch 2, two breaks, errors requeue | no consumer comes back behind a Drain (`NothingNewBehindDrain`) but by a dial that was under way when it began; a Stop that returned nil leaves no connection, consumer, loop or unsettled delivery; only a refusal is fatal; at-least-once; a consumer that lost its connection receives again or ends for a reason, a redial notices the shutdown, Stop returns |
| `Rabbit_interrupted` | the same with `DiscardOnError` | *fails*, finding 1 |
| `Kafka_delivery` | two partitions of two records, two moves, commits may be refused | records of a partition are handled in order, at-least-once, a clean Stop commits the last batch, no handler gets new work after Drain |
| `Kafka_failing` | one partition of three records, one move, handlers fail too | the group skips only what a failure abandoned; a running consumer gets to every record; Stop returns |
| `Kafka_skipped` | two partitions, handlers fail | *fails*, finding 2 |
| `KeySet_rotation` | two requests, two keys with a kid each, floor and timeout of one tick | tokens verify only on the last set read; reads keep the floor, however many requests wait; a new kid heals within the floor; every request is answered |
| `KeySet_nokid` | the same, neither keys nor tokens with a kid | *fails*, finding 3 |
| `Http`, Request | seven chains: the default set with a guarded route, the same without `Recovery`, without `Logging`, with the two swapped, with the scope listed before the authentication, with what may answer in the handler's place listed outside the default set, and an open route; every token, a preflight and a probe | a panic leaves a 500, or what had been sent and nothing more, an abort a cut connection, and every answer carries the headers; the access line has its status and level; only who may call a handler reaches it; a clean `Stop` leaves no request behind, `errc` has an error only if the listener broke and nil only if the Server is being stopped |
| `Http`, Telemetry | seven slices: the two default ones, each with metrics, metrics between `Logging` and `Recovery`, no `Logging`, and authentication outside everything; three lists of connect options; HTTP, gRPC, Connect and a bare POST, every token, routed or not | `RecordsAgree`: line, counters and spans name the route the request took and the status the client got, after a panic too; a request has one span, ended, and exported if `Stop` had time; a caller is told only what a handler chose to say, and every failure is written where the access line leads |
| `Http`, Access | some forty services: thirteen jwt sections with one mistake each, every source of keys, five cors sections, four whitelists, guarded or not, a private listener; fifteen tokens in and out of time, pages of two origins with and without cookies that read, send forms, tokens and JSON, operators, probes | exactly the configurations with a mistake are refused; a token is judged as its issuer means it; a page reads what its origin may and sends, beyond what a form could, what the section allows; the whitelist holds, and the log level is set by operators only |
| `Telemetry_route` | the documented wiring of a service with authentication | *fails*, finding 4 |
| `Startup`, Scaffold | three invocations out of six command lines, two of them into one directory, both flavours | a directory with a `go.mod` holds one whole project; nothing is written over what another invocation or a developer has put there |
| `Startup`, Config | every combination of three or more contents of the four files (missing, right, misspelt, of the wrong kind, a fraction for a whole number, a text that is no duration, a list of something else than texts, null, unreadable, contradictory), nine environments, two formats, embedded or not: some nine thousand calls of `Load` | each field has the value of the highest layer that names it, under any spelling and any order of the environment; a source that is not sound and a mistake that no higher layer takes back are refused, and nothing else is |
| `Startup`, Database | a pod that migrates on start, one that does not, a Job, two migrations, PostgreSQL's lock | each migration takes effect once and in order, no pod serves before all of them, `WithTx` says nil only for a commit and commits nothing that failed or panicked |

Some properties are conjunctions of parts that are named, and proved, one by one:
`EverythingEnds`, `EndsHonestly`, `NeverStuck`, `DrainsCleanly`, `ReadsRespected`,
`ProbeFollowsApp`, `NeverHalfDone`, `RecordsAgree`, `ActuatorGuarded`.

### Bounds

- *Components* (up to 4): two Tiers and a pair inside one are what ordering needs; a
  duplicate name needs two. More are covered by the proofs.
- `MaxStops = 2`: the second `Stop` is the interesting one; a third starts from the
  same state as the second.
- *Messages and prefetch* 2: one in a handler and one in the client's buffer, and
  one settlement that could touch another message. `MaxBreaks = 2`: a second outage
  during the redial after the first.
- *Partitions* 2, `LogEnd` 2 or 3: a batch of one partition may lag or fail while
  another goes on, a second batch can commit past what the first left. `MaxMoves`:
  a rebalance and a restart, in either order; `Kafka_failing` takes one of
  either.
- *Ages* up to `Floor + 1`: the code compares with `Floor` only, the properties
  with "longer than `Floor`".
- *Requests* one at a time: they share nothing in the modelled code but the server,
  whose `Stop` can meet a request at every point of its way. Chains have every
  order of the middleware that changes what one of them sees.
- *Invocations* 3: one that fails, a second try and one beside them. A project is one
  or two files and `go.mod`: first, middle and last.
- *Layers* in Config are those the code has. A struct with a section of two fields and two
  scalars beside it: a path can be extended, replaced, zeroed and opened again, and there is
  a field for each way of converting (a number, a text, a list, a duration).
- `Horizon = 3` in Access: a token becomes valid, is valid, runs out, and runs out of its
  leeway. One request at a time; what one leaves behind is the cache, the
  preflights, the key set and the level.
- *Migrations* 2: a prefix can be there when a process dies. Two migrating processes
  and one that asks; pods are not bounded in how often they die.
- Symmetry is used in runs without liveness properties only.

### Fairness

None is assumed of signals, deaths, callers, faults or arrivals. Assumed are:

- *Lifecycle*: the driver's own steps and each watcher (the scheduler runs a
  runnable goroutine), the budget's timer, and that a Component returns at the
  latest once the context of its call is over, which is the contract of
  `Component`. Nothing makes a hanging Start return before that.
- *Rabbit*: the loop and the goroutine in `Stop`; a broker that is down comes back
  (and may go down again while breaks last); a handler returns once its context is
  cancelled. A handler that has not been cancelled may run for ever.
- *Kafka*: the loop, the goroutine in `Stop`, the other member giving a partition back,
  and handlers that return while the consumer runs or once they are cancelled. Between
  Drain and the cancellation a handler may hang: Stop must not need it.
- *Request*, *Telemetry*, *Access*, *Config*, *Scaffold* and *Database*: nothing, as only
  safety is stated of them.
- *KeySet*: time passes and a read ends with its timeout; strong fairness for
  entering the mutex, because a waiter of `sync.Mutex` is handed the lock after a
  millisecond of starvation.


## 4. Where the code does something else than it says

Each has a run that finds the disagreement; `PROJECT.json` quotes both sides.

1. *An interrupted handler's message is discarded* (`rabbit/rabbit.go:361`). Stop
   cancels the handlers before it closes the connection, so with `DiscardOnError`
   the handler's error is nacked without requeue on a connection that still works,
   where the comment says that the broker redelivers it.
2. *A failed record is skipped* (`kafka/kafka.go:342`). After a handler error the
   loop polls on from the client's position, and the next commit moves the group
   past the failed record, which only a restart or rebalance before that commit
   would have delivered again.
3. *A rotation without kids never heals* (`security/jwks.go:160`). A token that names
   no kid has every cached key as a candidate, so nothing ever triggers a read.
4. *An authenticated request is logged without its route* (`web/middleware.go:119`). In the
   wiring the README and `security.go:70` show, `Authenticate` sits inside `Logging` and
   goes on with `r.WithContext(...)`; ServeMux fills in the pattern on that new request, and
   `Logging` reads its own. The same empties the span's name where `RouteSpanName` is
   outside it; `trace.go:142-145` knows the rule, the wiring breaks it.

Noticed, and stated by no run:

- *A redial can outlive a Stop that gave up* (`rabbit/rabbit.go:208`). `dial` ignores its
  context and installs the connection without looking at `closing`. If Stop gives
  up while the loop is inside, `closeBroker` finds nothing to close, and a connection with
  a live consumer appears afterwards, where line 345 says that Stop closes it.
  `main = "stopped" => conn # "up"` is violated in `MCRabbit`; after a Stop that returned
  nil it holds, which is part of `EndsHonestly`. In the same window a Drain
  finds no channel and cancels nothing, which is why `NothingNewBehindDrain` excepts
  the dial that was under way (`overtook`).
- Kafka's branch for a Stop that gave up (`kafka/kafka.go:364`: "Commit what is genuinely
  finished") commits on the context Stop has just cancelled, so that the commit fails
  and those records are delivered twice.
- With `jwksTimeout` equal to `minRefetch`, requests that queue behind an issuer
  that hangs each make a read of their own, one after the other, because the floor
  is over when the first gives up.
- `Recovery` returns normally after a panic in the middle of a body, so that the client
  takes a truncated body for a whole one, although the comment says "Log it and let the
  connection close" (`web/middleware.go:203-205`). `AnswerIntact` demands neither:
  only that nothing is appended.
- A mistake in a layer is refused only if it still stands when everything is merged
  (`config.go:74-77`): `server: 3` or a misspelt key in a section passes where a higher
  layer replaces or empties it. And mapstructure takes a number with a fraction
  for an integer or a duration and cuts it (`8080.7` is port 8080), where `config.go:38-39` and
  `docs/spec.md` say that the decode reports type mismatches. The runs state what
  happens: `RefusedForAMistake` is about what stands, and `Means` has the cut value.
- A null section in a file zeroes what the Starter had filled in, unless a
  later layer opens the section again: then the pre-filled values come back. A variable
  of the environment that names a section replaces it whole, or is itself
  silently overruled by one that names a key inside. The profile, spelt twice, is settled by
  the order of `os.Environ`, which every other variable is sorted out of
  (`config.go:83`, `217`).
- On a private actuator listener the guard of `examples/http-secure` is not in front:
  who reaches the port sets the level. `ActuatorGuarded` says so by its hypothesis.


## 5. What is proved

The proofs assume what the modules assume of their constants (`LifecycleAssumption`,
`RabbitAssumption`, `KafkaAssumption`, `KeySetAssumption`, `ReadinessAssumption`,
`RequestAssumption`, `DatabaseAssumption`, `ScaffoldAssumption`, `ConfigAssumption`): sets
are what they are called, the bounds are natural numbers, model values are outside the sets
they complement; in KeySet, that the timeout of a read does not exceed the floor; in
Request, that no middleware is listed twice; in Scaffold, that a project has no file twice
and no `go.mod` of its own, and that no invocation is called "developer"; in Config, that no
leaf of the struct is on the way to another, and that the ranks of the variables are their
places in the sorted environment. The theorems about Telemetry and Access name their
hypotheses, which `HttpAssumption` of MCHttp instantiates and TLC evaluates:
`WiringsWellFormed` and `ServicesWellFormed` say what kind of thing a slice, a request or a
section is; `InOrder` that the middleware is in an order the packages' comments ask for,
which finding 4 is about and `Telemetry_route` leaves out. They hold for every number of
Components, Tiers, messages, requests, keys, processes, migrations and invocations of
`goboot new`, every prefetch and bound, every order and choice of middleware, every
configuration, document and token, every project, and every struct, file and environment a
service is configured by.

**AppProofs**, Lifecycle: every invariant of `Lifecycle_app`, part by part, and `Implements`.
"Dependencies outlive" is not inductive: nothing in it says that Components come
up along the order. `IInv` adds what is: `OrderSorted` (the order has no Component
twice and is sorted by Tier), `UpIsPrefix` (what runs is a prefix of the order,
and the driver's position says which), `Rising` (until a failure or a shutdown
nothing is drained, stopped or failed, and `ready` means that everything is up), `Falling`
(how much has been drained at each place of a shutdown), `Channels` (`stopWatch` is
set only while its channel is open) and `AnnounceBeforeTeardown` itself. The lemmas
`SortedStep`, `PrefixStep`, `RisingStep`, `FallingStep`, `ChannelsStep` and
`AnnounceStep` preserve one conjunct each; `Invariance` combines them. The properties
of `Run` need history on top (`Taken`, `CauseKnown` for the reported cause) and have
their own invariants there. `Refinement` maps `pc` to the phase of `AppContract`;
its two interesting steps are `GrowStep` and `ShrinkStep`: a Component that
starts or stops is at the top of what runs, by `UpIsPrefix` and `OrderSorted`.

**RabbitProofs**: the invariants of `Rabbit_delivery` and, without `DiscardOnError`,
that the consumer implements `AtLeastOnce`, for which `SettledByVerdict` says that the
broker forgets a message only on the handler's word about it. The strengthening says
that deliveries, the consumer and a fresh delivery in hand live on a connection that is
up, and that one that is up is installed or about to be (`Carried`); that what the loop
has in hand is consistent with where it stands (`InHand`); and what each place of
Start and Stop implies of the loop (`Standing`). A clean stop leaves nothing because by
`Standing` the loop is gone, so that by `Carried` a connection that is up is an
installed one, which `closeBroker` closes. `Behind` is `NothingNewBehindDrain` with what it
needs: behind a Drain `closing` is set, and a loop that is inside dial all the same was
there when it was set.

**KeySetProofs**: the type invariant and the three action properties. `Agreed` says
that the cache is the last set read, its stamp the age of the last read, and that an
answer is there only for a read that is under way; `Missed` says that a published
key the cache lacks came after the last read began, unless that read failed.
`FloorKept` follows from `fetched` and `readAge` agreeing, `NewKidHeals` from `Missed`.

**KafkaProofs**: every safety property of `Kafka_delivery` and `Kafka_failing`, for any
number of partitions, records and moves. The strengthening has four parts:
`Standing`, where the loop, its goroutines and Stop stand relative to each other;
`Resumable`, that what is ahead of the commit, of a batch and of the client's position
has been handled or abandoned, or will have been when the batch is over, unless Stop
gave up on it, and then nothing is polled again; `Ordered`, that everything ahead of a
handled record was handled; and `Settled`, that a batch that is over is committed or
its commit failed. `HandledInOrder` and `KeepsAtLeastOnce` need that
handlers fail only by being interrupted (`"handler" \notin Faults`), which is what
finding 2 is about; `LossOnlyByFailure` and the rest hold without it.

**AppProofs**, Readiness: the invariants of `Readiness_probe`, on top of Lifecycle's `IInv`,
since every step of the composition is a step of Lifecycle or leaves it alone.
`ChecksHeld` says that the Checks the Actuator pulled, and those a probe still has to
run, belong to Components that had started; `UnderWay` that a probe asked after a Drain
is past neither test; `Pending` that over a dependency which was sick all the while the
probe is DOWN already or still has that Check to come. `OutageShows` has the hypothesis
that HTTP is answered by an Actuator with a listener of its own.

**RequestProofs**: every invariant of Request that `Http` checks, for any slices. `Coupled` is the
core: the recorders in the way of a write have the status net/http has, unless the
connection was hijacked, and none is on that the request has not passed. The lemmas
`WriteHeaderSends`, `BegunSends`, `WriteSends` and `WriteProblemSends` show that every
write keeps the two together. `Guarded` is what having passed a middleware says of
the request, from which `HandlerEntitled` follows at the handler; `Watched` that past
`Logging` and `Recovery` a recorder is on for them; `Carried` that what is sent past
whatever sets a header has it; `Told` that a line, once written, is what net/http
has sent or will send by itself; `Aftermath` what a panic leaves owing until
`Recovery`, which it cannot pass. The steps come in six kinds (`PassesOn`, `Refuses`,
`RunsHandler`, `MovesOut`, the two second halves, and what net/http and the Server do),
and each kind is one lemma.

**StartupProofs**, Database: the three invariants of Database that `Startup` checks, for any pods, Jobs and
migrations, with the session lock or without. `Turn` says that whoever applies has
every migration before its next one behind it, and, where there is a lock, holds it
and has everything from there on ahead: a list that goose read before is
still the list it works through. `InCall` says where a `WithTx` stands and what there is of its
transaction by then, which is why an answer of nil is one about a commit.

**StartupProofs**, Scaffold: the three properties of Scaffold that `Startup` checks. The invariant
relates the history `met` to the disk. `HaveMet` says that two invocations writing into
one directory know of each other; `FoundByMeeting` that what an invocation finds where
it writes is by one that it has met, since there was nothing when it looked; `OwnDirectory`
that one that met nobody has exactly the files there that it has written so far, each
whole and its own or edited since. A `go.mod` is then next to a whole project because it
comes after the others, and stays so because whoever could spoil it must have met its
author. The lemmas `EndKeeps`, `StatKeeps`, `MakeDirKeeps`, `PutKeeps`, `EditKeeps` and
`RemoveKeeps` are one for each effect a step can have.

**StartupProofs**, Config: both properties of `Load`, for any struct, any files and any
environment. The bridge between documents and sayings is `Holds(d, said)`: the document
has a section on the way to each saying, the saying's value at its path, nothing else,
and no saying of it is on the way to another. `MergeHolds` shows what `Merge` does in these
terms: of the lower document stays what is beside (related to nothing of) the upper one,
and all of the upper one is there; `SetHolds` is the same for one line and `YAMLHolds` for a
file without a clash. With that the invariant `ConfigInv` says what each document is at each
step, by induction over the steps and not over lists: `merged` holds what the layers below
have said and not overruled (`Below`), `doc` what the lines before have said and not
taken back (`Before`), and the sources behind are as they have to be (`Behind`,
`Within`). `Ascent` shows that the order of the sources is the order of the layers,
whatever is embedded and whether there is a profile; `BelowTheNext`, `OneMoreLine` and
`OneIdleLine` how the two sets grow. At the end `DecodesTheUnderstood` says that the strict
decode accepts a document exactly when every saying in it would bind, which needs that no
field of the struct is within another and, in `BindsWhatMayBeSaid`, that the decode binds to
a field what the documentation says of its type; `DecodedMeans` what it makes of a field.

**TelemetryProofs**: `RecordsAgree`, for any slices and connect options in order.
It is about the end of a request, so each of its parts needs to be known while
the request is on its way. `Where` says where it can be; `Seen` that every recorder on the
stack has what net/http has sent; `Routing` that whoever reads the route on the way out
holds the last request made, which is the one ServeMux fills in: here `InOrder` is
needed. `Spans` says that a span is open only while its layer is on the stack; `Lines` and
`Counted` that what has been written down is still what was sent, since nothing
outside can send any more; `Replies` that a bare error is inside the sanitiser and a
failure already written. A step is first shown to be one of a few kinds of movement
(`Moving`), of writing (`Writing`), of what it does to the requests, spans, lines, counters and
errors (`Holding`, `Tracing`, `Logs`, `Counts`, `Tells`); each part of the invariant is then kept
by the kinds, without the actions.

**AccessProofs**: the four properties of Access, for any configurations, key sets, tokens,
clients and clocks. They are stated in terms of the configuration and the issuer's
document, the code decides by functions; the first lemmas close that distance
(`KeysForIs`, `FaultlessIs`, `PublishedIs`, `TimelyIs`). `Assembled` says that what has been built
was built from sections without a mistake, hence `WholeOrRefused`. `Published` ties the
keys to the one source, and `Judged` the principal of a request under way to a token
that verifies at this moment, hence `TokensJudged`. `Heads` says that a head is the one of the request's
origin; a stored answer's must be too (`Stored`), and that only what everybody may
have is stored needs `Mounts` (a route is guarded as its endpoint is) and `MuxRouted` (how the mux came to
its answer). `Granted` says that every preflight a browser remembers was granted by the
section, from which `PagesAsAllowed` follows. `ActuatorGuarded` combines `Mounts`, `MuxRouted` and
`Judged`; that no pattern is registered twice, which would panic, is `MountsKept`.

`StartupTyped` and `HttpTyped` put the three type theorems of a search together, from the
fact that a step of one part is a stutter of the others.

Every safety property of every passing run is a theorem. Not proved, only model-checked, is
what needs fairness (`EverythingEnds`, `NeverStuck`, `Answered`), which TLAPS does not
do. What a text parses to (`parseValue`, the YAML parser) and the fold of `merge` over a
nested map are functions of the model and not results: the text is abstracted, and a
recursive definition could not be reasoned about by induction.


## 6. What is not modelled, and why

- The interiors of franz-go, the AMQP client, `net/http`, connect-go, OpenTelemetry,
  goose and `database/sql`: external, modelled as far as the code relies on them.
- Wording of errors and logs, histograms' durations and buckets, the text of configuration
  values, of scaffolded files and of security headers: no property is about them.
- Cryptography and the parsing of tokens: golang-jwt's. What a token says, who
  signed it and when is Access.
- Request IDs, the encoding and decoding of bodies (`web/respond.go`): one request's data.
- Handlers of the Actuator other than `readyz` and `loglevel`: `livez` answers always, the
  rest are libraries' handlers behind the whitelist.
- Streaming RPCs: the sanitiser and the recorder treat their one error as a unary
  handler's. A failure that connect writes into the body, which `Logging` cannot see
  (`web/middleware.go:148-150`), is no part of Request.
- Migrations outside a transaction: in Database a migration and its row in the version
  table take effect together. A function that ends the transaction `WithTx` gave it.
- A directory that is removed while an invocation of `goboot new` writes into it: in Scaffold
  it goes when nobody is at work there.
- Why a PEM file counts as readable: `ReadsPem`, the three shapes `readPEMPublicKey` knows, is
  used by the code's side and by `WholeOrRefused`, which is therefore not about it.
- In Kafka a handler that fails because it was cancelled counts as one that failed:
  `LossOnlyByFailure` lets it leave records behind, `HandledInOrder` and `KeepsAtLeastOnce`,
  where handlers fail in no other way, do not.
- Where a consumer group that never committed begins: the package comment names it
  as the one exception to at-least-once.
- Presets and `goboot`'s scaffolded `main`s: wiring of the modelled parts, whose slices are
  among the instances of Telemetry and Request.
- Examples other than `http-secure`, prototypes, measurements, generated code, test
  brokers and databases: not part of the library.


## 7. Plan

Done, in this order, the most important behaviour first: Lifecycle with AppContract,
Rabbit and Kafka with AtLeastOnce, KeySet, Readiness, Request, Database, proofs of the
safety properties of all of them; then Config, Scaffold with its proofs, Telemetry and
Access, the proofs of these two, and Config one line to a step with its proofs.

Next:

1. The presets' start sequence with Lifecycle: which Components a preset adds, in which
   Tier, and what an error half way through `Full` leaves open.
2. A death of the web server in the App: Request's `server` under Lifecycle's watcher,
   with the Actuator's listener as a second instance.
3. `Database` without migrations of its own, where `Start` is the ping alone.

A deeper property replaces a weaker one rather than joining it.
