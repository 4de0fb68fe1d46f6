------------------------------- MODULE KeySet -------------------------------
(***************************************************************************)
(* The key set of security/jwks.go: the keys Authenticate verifies tokens  *)
(* with, read from one of three sources and read again on an unknown kid,  *)
(* at most once per Floor, under one mutex.                                *)
(*                                                                         *)
(* A request carries a token that names a kid, or none, and was signed by  *)
(* some key.  The source is external: the issuer's endpoint or the file,   *)
(* which keys come and go from and which may be unreadable.  The parser    *)
(* tries each key it is handed, so it accepts the token exactly when the   *)
(* signing key is one of them.                                             *)
(*                                                                         *)
(* Time is the age of things, counted up to Old: nothing looks further.    *)
(*                                                                         *)
(* A definition marked as a mutant is the one after it with a bug; nothing *)
(* uses it but the checks that a property would notice the bug.            *)
(***************************************************************************)
EXTENDS Naturals

CONSTANTS
    Request,
    Key,
    Kid, NoKid,
    KidOf,      \* [Key -> Kid or NoKid], the kid a key is published under
    NoToken, NoAnswer,
    Floor,      \* minRefetch
    Timeout     \* jwksTimeout

Token == [kid : Kid \cup {NoKid}, key : Key]

ASSUME KeySetAssumption ==
    /\ NoKid \notin Kid
    /\ NoToken \notin Token
    /\ KidOf \in [Key -> Kid \cup {NoKid}]
    /\ Floor \in Nat \ {0} /\ Timeout \in Nat \ {0}
    \* both are ten seconds (jwks.go:45, 51)
    /\ Timeout <= Floor

VARIABLES
    \* the source
    source,     \* "url", "file" or "pem": the one the config names
    up,         \* it can be read
    published,  \* the keys it holds
    \* the keySet
    cached,     \* keys
    fetched,    \* the age of k.fetched; Old if there never was one
    \* the requests
    req,        \* [Request -> idle/wait/load/accepted/refused]
    token,
    answer,     \* what the source answered the load in progress, under the mutex
    \* history
    since,      \* [Key -> how long it has been published]
    lastRead,   \* what the last read that worked has brought
    readAge,    \* how long ago a read last began
    failAge     \* how long ago a read last failed

sourceVars == <<source, up, published, since>>
vars == <<sourceVars, cached, fetched, req, token, answer, lastRead, readAge, failAge>>

Old == Floor + 1
Age == 0..Old
Older(a) == IF a < Old THEN a + 1 ELSE Old

TypeOK ==
    /\ source \in {"url", "file", "pem"}
    /\ up \in BOOLEAN
    /\ published \subseteq Key
    /\ cached \subseteq Key
    /\ fetched \in Age /\ readAge \in Age /\ failAge \in Age
    /\ req \in [Request -> {"idle", "wait", "load", "accepted", "refused"}]
    /\ token \in [Request -> Token \cup {NoToken}]
    /\ \A r \in Request : token[r] \in Token <=> req[r] \in {"wait", "load"}
    /\ answer = NoAnswer \/ answer \subseteq Key
    /\ since \in [Key -> Age]
    /\ lastRead \subseteq Key
    \* the mutex
    /\ \A r, s \in Request : req[r] = "load" /\ req[s] = "load" => r = s

\* A file source is read when the keySet is built, and has to be readable then;
\* the first read of a URL is that of the first token.
Init ==
    /\ source \in {"url", "file", "pem"}
    /\ published \in SUBSET Key
    /\ up \in BOOLEAN
    /\ source # "url" => up /\ published # {}
    /\ cached = IF source = "url" THEN {} ELSE published
    /\ fetched = IF source = "file" THEN 0 ELSE Old
    /\ req = [r \in Request |-> "idle"]
    /\ token = [r \in Request |-> NoToken]
    /\ answer = NoAnswer
    /\ since = [k \in Key |-> 0]
    /\ lastRead = cached /\ readAge = fetched /\ failAge = Old

-----------------------------------------------------------------------------
(* The source, and time                                                     *)

Publish(k) ==
    /\ k \notin published
    /\ published' = published \cup {k}
    /\ since' = [since EXCEPT ![k] = 0]
    /\ UNCHANGED <<source, up, cached, fetched, req, token, answer, lastRead, readAge, failAge>>

Withdraw(k) ==
    /\ k \in published
    /\ published' = published \ {k}
    /\ since' = [since EXCEPT ![k] = 0]
    /\ UNCHANGED <<source, up, cached, fetched, req, token, answer, lastRead, readAge, failAge>>

GoesDownOrUp ==
    /\ up' = ~up
    /\ UNCHANGED <<source, published, since, cached, fetched, req, token, answer>>
    /\ UNCHANGED <<lastRead, readAge, failAge>>

Loading == \E r \in Request : req[r] = "load"

\* The client gives up a read once it has taken Timeout.
Tick ==
    /\ Loading => readAge < Timeout
    /\ since' = [k \in Key |-> IF k \in published THEN Older(since[k]) ELSE 0]
    /\ fetched' = Older(fetched) /\ readAge' = Older(readAge) /\ failAge' = Older(failAge)
    /\ UNCHANGED <<source, up, published, cached, req, token, answer, lastRead>>

-----------------------------------------------------------------------------
(* keyfunc                                                                  *)

Arrive(r) ==
    /\ req[r] \notin {"wait", "load"}
    /\ \E t \in Token : token' = [token EXCEPT ![r] = t]
    /\ req' = [req EXCEPT ![r] = "wait"]
    /\ UNCHANGED <<sourceVars, cached, fetched, answer, lastRead, readAge, failAge>>

\* candidates: the keys under the kid, or all of them when the token names none
\* or the source is keyless.
Candidates(keys, kid) ==
    IF source = "pem" \/ kid = NoKid THEN keys ELSE {k \in keys : KidOf[k] = kid}

\* What keyfunc hands back decides the token; mu is released with it.
Decide(r, handed) ==
    /\ req' = [req EXCEPT ![r] = IF token[r].key \in handed THEN "accepted" ELSE "refused"]
    /\ token' = [token EXCEPT ![r] = NoToken]

\* Mutant: mu is not held across the read.
LocksAnyway(r) == req[r] = "wait"
Locks(r) == req[r] = "wait" /\ ~Loading

Holds(r) == Candidates(cached, token[r].kid) # {}

Known(r) ==
    /\ Locks(r) /\ Holds(r)
    /\ Decide(r, Candidates(cached, token[r].kid))
    /\ UNCHANGED <<sourceVars, cached, fetched, answer, lastRead, readAge, failAge>>

\* Mutant: a source that has been read is never read again.
ReadOnce == cached # {}
TooSoon == fetched < Floor

\* refresh has no source to go back to, or went back less than Floor ago.
NotRead(r) ==
    /\ Locks(r) /\ ~Holds(r)
    /\ source = "pem" \/ TooSoon
    /\ Decide(r, {})
    /\ UNCHANGED <<sourceVars, cached, fetched, answer, lastRead, readAge, failAge>>

\* Mutant: stamped only when the read has worked.
StampLater == fetched
Stamp == 0

BeginRead(r) ==
    /\ Locks(r) /\ ~Holds(r)
    /\ source # "pem" /\ ~TooSoon
    /\ fetched' = Stamp /\ readAge' = 0
    /\ req' = [req EXCEPT ![r] = "load"]
    /\ UNCHANGED <<sourceVars, cached, token, answer, lastRead, failAge>>

\* The body is on its way; what happens at the source from here on is not in it.
SourceAnswers ==
    /\ Loading /\ answer = NoAnswer /\ up
    /\ answer' = published
    /\ UNCHANGED <<sourceVars, cached, fetched, req, token, lastRead, readAge, failAge>>

\* Mutant: a key once read is kept.
Merged == cached \cup answer
Replaced == answer

ReadWorks(r) ==
    /\ req[r] = "load" /\ answer \notin {NoAnswer, {}}
    /\ cached' = Replaced /\ lastRead' = answer
    /\ Decide(r, Candidates(cached', token[r].kid))
    /\ answer' = NoAnswer
    /\ UNCHANGED <<sourceVars, fetched, readAge, failAge>>

\* Mutant: mu stays locked behind a read that failed.
ReadFailsLocked(r) ==
    /\ req[r] = "load" /\ answer = NoAnswer /\ (~up \/ readAge >= Timeout)
    /\ failAge' = 0
    /\ UNCHANGED <<sourceVars, cached, fetched, req, token, answer, lastRead, readAge>>

\* Refused, timed out, or nothing in the answer that verifies a signature.
ReadFails(r) ==
    /\ req[r] = "load"
    /\ answer = {} \/ (answer = NoAnswer /\ (~up \/ readAge >= Timeout))
    /\ Decide(r, {})
    /\ answer' = NoAnswer /\ failAge' = 0
    /\ UNCHANGED <<sourceVars, cached, fetched, lastRead, readAge>>

-----------------------------------------------------------------------------
Source == GoesDownOrUp \/ \E k \in Key : Publish(k) \/ Withdraw(k)

Enter(r) == Known(r) \/ NotRead(r) \/ BeginRead(r)

Read(r) == ReadWorks(r) \/ ReadFails(r)

Next ==
    \/ Source \/ Tick \/ SourceAnswers
    \/ \E r \in Request : Arrive(r) \/ Enter(r) \/ Read(r)

Spec == Init /\ [][Next]_vars

\* Time passes, a read ends at the latest with its timeout, and a sync.Mutex
\* hands itself over to whoever has waited for long.
Fairness ==
    /\ WF_vars(Tick)
    /\ \A r \in Request : SF_vars(Enter(r)) /\ WF_vars(Read(r))

FairSpec == Spec /\ Fairness

-----------------------------------------------------------------------------
(* Properties                                                               *)

\* A token is accepted only on a key of the last set that could be read: once a
\* read has shown that a key was withdrawn, nothing it signed verifies
\* (jwks.go:212-214).
TrustsLastRead ==
    [][\A r \in Request :
        req[r] # "accepted" /\ req'[r] = "accepted" => token[r].key \in lastRead']_vars

\* Two reads never begin within Floor of each other, however many requests with
\* unknown kids wait for the mutex and however the reads end (jwks.go:45-48,
\* 205-206).
FloorKept ==
    [][\A r \in Request :
        req[r] # "load" /\ req'[r] = "load" => readAge >= Floor]_vars

\* What a read of the source decides: who is trusted, and when the next may be.
ReadsRespected == TrustsLastRead /\ FloorKept

\* The request is refused in this step, although its signing key has been
\* published for longer than Floor and no read has failed in that time.
RefusedInVain(r) ==
    /\ req[r] # "refused" /\ req'[r] = "refused"
    /\ source # "pem"
    /\ token[r].key \in published /\ since[token[r].key] > Floor
    /\ token[r].kid = KidOf[token[r].key]
    /\ failAge' > Floor

\* No other key has the kid this one is published under.
OwnKid(k) == KidOf[k] # NoKid /\ \A j \in Key : KidOf[j] = KidOf[k] => j = k

\* A new key under a kid of its own verifies tokens within Floor of its
\* publication (jwks.go:48-49).
NewKidHeals ==
    [][\A r \in Request : RefusedInVain(r) => ~OwnKid(token[r].key)]_vars

\* No request waits for ever, whatever the source does.
Answered == \A r \in Request : req[r] = "wait" ~> req[r] \notin {"wait", "load"}

\* jwks.go:48-49: "and a real key rotation heals within ten seconds rather than
\* within one."
RotationHeals == [][\A r \in Request : ~RefusedInVain(r)]_vars
=============================================================================
