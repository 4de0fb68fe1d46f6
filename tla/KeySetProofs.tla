---------------------------- MODULE KeySetProofs ----------------------------
(***************************************************************************)
(* The key set's floor, its trust and its rotation, for any requests, keys *)
(* and kids, and any Floor that is not below Timeout.                      *)
(***************************************************************************)
EXTENDS KeySet, TLAPS

\* The keySet agrees with the history, and an answer is there only for a read
\* that is under way and within its timeout.
Agreed ==
    /\ fetched = readAge
    /\ cached = lastRead
    /\ Loading => readAge <= Timeout /\ source # "pem"
    /\ ~Loading => answer = NoAnswer

\* A published key that a finished read has missed came after it began, unless
\* that read failed; one that a pending answer misses came after it as well.
Missed ==
    /\ \A k \in published : k \notin cached /\ ~Loading /\ source # "pem" =>
          failAge <= readAge \/ since[k] <= readAge
    /\ answer # NoAnswer => \A k \in published : k \notin answer => since[k] <= readAge

IInv == TypeOK /\ Agreed /\ Missed

-----------------------------------------------------------------------------
\* Ages stay ages, never get smaller, and keep their order.
LEMMA Ages ==
    /\ \A a \in Age : Older(a) \in Age /\ a <= Older(a)
    /\ \A a, b \in Age : a <= b => Older(a) <= Older(b)
    /\ 0 \in Age /\ Old \in Age /\ Floor < Old
BY KeySetAssumption DEF Age, Old, Older

\* A keySet just built, from each of the three sources.
LEMMA InitIInv == Init => IInv
<1> SUFFICES ASSUME Init PROVE IInv
  OBVIOUS
<1>1. TypeOK
  <2>1. since \in [Key -> Age] /\ fetched \in Age /\ readAge \in Age /\ failAge \in Age
    BY Ages DEF Init
  <2>2. \A r \in Request : req[r] = "idle" /\ token[r] = NoToken
    BY DEF Init
  <2> QED
    BY <2>1, <2>2, KeySetAssumption DEF Init, TypeOK
<1>2. ~Loading
  BY DEF Init, Loading
<1>3. Agreed
  BY <1>2 DEF Init, Agreed
<1>4. Missed
  BY Ages, KeySetAssumption DEF Init, Missed, Age, Old
<1> QED
  BY <1>1, <1>3, <1>4 DEF IInv

\* Deciding r's token ends r and nobody else.
LEMMA DecideTypes ==
    ASSUME TypeOK, NEW r \in Request, NEW keys, Decide(r, keys)
    PROVE  /\ req' \in [Request -> {"idle", "wait", "load", "accepted", "refused"}]
           /\ token' \in [Request -> Token \cup {NoToken}]
           /\ \A s \in Request : token'[s] \in Token <=> req'[s] \in {"wait", "load"}
           /\ \A s \in Request : req'[s] = "load" => req[s] = "load" /\ s # r
<1>1. req'[r] \in {"accepted", "refused"} /\ token'[r] = NoToken
  BY DEF Decide, TypeOK
<1>2. \A s \in Request \ {r} : req'[s] = req[s] /\ token'[s] = token[s]
  BY DEF Decide, TypeOK
<1>3. /\ req' \in [Request -> {"idle", "wait", "load", "accepted", "refused"}]
      /\ token' \in [Request -> Token \cup {NoToken}]
  BY DEF Decide, TypeOK
<1> QED
  BY <1>1, <1>2, <1>3, KeySetAssumption DEF TypeOK

\* What the source does on its own, and time.
LEMMA SourceStep == IInv /\ (Source \/ Tick \/ SourceAnswers) => IInv'
<1> SUFFICES ASSUME IInv, Source \/ Tick \/ SourceAnswers PROVE IInv'
  OBVIOUS
<1> USE DEF IInv
<1>1. ASSUME NEW k \in Key, Publish(k) PROVE IInv'
  <2>1. TypeOK'
    BY <1>1, Ages DEF Publish, TypeOK
  <2>2. Agreed'
    BY <1>1 DEF Publish, Agreed, Loading
  <2>3. Missed'
    BY <1>1, Ages, KeySetAssumption DEF Publish, Missed, TypeOK, Loading, Age, Old
  <2> QED
    BY <2>1, <2>2, <2>3
<1>2. ASSUME NEW k \in Key, Withdraw(k) PROVE IInv'
  <2>1. TypeOK'
    BY <1>2, Ages DEF Withdraw, TypeOK
  <2>2. Agreed'
    BY <1>2 DEF Withdraw, Agreed, Loading
  <2>3. Missed'
    BY <1>2, Ages, KeySetAssumption DEF Withdraw, Missed, TypeOK, Loading, Age, Old
  <2> QED
    BY <2>1, <2>2, <2>3
<1>3. CASE GoesDownOrUp
  BY <1>3 DEF GoesDownOrUp, TypeOK, Agreed, Missed, Loading
<1>4. CASE Tick
  <2>1. TypeOK'
    BY <1>4, Ages DEF Tick, TypeOK
  <2>2. Agreed'
    BY <1>4, KeySetAssumption DEF Tick, Agreed, Loading, Older, TypeOK, Age, Old
  <2>3. Missed'
    BY <1>4, Ages DEF Tick, Missed, TypeOK, Loading
  <2> QED
    BY <2>1, <2>2, <2>3
<1>5. CASE SourceAnswers
  <2>1. TypeOK'
    BY <1>5 DEF SourceAnswers, sourceVars, TypeOK
  <2>2. Agreed'
    BY <1>5 DEF SourceAnswers, sourceVars, Agreed, Loading
  <2>3. Missed'
    BY <1>5 DEF SourceAnswers, sourceVars, Missed, TypeOK, Loading
  <2> QED
    BY <2>1, <2>2, <2>3
<1> QED
  BY <1>1, <1>2, <1>3, <1>4, <1>5 DEF Source

\* What a request does.
LEMMA RequestStep ==
    ASSUME IInv, NEW r \in Request, Arrive(r) \/ Enter(r) \/ Read(r)
    PROVE  IInv'
<1> USE DEF IInv
<1>1. CASE Arrive(r)
  <2>1. TypeOK'
    BY <1>1, KeySetAssumption DEF Arrive, TypeOK, sourceVars
  <2>2. Loading' = Loading
    BY <1>1 DEF Arrive, Loading, TypeOK
  <2> QED
    BY <1>1, <2>1, <2>2 DEF Arrive, Agreed, Missed, sourceVars
<1>2. CASE Known(r) \/ NotRead(r)
  <2>1. PICK keys : Decide(r, keys)
    BY <1>2 DEF Known, NotRead
  <2>2. ~Loading /\ ~Loading'
    BY <1>2, <2>1, DecideTypes DEF Known, NotRead, Locks, Loading
  <2>3. TypeOK'
    BY <1>2, <2>1, DecideTypes DEF Known, NotRead, TypeOK, sourceVars
  <2> QED
    BY <1>2, <2>2, <2>3 DEF Known, NotRead, Agreed, Missed, sourceVars
<1>3. CASE BeginRead(r)
  <2>1. TypeOK'
    BY <1>3, Ages DEF BeginRead, TypeOK, sourceVars, Locks, Loading, Stamp
  <2>2. Loading'
    BY <1>3 DEF BeginRead, Loading, TypeOK
  <2>3. answer' = NoAnswer
    BY <1>3 DEF BeginRead, Locks, Agreed
  <2> QED
    BY <1>3, <2>1, <2>2, <2>3, KeySetAssumption
       DEF BeginRead, Agreed, Missed, Stamp, sourceVars
<1>4. CASE ReadWorks(r)
  <2>1. PICK keys : Decide(r, keys)
    BY <1>4 DEF ReadWorks
  <2>2. Loading /\ ~Loading'
    BY <1>4, <2>1, DecideTypes DEF ReadWorks, Loading, TypeOK
  <2>3. answer \subseteq Key /\ cached' = answer
    BY <1>4 DEF ReadWorks, TypeOK, Replaced
  <2>4. TypeOK'
    BY <1>4, <2>1, <2>3, DecideTypes DEF ReadWorks, TypeOK, sourceVars
  <2> QED
    BY <1>4, <2>2, <2>3, <2>4 DEF ReadWorks, Agreed, Missed, sourceVars
<1>5. CASE ReadFails(r)
  <2>1. PICK keys : Decide(r, keys)
    BY <1>5 DEF ReadFails
  <2>2. Loading /\ ~Loading'
    BY <1>5, <2>1, DecideTypes DEF ReadFails, Loading, TypeOK
  <2>3. TypeOK'
    BY <1>5, <2>1, DecideTypes, Ages DEF ReadFails, TypeOK, sourceVars
  <2> QED
    BY <1>5, <2>2, <2>3 DEF ReadFails, Agreed, Missed, sourceVars, TypeOK, Age
<1> QED
  BY <1>1, <1>2, <1>3, <1>4, <1>5 DEF Enter, Read

\* Nothing changes.
LEMMA Stuttering == IInv /\ UNCHANGED vars => IInv'
BY DEF IInv, TypeOK, Agreed, Missed, Loading, vars, sourceVars

\* IInv holds at first and every step keeps it.
THEOREM Invariance == Spec => []IInv
<1>1. IInv /\ [Next]_vars => IInv'
  BY SourceStep, RequestStep, Stuttering DEF Next
<1> QED
  BY InitIInv, <1>1, PTL DEF Spec

\* Every reachable state is well typed, and one request at most reads.
THEOREM TypeCorrect == Spec => []TypeOK
<1>1. IInv => TypeOK
  BY DEF IInv
<1> QED
  BY Invariance, <1>1, PTL

\* A request that is decided in this step has locked the mutex and found the
\* keys it was handed, or had read them.
LEMMA Decided ==
    ASSUME IInv, [Next]_vars, NEW r \in Request,
           NEW v \in {"accepted", "refused"}, req[r] # v, req'[r] = v
    PROVE  Known(r) \/ NotRead(r) \/ Read(r)
<1>1. CASE UNCHANGED vars
  BY <1>1 DEF vars
<1>2. CASE Source \/ Tick \/ SourceAnswers
  BY <1>2 DEF Source, Publish, Withdraw, GoesDownOrUp, Tick, SourceAnswers
<1>3. ASSUME NEW s \in Request, Arrive(s) \/ Enter(s) \/ Read(s) PROVE Known(r) \/ NotRead(r) \/ Read(r)
  <2>1. CASE Arrive(s)
    BY <2>1 DEF Arrive, IInv, TypeOK
  <2>2. CASE BeginRead(s)
    BY <2>2 DEF BeginRead, IInv, TypeOK
  <2>3. CASE Known(s) \/ NotRead(s) \/ Read(s)
    <3>1. PICK keys : Decide(s, keys)
      BY <2>3 DEF Known, NotRead, Read, ReadWorks, ReadFails
    <3>2. r = s
      BY <3>1 DEF Decide, IInv, TypeOK
    <3> QED
      BY <2>3, <3>2
  <2> QED
    BY <1>3, <2>1, <2>2, <2>3 DEF Enter
<1> QED
  BY <1>1, <1>2, <1>3 DEF Next

\* The verdict is whether the signing key was among those handed over.
LEMMA Verdict ==
    ASSUME IInv, NEW r \in Request, NEW keys, Decide(r, keys)
    PROVE  req'[r] = "accepted" <=> token[r].key \in keys
BY DEF IInv, TypeOK, Decide

\* Whatever is accepted was signed by a key of the last set that could be read
\* (jwks.go:212-214).
THEOREM AlwaysTrustsLastRead == Spec => TrustsLastRead
<1>1. ASSUME IInv, [Next]_vars, NEW r \in Request, req[r] # "accepted", req'[r] = "accepted"
      PROVE  token[r].key \in lastRead'
  <2>1. Known(r) \/ NotRead(r) \/ Read(r)
    BY <1>1, Decided
  <2>2. CASE Known(r)
    BY <1>1, <2>2, Verdict DEF Known, Candidates, IInv, Agreed
  <2>3. CASE NotRead(r) \/ ReadFails(r)
    BY <1>1, <2>3, Verdict DEF NotRead, ReadFails
  <2>4. CASE ReadWorks(r)
    BY <1>1, <2>4, Verdict DEF ReadWorks, Candidates, Replaced
  <2> QED
    BY <2>1, <2>2, <2>3, <2>4 DEF Read
<1>2. IInv /\ [Next]_vars =>
        [\A r \in Request :
            req[r] # "accepted" /\ req'[r] = "accepted" => token[r].key \in lastRead']_vars
  BY <1>1
<1> QED
  BY Invariance, <1>2, PTL DEF Spec, TrustsLastRead

\* Reads never begin within Floor of each other (jwks.go:45-48, 205-206).
THEOREM FloorAlwaysKept == Spec => FloorKept
<1>1. ASSUME IInv, [Next]_vars, NEW r \in Request, req[r] # "load", req'[r] = "load"
      PROVE  readAge >= Floor
  <2>1. CASE UNCHANGED vars \/ Source \/ Tick \/ SourceAnswers
    BY <1>1, <2>1 DEF vars, Source, Publish, Withdraw, GoesDownOrUp, Tick, SourceAnswers
  <2>2. ASSUME NEW s \in Request, Arrive(s) \/ Known(s) \/ NotRead(s) \/ Read(s)
        PROVE  readAge >= Floor
    BY <1>1, <2>2 DEF Arrive, Known, NotRead, Read, ReadWorks, ReadFails, Decide, IInv, TypeOK
  <2>3. ASSUME NEW s \in Request, BeginRead(s) PROVE readAge >= Floor
    BY <1>1, <2>3, KeySetAssumption DEF BeginRead, TooSoon, IInv, Agreed, TypeOK, Age, Old
  <2> QED
    BY <1>1, <2>1, <2>2, <2>3 DEF Next, Enter
<1>2. IInv /\ [Next]_vars =>
        [\A r \in Request : req[r] # "load" /\ req'[r] = "load" => readAge >= Floor]_vars
  BY <1>1
<1> QED
  BY Invariance, <1>2, PTL DEF Spec, FloorKept

\* Verdicts follow the last set that was read, and reads keep the floor apart.
THEOREM ReadsAlwaysRespected == Spec => ReadsRespected
BY AlwaysTrustsLastRead, FloorAlwaysKept DEF ReadsRespected

\* A new key with a kid of its own verifies within Floor of its publication:
\* a read that missed it began no later than it appeared, and the next is due
\* (jwks.go:48-49).
THEOREM NewKidAlwaysHeals == Spec => NewKidHeals
<1>1. ASSUME IInv, [Next]_vars, NEW r \in Request, RefusedInVain(r), OwnKid(token[r].key)
      PROVE  FALSE
  <2> DEFINE k == token[r].key
  <2>1. Known(r) \/ NotRead(r) \/ Read(r)
    BY <1>1, Decided DEF RefusedInVain
  <2>2. /\ k \in published /\ since[k] > Floor /\ token[r].kid = KidOf[k] /\ source # "pem"
        /\ failAge' > Floor /\ req'[r] = "refused"
    BY <1>1 DEF RefusedInVain
  <2>3. \A keys : k \in keys => k \in Candidates(keys, KidOf[k])
    BY <1>1, <2>2 DEF Candidates, IInv, TypeOK
  <2>4. \A keys \in SUBSET Key : Candidates(keys, KidOf[k]) # {} => k \in keys
    BY <1>1, <2>2 DEF Candidates, OwnKid
  <2>5. CASE Known(r)
    <3>1. k \in Candidates(cached, KidOf[k])
      BY <1>1, <2>2, <2>3, <2>4, <2>5 DEF Known, Holds, IInv, TypeOK
    <3> QED
      BY <1>1, <2>2, <2>5, <3>1, Verdict DEF Known
  <2>6. CASE NotRead(r)
    <3>1. k \notin cached
      BY <2>2, <2>3, <2>6 DEF NotRead, Holds
    <3>2. failAge > Floor /\ readAge < Floor
      BY <1>1, <2>2, <2>6 DEF NotRead, TooSoon, IInv, Agreed
    <3>3. failAge <= readAge \/ since[k] <= readAge
      BY <1>1, <2>2, <2>6, <3>1 DEF NotRead, Locks, IInv, Missed
    <3>4. since[k] \in Nat /\ readAge \in Nat /\ failAge \in Nat /\ Floor \in Nat
      BY <1>1, <2>2, KeySetAssumption DEF IInv, TypeOK, Age, Old
    <3> QED
      BY <2>2, <3>2, <3>3, <3>4
  <2>7. CASE ReadFails(r)
    BY <2>2, <2>7, KeySetAssumption DEF ReadFails
  <2>8. CASE ReadWorks(r)
    <3>1. k \notin Candidates(answer, KidOf[k])
      BY <1>1, <2>2, <2>8, Verdict DEF ReadWorks, Replaced
    <3>2. since[k] <= readAge
      BY <1>1, <2>2, <2>3, <2>8, <3>1 DEF ReadWorks, IInv, Missed
    <3>3. readAge <= Timeout
      BY <1>1, <2>8 DEF ReadWorks, Loading, IInv, Agreed
    <3>4. since[k] \in Nat /\ readAge \in Nat
      BY <1>1, <2>2, KeySetAssumption DEF IInv, TypeOK, Age, Old
    <3> QED
      BY <2>2, <3>2, <3>3, <3>4, KeySetAssumption
  <2> QED
    BY <2>1, <2>5, <2>6, <2>7, <2>8 DEF Read
<1>2. IInv /\ [Next]_vars =>
        [\A r \in Request : RefusedInVain(r) => ~OwnKid(token[r].key)]_vars
  BY <1>1
<1> QED
  BY Invariance, <1>2, PTL DEF Spec, NewKidHeals
=============================================================================
