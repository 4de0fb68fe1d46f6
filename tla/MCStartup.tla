------------------------------ MODULE MCStartup -------------------------------
(***************************************************************************)
(* The instance of Startup: three invocations of goboot new, every file    *)
(* system and environment a Load may meet, and two pods beside a Job.      *)
(***************************************************************************)
EXTENDS Startup, TLC

-----------------------------------------------------------------------------
(* Scaffold: three invocations, so that two may fail and be retried.  Two   *)
(* modules have one last element, one has none.                             *)

MCProject == [http |-> <<"app.yaml", "main.go">>, grpc |-> <<"app.yaml", "buf.yaml", "main.go">>]
MCBase == ("acme/orders" :> "orders") @@ ("labs/orders" :> "orders") @@ ("/" :> "")
New(flags, operands) == [verb |-> "new", flags |-> flags, operands |-> operands]
MCArgs == {New("none", <<"acme/orders">>), New("grpc", <<"labs/orders">>),
           New("none", <<"/">>), New("bad", <<"acme/orders">>), New("none", <<>>),
           [New("none", <<"acme/orders">>) EXCEPT !.verb = "other"]}

-----------------------------------------------------------------------------
(* Config: a struct with a section and a scalar.  Every layer may be        *)
(* missing, right, misspelt, of the wrong kind, or null; a number has a      *)
(* fraction where a whole one is due, a text reads as a duration or does     *)
(* not; keys come in two spellings, from the environment in either order.    *)

MCCanon == ("server" :> "server") @@ ("Server" :> "server") @@ ("port" :> "port")
    @@ ("PORT" :> "port") @@ ("hosts" :> "hosts") @@ ("name" :> "name") @@ ("PROFILE" :> "profile")
    @@ ("profile" :> "profile") @@ ("prot" :> "prot") @@ ("SERVER" :> "server") @@ ("NAME" :> "name")
    @@ ("PRO" :> "pro") @@ ("FILE" :> "file") @@ ("wait" :> "wait") @@ ("WAIT" :> "wait")

MCField == (<<"server", "port">> :> "int") @@ (<<"server", "hosts">> :> "[]string")
    @@ (<<"name">> :> "string") @@ (<<"wait">> :> "time.Duration")

Numbers == {"1", "2", "3", "4", "5", "6"}
MCTexts == [t \in Numbers |-> "int"] @@ ("" :> "text") @@ ("local" :> "text")
    @@ ("prod" :> "text") @@ ("a,b" :> "text") @@ ("orders" :> "text") @@ ("[c]" :> "texts")
    @@ ("[7]" :> "list") @@ ("2.5" :> "float") @@ ("10s" :> "duration")

Says(path, t) == [path |-> path, text |-> t, kind |-> MCTexts[t], ok |-> TRUE]
Null(path) == [path |-> path, text |-> "", kind |-> "null", ok |-> TRUE]
Text(lines) == [is |-> "text", lines |-> lines]
Denied == [is |-> "denied", lines |-> <<>>]
Absent == [is |-> "absent", lines |-> <<>>]

Port(t) == Says(<<"server", "port">>, t)

EmbeddedBase == {Absent,
    Text(<<Port("1"), Says(<<"server", "hosts">>, "a,b"), Says(<<"wait">>, "10s")>>),
    Text(<<Says(<<"server", "prot">>, "1"), Says(<<"name">>, "orders")>>)}
EmbeddedProfile == {Absent,
    Text(<<Null(<<"server">>)>>),
    Text(<<Says(<<"server", "PORT">>, "2"), Says(<<"name">>, "2")>>)}
DiskBase == {Absent, Denied,
    Text(<<Port("3"), Says(<<"name">>, "orders")>>),
    Text(<<Port("3"), Says(<<"server", "PORT">>, "4")>>),
    Text(<<Port("3"), Says(<<"Server", "hosts">>, "[c]")>>),
    Text(<<Says(<<"server">>, "3")>>),
    Text(<<[Port("3") EXCEPT !.kind = "text"], Says(<<"wait">>, "2.5")>>),
    Text(<<Port("2.5"), Says(<<"server", "hosts">>, "[7]")>>),
    Text(<<[Port("3") EXCEPT !.ok = FALSE]>>)}
DiskProfile == {Absent,
    Text(<<Null(<<"server", "hosts">>), Says(<<"name">>, "prod")>>),
    Text(<<Says(<<"server", "hosts">>, "[c]"), Says(<<"wait">>, "orders")>>)}

Var(path, t, rank) ==
    [ours |-> TRUE, rank |-> rank, var |-> Says(path, t),
     name |-> IF path = <<"PRO", "FILE">> THEN "profile" ELSE MCCanon[path[1]]]
Local == Var(<<"PROFILE">>, "local", 1)
Environ == {<<>>, <<Local>>,
    <<Local, Var(<<"SERVER", "PORT">>, "5", 2), Var(<<"server", "port">>, "6", 3)>>,
    <<Var(<<"server", "port">>, "6", 3), Var(<<"SERVER", "PORT">>, "5", 2), Local>>,
    <<Var(<<"profile">>, "prod", 2), Local, [Var(<<"prot">>, "1", 3) EXCEPT !.ours = FALSE]>>,
    <<Local, Var(<<"SERVER">>, "5", 2), Var(<<"server", "port">>, "6", 3)>>,
    <<Var(<<"NAME">>, "1", 1), [Local EXCEPT !.rank = 2]>>,
    <<Var(<<"PRO", "FILE">>, "local", 1), Var(<<"WAIT">>, "10s", 2)>>,
    <<Var(<<"prot">>, "1", 3), Var(<<"profile">>, "", 2), Local>>}

At(in, p) == [in |-> in, profile |-> p]
FileSystem(eb, ep, db, dp) ==
    LET all == (At("embedded", "") :> eb) @@ (At("embedded", "local") :> ep)
               @@ (At("disk", "") :> db) @@ (At("disk", "local") :> dp)
    IN [p \in {q \in DOMAIN all : all[q] # Absent} |-> all[p]]

EveryWorld ==
    {[prefix |-> TRUE, embeds |-> b, ext |-> x, environ |-> v, files |-> FileSystem(eb, ep, db, dp)] :
        b \in BOOLEAN, x \in {".yaml", ".properties"}, v \in Environ,
        eb \in EmbeddedBase, ep \in EmbeddedProfile, db \in DiskBase, dp \in DiskProfile}
    \cup {[prefix |-> b, embeds |-> FALSE, ext |-> ".json", environ |-> <<>>,
           files |-> (At("disk", "") :> Text(<<Port("1")>>))] : b \in BOOLEAN}
    \cup {[prefix |-> FALSE, embeds |-> FALSE, ext |-> ".yml", environ |-> <<>>,
           files |-> (At("disk", "") :> Text(<<Port("1")>>))]}

\* TLC evaluates EveryWorld once; what it replaces a constant by, at every use.
MCWorld == EveryWorld

-----------------------------------------------------------------------------
(* The stories that are not told have one initial state.                    *)

OneWorld == CHOOSE w \in World : ~w.prefix

MCInit ==
    /\ story \in {"scaffold", "config", "rollout"}
    /\ IF story = "scaffold" THEN TRUE ELSE args = [i \in Invocation |-> New("none", <<>>)]
    /\ IF story = "config" THEN TRUE ELSE world = OneWorld
    /\ StartupInit

MCSpec == MCInit /\ [][StartupNext]_startupVars
=============================================================================
