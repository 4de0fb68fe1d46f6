------------------------------ MODULE Scaffold ------------------------------
(***************************************************************************)
(* goboot new (cmd/goboot/main.go): invocations that write projects into   *)
(* one directory, file after file with go.mod as the last one.  A write    *)
(* may fail half way, an invocation may be killed, developers retry, edit  *)
(* what they have, remove it, and may run two invocations at once.         *)
(***************************************************************************)
EXTENDS Naturals, Sequences, Functions

CONSTANTS
    Invocation,  \* processes
    Args,        \* what they are run with: [verb, flags, operands]
    Base,        \* module path -> its last element, "" if it names no directory
    Project      \* "http" and "grpc" -> the files of that project, in WalkDir's order

ASSUME ScaffoldAssumption ==
    /\ DOMAIN Project = {"http", "grpc"}
    /\ \A g \in DOMAIN Project : /\ Project[g] \in Seq(STRING) /\ IsInjective(Project[g])
                                 /\ "go.mod" \notin Range(Project[g])
    /\ "developer" \notin Invocation
    /\ \A a \in Args : /\ a.verb \in {"new", "other"}
                       /\ a.flags \in {"none", "grpc", "bad"}
                       /\ a.operands \in Seq(DOMAIN Base)

VARIABLES
    args,  \* invocation -> what it was run with
    pc,    \* invocation -> "ready", "stat", "copy", or how it ended
    n,     \* invocation -> files it has written
    disk,  \* directory -> its files, or NoDir
    met    \* invocation -> the invocations that were writing while it was
scaffoldVars == <<args, pc, n, disk, met>>

-----------------------------------------------------------------------------
NoDir == [exists |-> FALSE, files |-> [f \in {} |-> "gone"]]
EmptyDir == [exists |-> TRUE, files |-> [f \in {} |-> "gone"]]

Nameless == ""
Name(i) == Base[args[i].operands[1]]
Flavour(i) == IF args[i].flags = "grpc" THEN "grpc" ELSE "http"
Files(i) == Append(Project[Flavour(i)], "go.mod")

\* What a file holds: who wrote it, and whether to its end.
Written(i, whole) == [by |-> i, whole |-> whole]
Edited == [by |-> "developer", whole |-> TRUE]

Ended == {"wrote", "failed", "usage", "killed"}
Writing(i) == pc[i] \in {"stat", "copy"}

Directory == {Base[m] : m \in DOMAIN Base} \ {Nameless}

ScaffoldInit ==
    /\ args \in [Invocation -> Args]
    /\ pc = [i \in Invocation |-> "ready"]
    /\ n = [i \in Invocation |-> 0]
    /\ disk = [d \in Directory |-> NoDir]
    /\ met = [i \in Invocation |-> {}]

Goto(i, l) == pc' = [pc EXCEPT ![i] = l]

-----------------------------------------------------------------------------
\* run, serviceName
IsInvocation(i) ==
    /\ args[i].verb = "new" /\ args[i].flags # "bad"
    /\ Len(args[i].operands) = 1

Refuse(i) ==
    /\ pc[i] = "ready"
    /\ IsInvocation(i) => Name(i) = Nameless
    /\ Goto(i, IF IsInvocation(i) \/ (args[i].verb = "new" /\ args[i].flags = "bad")
               THEN "failed" ELSE "usage")
    /\ UNCHANGED <<args, n, disk, met>>

\* What a name must not be for a project to be written there.  Mutant: what a
\* failed invocation left is free again.
TakenIfWhole(i) == "go.mod" \in DOMAIN disk[Name(i)].files
Taken(i) == disk[Name(i)].exists

\* The one look at whether the directory is there.
Stat(i) ==
    /\ pc[i] = "ready" /\ IsInvocation(i) /\ Name(i) # Nameless
    /\ Goto(i, IF Taken(i) THEN "failed" ELSE "stat")
    /\ LET others == {j \in Invocation \ {i} : Writing(j) /\ Name(j) = Name(i)}
       IN met' = IF Taken(i) THEN met
                 ELSE [j \in Invocation |-> IF j = i THEN others
                                            ELSE IF j \in others THEN met[j] \cup {i}
                                            ELSE met[j]]
    /\ UNCHANGED <<args, n, disk>>

\* MkdirAll of the project's own directory; one that appeared meanwhile will do.
MakeDir(i) ==
    /\ pc[i] = "stat"
    /\ disk' = [disk EXCEPT ![Name(i)] = IF @.exists THEN @ ELSE EmptyDir]
    /\ Goto(i, "copy")
    /\ UNCHANGED <<args, n, met>>

\* WriteFile truncates what is there.
Put(i, whole) ==
    LET f == Files(i)[n[i] + 1]
        d == disk[Name(i)]
    IN disk' = [disk EXCEPT ![Name(i)].files =
                    [g \in DOMAIN d.files \cup {f} |->
                        IF g = f THEN Written(i, whole) ELSE d.files[g]]]

Copying(i) == pc[i] = "copy" /\ disk[Name(i)].exists

WriteFile(i) ==
    /\ Copying(i)
    /\ Put(i, TRUE)
    /\ n' = [n EXCEPT ![i] = @ + 1]
    /\ Goto(i, IF n[i] + 1 = Len(Files(i)) THEN "wrote" ELSE "copy")
    /\ UNCHANGED <<args, met>>

\* The disk is full, or the process is killed, with a part of the file written.
WriteFails(i) ==
    /\ Copying(i)
    /\ Put(i, FALSE)
    /\ \E end \in {"failed", "killed"} : Goto(i, end)
    /\ UNCHANGED <<args, n, met>>

\* Nothing is created: no permission, or what it writes into has been removed.
CannotCreate(i) ==
    /\ Writing(i)
    /\ Goto(i, "failed")
    /\ UNCHANGED <<args, n, disk, met>>

-----------------------------------------------------------------------------
\* A developer removes what a failed invocation left, or edits what a good one
\* wrote.
RemoveDir(d) ==
    /\ disk[d].exists
    /\ ~\E i \in Invocation : Writing(i) /\ Name(i) = d
    /\ disk' = [disk EXCEPT ![d] = NoDir]
    /\ UNCHANGED <<args, pc, n, met>>

Edit(d) ==
    /\ disk[d].exists
    /\ \E i \in Invocation : pc[i] = "wrote" /\ Name(i) = d
    /\ \E f \in DOMAIN disk[d].files \ {"go.mod"} :
          disk' = [disk EXCEPT ![d].files[f] = Edited]
    /\ UNCHANGED <<args, pc, n, met>>

Over ==
    /\ \A i \in Invocation : pc[i] \in Ended
    /\ UNCHANGED scaffoldVars

Goboot(i) ==
    Refuse(i) \/ Stat(i) \/ MakeDir(i) \/ WriteFile(i) \/ WriteFails(i) \/ CannotCreate(i)

ScaffoldNext ==
    \/ \E i \in Invocation : Goboot(i)
    \/ \E d \in Directory : RemoveDir(d) \/ Edit(d)
    \/ Over

ScaffoldSpec == ScaffoldInit /\ [][ScaffoldNext]_scaffoldVars

-----------------------------------------------------------------------------
(* Properties                                                               *)

File == (UNION {Range(Project[g]) : g \in DOMAIN Project}) \cup {"go.mod"}
Content == [by : Invocation \cup {"developer"}, whole : BOOLEAN]
Dir == [exists : BOOLEAN, files : UNION {[F -> Content] : F \in SUBSET File}]

Most == Len(Project["http"]) + Len(Project["grpc"]) + 1

ScaffoldTypeOK ==
    /\ args \in [Invocation -> Args]
    /\ pc \in [Invocation -> {"ready", "stat", "copy"} \cup Ended]
    /\ n \in [Invocation -> 0..Most]
    /\ met \in [Invocation -> SUBSET Invocation]
    /\ disk \in [Directory -> Dir]

Alone(i) == met[i] = {}

Author(d, f) == disk[d].files[f].by

\* A directory with a go.mod holds one whole project, whatever failed, was
\* killed, retried or edited before: go.mod is written last (main.go:173-179),
\* so a half-written project never builds.  Two invocations at once may mix.
GoModMeansWhole ==
    \A d \in Directory : "go.mod" \in DOMAIN disk[d].files =>
        LET i == Author(d, "go.mod")
        IN Alone(i) =>
            /\ DOMAIN disk[d].files = Range(Files(i))
            /\ \A f \in Range(Project[Flavour(i)]) :
                  Author(d, f) \in {i, "developer"} /\ disk[d].files[f].whole

\* "This command creates a project, it does not merge into one" (main.go:120):
\* an invocation that met no other writes only beside what it wrote itself, and
\* over nothing, least of all over a file somebody has edited since.
NeverMerges ==
    [][\A i \in Invocation : n'[i] # n[i] /\ Alone(i) =>
          \A f \in DOMAIN disk[Name(i)].files :
              /\ disk'[Name(i)].files[f] = disk[Name(i)].files[f]
              /\ Author(Name(i), f) \in {i, "developer"}]_scaffoldVars

\* A directory with a go.mod holds one whole project, and an invocation never
\* writes over what another or a developer has put there (main.go:120, 173-179).
NeverHalfDone == []GoModMeansWhole /\ NeverMerges
=============================================================================
