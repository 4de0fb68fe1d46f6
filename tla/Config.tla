------------------------------- MODULE Config -------------------------------
(***************************************************************************)
(* Load of config.go: the struct a Starter has filled with its defaults,   *)
(* the embedded base and profile files, the same two on disk, and the      *)
(* environment, merged in that order and bound in one strict decode.       *)
(*                                                                         *)
(* A document is a function from the paths it holds, every key canonical,  *)
(* to values; a path that others extend holds Section.  That is the nested *)
(* map[string]any of the code, written flat.  A value keeps the kind the   *)
(* decode tells apart and where it came from, never its text.              *)
(***************************************************************************)
EXTENDS Naturals, Sequences, SequencesExt

CONSTANTS
    Canon,   \* canonical form of every key the inputs spell
    Field,   \* canonical path of a leaf of the target struct -> its Go type
    Texts,   \* text of a value -> the kind parseValue finds in it
    World    \* what a service may be started with: records as WorldType says

NoProfile == ""

\* What the decode tells apart: a text ParseDuration can read is a "duration"
\* text, a list of texts alone "texts", any other list "list".
Kind == {"int", "float", "bool", "text", "duration", "texts", "list", "null"}
FieldType == {"int", "float64", "bool", "string", "[]string", "time.Duration"}

\* One key and its value as a file or the environment spells it.  In a YAML
\* file the value has been typed by the parser; elsewhere parseValue types it.
\* text: what it says; kind: how YAML types it; ok: a .properties line that
\* stays inside the subset.
LineType ==
    [path : Seq(DOMAIN Canon) \ {<<>>}, text : DOMAIN Texts, kind : Kind, ok : BOOLEAN]

Place == [in : {"embedded", "disk"}, profile : DOMAIN Texts \cup {NoProfile}]

\* The rank of a variable is its place in the sorted environment; its name is
\* what is left of it behind the prefix, canonical as a whole, its path that
\* same rest split at every double underscore.
Variable == [ours : BOOLEAN, rank : Nat, name : STRING, var : LineType]

ASSUME ConfigAssumption ==
    /\ \A p \in DOMAIN Field : p \in Seq({Canon[k] : k \in DOMAIN Canon})
    /\ \A p, q \in DOMAIN Field : IsPrefix(p, q) => p = q
    /\ Field \in [DOMAIN Field -> FieldType]
    /\ Texts \in [DOMAIN Texts -> Kind \ {"null"}]
    /\ \A w \in World :
          /\ w.prefix \in BOOLEAN /\ w.embeds \in BOOLEAN
          /\ w.ext \in {".yaml", ".yml", ".properties", ".json"}
          /\ \A f \in DOMAIN w.files :
                /\ f \in Place
                /\ w.files[f].is \in {"denied", "text"}
                /\ w.files[f].lines \in Seq(LineType)
          /\ w.environ \in Seq(Variable)
          /\ \A i \in DOMAIN w.environ : Len(w.environ[i].var.path) = 1 =>
                w.environ[i].name = Canon[w.environ[i].var.path[1]]
          /\ \A i, j \in DOMAIN w.environ : w.environ[i].rank = w.environ[j].rank => i = j
          /\ {w.environ[i].rank : i \in DOMAIN w.environ} = 1..Len(w.environ)

VARIABLES
    world,    \* the call's arguments, the file systems and the process's environment
    source,   \* the next source to read; 0 before the checks
    profile,  \* what profileOf found
    line,     \* the next line of that source, in the order it is read
    doc,      \* the document its lines have made so far
    merged,   \* the merged document
    out,      \* the target: leaf path -> value
    result    \* of Load: "pending", "nil" or "error"
configVars == <<world, source, profile, line, doc, merged, out, result>>

-----------------------------------------------------------------------------
Section == [kind |-> "section", text |-> "none"]
PreFilled == [kind |-> "prefill", text |-> "none"]
Zero == [kind |-> "zero", text |-> "none"]

CanonPath(p) == [i \in DOMAIN p |-> Canon[p[i]]]

\* The path itself and the sections on the way to it.
WayTo(path) == {SubSeq(path, 1, i) : i \in 1..Len(path)}

IsSection(d, p) == p \in DOMAIN d /\ d[p] = Section

\* src over dst.  Sections merge key by key; where either side is no section
\* the whole subtree of dst gives way to what src has.
\* Mutant: the top level alone.
Overlay(dst, src) ==
    LET Keeps == {p \in DOMAIN dst : \A q \in DOMAIN src : q[1] # p[1]}
    IN [p \in Keeps \cup DOMAIN src |-> IF p \in DOMAIN src THEN src[p] ELSE dst[p]]
Merge(dst, src) ==
    LET Gives(p) == \E q \in DOMAIN src : /\ IsPrefix(q, p)
                                          /\ q \in DOMAIN dst
                                          /\ ~(IsSection(dst, q) /\ IsSection(src, q))
        Keeps == {p \in DOMAIN dst : ~Gives(p)}
    IN [p \in Keeps \cup DOMAIN src |-> IF p \in DOMAIN src THEN src[p] ELSE dst[p]]

\* The document that holds v at path and nothing else.
Single(path, v) == [p \in WayTo(path) |-> IF p = path THEN v ELSE Section]

\* set: a section replaces a scalar on the way, and v replaces a section.
Set(d, path, v) == Merge(d, Single(path, v))

Empty == [p \in {} |-> Section]

ParseValue(t) == [kind |-> Texts[t], text |-> t]

\* canonMap: two keys of one map with one canonical form; and what the YAML
\* parser itself refuses, one key twice.
Clash(lines) ==
    \E i, j \in DOMAIN lines : \E k \in 1..Len(lines[i].path) :
        /\ i # j /\ k <= Len(lines[j].path)
        /\ CanonPath(SubSeq(lines[i].path, 1, k)) = CanonPath(SubSeq(lines[j].path, 1, k))
        /\ \/ lines[i].path[k] # lines[j].path[k]
           \/ k = Len(lines[i].path)

\* A YAML document is a map: its lines have no order.
YAML(lines) ==
    LET About(p) == {i \in DOMAIN lines : CanonPath(lines[i].path) = p}
        Value(l) == [kind |-> l.kind, text |-> l.text]
    IN [p \in UNION {WayTo(CanonPath(lines[i].path)) : i \in DOMAIN lines} |->
           IF About(p) = {} THEN Section ELSE Value(lines[CHOOSE i \in About(p) : TRUE])]

IsYAML(w) == w.ext \in {".yaml", ".yml"}
HasParser(w) == IsYAML(w) \/ w.ext = ".properties"

-----------------------------------------------------------------------------
\* The name is looked at before it is split: PRO__FILE is the profile too.
IsProfile(e) == e.ours /\ e.name = "profile"

\* The first in the order os.Environ gives them, which nobody sorts.
ProfileOf(w) ==
    LET first == {i \in DOMAIN w.environ :
                     /\ IsProfile(w.environ[i])
                     /\ \A j \in 1..i - 1 : ~IsProfile(w.environ[j])}
    IN IF first = {} THEN {NoProfile} ELSE {w.environ[i].var.text : i \in first}

Source(in, p, required) == [place |-> [in |-> in, profile |-> p], required |-> required]

\* Embedded base and profile, then the same two on disk.
FileLayers(w, p) ==
    LET BaseOf(in, required) == Source(in, NoProfile, required)
        Profile(in) == Source(in, p, FALSE)
    IN CASE w.embeds /\ p = NoProfile -> <<BaseOf("embedded", TRUE), BaseOf("disk", FALSE)>>
         [] w.embeds /\ p # NoProfile -> <<BaseOf("embedded", TRUE), Profile("embedded"),
                                   BaseOf("disk", FALSE), Profile("disk")>>
         [] ~w.embeds /\ p = NoProfile -> <<BaseOf("disk", TRUE)>>
         [] ~w.embeds /\ p # NoProfile -> <<BaseOf("disk", TRUE), Profile("disk")>>

-----------------------------------------------------------------------------
\* mapstructure converts nothing but one number to another; the two hooks read
\* a text as a duration, and split one where a list of texts is due.
\* Mutant: without the hook for durations.
Unhooked(type, v) ==
    CASE type \in {"int", "float64", "time.Duration"} -> v.kind \in {"int", "float"}
      [] type = "bool"     -> v.kind = "bool"
      [] type = "string"   -> v.kind \in {"text", "duration"}
      [] type = "[]string" -> v.kind \in {"texts", "text", "duration"}
Fits(type, v) ==
    CASE type \in {"int", "float64"} -> v.kind \in {"int", "float"}
      [] type = "bool"          -> v.kind = "bool"
      [] type = "string"        -> v.kind \in {"text", "duration"}
      [] type = "[]string"      -> v.kind \in {"texts", "text", "duration"}
      [] type = "time.Duration" -> v.kind \in {"int", "float", "duration"}

\* What a field of that type holds then: an integer has lost a fraction.
Bound(type, v) ==
    [kind |-> IF type \in {"int", "time.Duration"} /\ v.kind = "float"
              THEN "truncated" ELSE type,
     text |-> v.text]

\* What the struct has at a path: a field, or a struct of fields.
IsStruct(p) == p \notin DOMAIN Field /\ \E f \in DOMAIN Field : IsPrefix(p, f)

\* ErrorUnused, and mapstructure's refusal to convert.
Binds(d, p) ==
    \/ IsStruct(p) /\ d[p].kind \in {"section", "null"}
    \/ p \in DOMAIN Field /\ (d[p].kind = "null" \/ Fits(Field[p], d[p]))
Decodes(d) == \A p \in DOMAIN d : Binds(d, p)

\* ZeroFields: a null zeroes the field, or the whole struct, it is given for.
\* A path nobody names keeps what the caller had filled in.
Decoded(d) ==
    [f \in DOMAIN Field |->
        IF \E p \in DOMAIN d : IsPrefix(p, f) /\ d[p].kind = "null" THEN Zero
        ELSE IF f \in DOMAIN d THEN Bound(Field[f], d[f])
        ELSE PreFilled]

-----------------------------------------------------------------------------
ConfigInit ==
    /\ world \in World
    /\ source = 0 /\ profile = NoProfile /\ line = 1
    /\ doc = Empty /\ merged = Empty /\ result = "pending"
    /\ out = [f \in DOMAIN Field |-> PreFilled]

Sources == FileLayers(world, profile)

LoadFails ==
    /\ result' = "error"
    /\ UNCHANGED <<world, source, profile, line, doc, merged, out>>

\* An empty prefix, or an extension without a parser.
Rejects ==
    /\ source = 0 /\ result = "pending"
    /\ ~world.prefix \/ ~HasParser(world)
    /\ LoadFails

Begin ==
    /\ source = 0 /\ result = "pending"
    /\ world.prefix /\ HasParser(world)
    /\ profile' \in ProfileOf(world)
    /\ source' = 1
    /\ UNCHANGED <<world, line, doc, merged, out, result>>

Reading == source \in DOMAIN Sources /\ result = "pending"
Missing == Sources[source].place \notin DOMAIN world.files
Opened == world.files[Sources[source].place]
Readable == Reading /\ ~Missing /\ Opened.is = "text"

\* d over what the sources before have said.
Lay(d) ==
    /\ merged' = Merge(merged, d)
    /\ source' = source + 1
    /\ doc' = Empty /\ line' = 1
    /\ UNCHANGED <<world, profile, out, result>>

SkipFile ==
    /\ Reading /\ Missing /\ ~Sources[source].required
    /\ source' = source + 1
    /\ UNCHANGED <<world, profile, line, doc, merged, out, result>>

\* A required file that is missing, or one that cannot be read.
FileFails ==
    /\ Reading
    /\ IF Missing THEN Sources[source].required ELSE Opened.is # "text"
    /\ LoadFails

ReadYAML ==
    /\ Readable /\ IsYAML(world) /\ ~Clash(Opened.lines)
    /\ Lay(YAML(Opened.lines))

YAMLFails ==
    /\ Readable /\ IsYAML(world) /\ Clash(Opened.lines)
    /\ LoadFails

\* The loop of parseProperties: one line.
InProperties == Readable /\ ~IsYAML(world) /\ line \in DOMAIN Opened.lines

SetLine(l) ==
    /\ doc' = Set(doc, CanonPath(l.path), ParseValue(l.text))
    /\ line' = line + 1
    /\ UNCHANGED <<world, source, profile, merged, out, result>>

ReadProperty ==
    /\ InProperties /\ Opened.lines[line].ok
    /\ SetLine(Opened.lines[line])

PropertyFails ==
    /\ InProperties /\ ~Opened.lines[line].ok
    /\ LoadFails

PropertiesRead ==
    /\ Readable /\ ~IsYAML(world) /\ line = Len(Opened.lines) + 1
    /\ Lay(doc)

\* The loop of envLayer: one variable, in the order slices.Sort gives them, so
\* that of two spellings the later one in that order counts.
InEnvironment == source = Len(Sources) + 1 /\ result = "pending"

ReadVariable ==
    /\ InEnvironment
    /\ \E i \in DOMAIN world.environ :
          LET e == world.environ[i] IN
          /\ e.rank = line
          /\ e.ours /\ ~IsProfile(e)
          /\ SetLine(e.var)

SkipVariable ==
    /\ InEnvironment
    /\ \E i \in DOMAIN world.environ :
          LET e == world.environ[i] IN
          /\ e.rank = line
          /\ ~e.ours \/ IsProfile(e)
    /\ line' = line + 1
    /\ UNCHANGED <<world, source, profile, doc, merged, out, result>>

EnvironmentRead ==
    /\ InEnvironment /\ line = Len(world.environ) + 1
    /\ Lay(doc)

Decode ==
    /\ source = Len(Sources) + 2 /\ result = "pending"
    /\ Decodes(merged)
    /\ out' = Decoded(merged)
    /\ result' = "nil"
    /\ UNCHANGED <<world, source, profile, line, doc, merged>>

DecodeFails ==
    /\ source = Len(Sources) + 2 /\ result = "pending"
    /\ ~Decodes(merged)
    /\ LoadFails

Returned ==
    /\ result # "pending"
    /\ UNCHANGED configVars

ConfigNext ==
    \/ Rejects \/ Begin
    \/ SkipFile \/ FileFails \/ ReadYAML \/ YAMLFails
    \/ ReadProperty \/ PropertyFails \/ PropertiesRead
    \/ ReadVariable \/ SkipVariable \/ EnvironmentRead
    \/ Decode \/ DecodeFails
    \/ Returned

ConfigSpec == ConfigInit /\ [][ConfigNext]_configVars

-----------------------------------------------------------------------------
(* Properties.  They are about what the files and the environment say, one  *)
(* saying to a line; there are no documents and there is no merge.          *)

ConfigTypeOK ==
    /\ world \in World
    /\ source \in 0..6 /\ line \in Nat \ {0}
    /\ profile \in DOMAIN Texts \cup {NoProfile}
    /\ \A d \in {doc, merged} : \A p \in DOMAIN d :
          \A i \in 1..Len(p) - 1 : IsSection(d, SubSeq(p, 1, i))
    /\ DOMAIN out = DOMAIN Field
    /\ result \in {"pending", "nil", "error"}

\* The documented precedence: disk over embedded, a profile over its base, and
\* the environment over everything.
Height(place) ==
    CASE place.in = "embedded" /\ place.profile = NoProfile -> 1
      [] place.in = "embedded" /\ place.profile # NoProfile -> 2
      [] place.in = "disk" /\ place.profile = NoProfile -> 3
      [] place.in = "disk" /\ place.profile # NoProfile -> 4
Highest == 5

\* The files that are there and that this start is to read.
Used == {p \in DOMAIN world.files : /\ p.profile \in {NoProfile, profile}
                                    /\ world.embeds \/ p.in = "disk"}

Saying(layer, i, l, value) ==
    [layer |-> layer, line |-> i, path |-> CanonPath(l.path), value |-> value]

\* A line as its format types it.
Typed(l) ==
    IF IsYAML(world) THEN [kind |-> l.kind, text |-> l.text] ELSE ParseValue(l.text)

FileSays(p) ==
    {Saying(Height(p), i, world.files[p].lines[i], Typed(world.files[p].lines[i])) :
        i \in DOMAIN world.files[p].lines}

EnvironmentSays ==
    LET ours == {i \in DOMAIN world.environ :
                    world.environ[i].ours /\ ~IsProfile(world.environ[i])}
    IN {Saying(Highest, world.environ[i].rank, world.environ[i].var,
               ParseValue(world.environ[i].var.text)) : i \in ours}

\* Every line of every source.
Uttered == (UNION {FileSays(p) : p \in Used}) \cup EnvironmentSays

\* Two paths about one key, or about a key and the section that holds it.
Related(p, q) == IsPrefix(p, q) \/ IsPrefix(q, p)

\* A later line of the same source takes it back.
Withdrawn(u, all) ==
    \E v \in all : v.layer = u.layer /\ v.line > u.line /\ Related(u.path, v.path)

Said == LET all == Uttered IN {u \in all : ~Withdrawn(u, all)}

\* A higher layer says something else of the same key.
Overruled(u, said) == \E v \in said : v.layer > u.layer /\ Related(u.path, v.path)

Standing == LET said == Said IN {u \in said : ~Overruled(u, said)}

\* What a saying makes of a field it is about: a null empties it, and a number
\* with a fraction, given for a whole one, is cut.
Means(u, f) ==
    CASE u.value.kind = "null" -> Zero
      [] u.value.kind = "float" /\ Field[f] \in {"int", "time.Duration"} ->
            [kind |-> "truncated", text |-> u.value.text]
      [] OTHER -> [kind |-> Field[f], text |-> u.value.text]

\* Every field has the value of the highest layer that names it or the section
\* that holds it, under any spelling and in any format, and what no layer names
\* keeps what the Starter filled in (config.go:29-30); so does a field whose
\* section was emptied and then opened again by a higher layer that says
\* nothing of it.  Whatever order the environment comes in.
HighestLayerWins ==
    result = "nil" =>
        LET standing == Standing IN
        \A f \in DOMAIN Field :
            LET about == {u \in standing : IsPrefix(u.path, f)} IN
            /\ \A u \in about : out[f] = Means(u, f)
            /\ about = {} => out[f] = PreFilled

\* The types of field for which a saying of each kind is no mistake: any number
\* for any number, a text for a string and for a list, a text that reads as a
\* duration for a duration also, a null for anything (docs/spec.md:253-261).
MayBeSaidOf ==
    [int      |-> {"int", "float64", "time.Duration"},
     float    |-> {"int", "float64", "time.Duration"},
     bool     |-> {"bool"},
     text     |-> {"string", "[]string"},
     duration |-> {"string", "[]string", "time.Duration"},
     texts    |-> {"[]string"},
     list     |-> {},
     null     |-> FieldType]

\* A saying without a mistake.
Understood(u) ==
    \/ u.path \in DOMAIN Field /\ Field[u.path] \in MayBeSaidOf[u.value.kind]
    \/ IsStruct(u.path) /\ u.value.kind = "null"

\* A file that is what its format allows.
Sound(file) ==
    /\ file.is = "text"
    /\ IF IsYAML(world) THEN ~Clash(file.lines)
       ELSE \A i \in DOMAIN file.lines : file.lines[i].ok

\* The one file that has to be there.
BaseFile == [in |-> IF world.embeds THEN "embedded" ELSE "disk", profile |-> NoProfile]

Faultless ==
    /\ world.prefix /\ HasParser(world)
    /\ BaseFile \in DOMAIN world.files
    /\ \A p \in Used : Sound(world.files[p])
    /\ \A u \in Standing : Understood(u)

\* A mistake in what stands stops the start, and so does a source that is not
\* what its format allows; nothing else does.  No key that stands is ignored and
\* no file that is there is passed over (config.go:32-34, 162-164, 291-293, 336).
\* What a higher layer takes back is gone before the decode sees it
\* (config.go:74-77), a mistake in it too; and a fraction given for a whole
\* number is no mistake to mapstructure, although the decode "reports type
\* mismatches" (config.go:38-39): Means says what becomes of it.
RefusedForAMistake == result # "pending" => (result = "nil" <=> Faultless)
=============================================================================
