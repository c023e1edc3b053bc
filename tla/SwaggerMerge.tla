---------------------------- MODULE SwaggerMerge ----------------------------
(***************************************************************************)
(* One request for the gateway's own OpenAPI document: the documents of    *)
(* the services are merged one after the other (gateway/aggregator.py) and *)
(* laid over the one drf_yasg makes of the gateway's views                 *)
(* (gateway/generator.py).  Where the documents come from is in SpecStore. *)
(*                                                                         *)
(* Names matter letter by letter here, since a service's name is put       *)
(* before those of its definitions without a separator: a name is a        *)
(* sequence of letters, and the '.' is one of them.  A path is a sequence  *)
(* of segments, which may be empty ('/' is one empty segment), and has one *)
(* action; what an action or a definition says is its service and its name *)
(* there (its body) and the definitions it refers to.                      *)
(***************************************************************************)
EXTENDS Integers, Sequences, SequencesExt

CONSTANTS
    Letters,      \* the alphabet of names
    Apis,         \* endpoint names of the logic modules
    Buildly,      \* 'buildly', the one name whose paths are left alone
    Dot,          \* the '.' between service and operation id
    Documents,    \* the documents services publish
    NoId,         \* an action without operationId
    Null,         \* what a service may publish instead of a document
    OwnDocument   \* of the gateway's own views

Text == Seq(Letters)
Name == Text \ {<<>>}
Path == Seq(Text) \ {<<>>}

\* An absent section is an empty one.  References are to the document's own
\* definitions.
IsDocument(d) ==
    /\ \A n \in DOMAIN d.definitions :
          n \in Name /\ d.definitions[n].refs \subseteq DOMAIN d.definitions
    /\ \A p \in DOMAIN d.paths :
          /\ p \in Path
          /\ d.paths[p].refs \subseteq DOMAIN d.definitions
          /\ d.paths[p].id \in Text \cup {NoId}

ASSUME ConstantsAssumption ==
    /\ Apis \subseteq Name
    /\ \A d \in Documents \cup {OwnDocument} : IsDocument(d)
    /\ Dot \in Letters
    /\ NoId \notin Text
    /\ Null \notin Documents

VARIABLES
    docs,         \* swagger_apis: the services that answered, by endpoint name
    todo,         \* those not merged yet
    definitions,  \* basic_swagger['definitions']
    paths,        \* basic_swagger['paths']
    stage         \* how far the request is

vars == <<docs, todo, definitions, paths, stage>>

-----------------------------------------------------------------------------

\* f.update(g)
Updated(f, g) ==
    [k \in DOMAIN f \cup DOMAIN g |-> IF k \in DOMAIN g THEN g[k] ELSE f[k]]

\* What follows a prefix in a longer sequence.
After(prefix, s) == SubSeq(s, Len(prefix) + 1, Len(s))

\* Every name of a section behind a prefix (_update_specification).
Prefixed(prefix, section) ==
    [k \in {prefix \o n : n \in DOMAIN section} |-> section[After(prefix, k)]]

\* A bug: the references keep the names they have in the service.
Mutant_Renamed(a, refs) == refs

\* replace('#/definitions/', '#/definitions/<a>')
Renamed(a, refs) == {a \o r : r \in refs}

\* The sections of a document once its references are renamed.
DefinitionsOf(a, d) ==
    [n \in DOMAIN d.definitions |->
        [body |-> <<a, n>>, refs |-> Renamed(a, d.definitions[n].refs)]]
PathsOf(a, d) ==
    [p \in DOMAIN d.paths |->
        [body |-> <<a, p>>, refs |-> Renamed(a, d.paths[p].refs),
         id   |-> d.paths[p].id]]

\* A bug: the name is put before the path without the slash.
Mutant_Routed(a, section) == Prefixed(a, section)

\* The paths as the gateway routes them.
Routed(a, section) == IF a = Buildly THEN section ELSE Prefixed(<<a>>, section)

Init ==
    /\ \E S \in SUBSET Apis : docs \in [S -> Documents \cup {Null}]
    /\ todo = DOMAIN docs
    /\ definitions = <<>>
    /\ paths = <<>>
    /\ stage = "merge"

-----------------------------------------------------------------------------

\* One service; they come in the order of the modules' names, whatever their
\* endpoint names are.
MergeApi(a) ==
    /\ stage = "merge"
    /\ a \in todo
    /\ docs[a] # Null
    /\ definitions' = Updated(definitions, Prefixed(a, DefinitionsOf(a, docs[a])))
    /\ paths' = Updated(paths, Routed(a, PathsOf(a, docs[a])))
    /\ todo' = todo \ {a}
    /\ UNCHANGED <<docs, stage>>

\* 'definitions' in None: TypeError, no document is shown at all.
MergeFails(a) ==
    /\ stage = "merge"
    /\ a \in todo
    /\ docs[a] = Null
    /\ stage' = "failed"
    /\ UNCHANGED <<docs, todo, definitions, paths>>

\* A bug: the operation ids stay as the services chose them.
Mutant_OperationId(p, id) == id

\* The first segment of the path is the service's name.
OperationId(p, id) == IF id = NoId THEN NoId ELSE p[1] \o <<Dot>> \o id

GenerateOperationIds ==
    /\ stage = "merge"
    /\ todo = {}
    /\ paths' = [p \in DOMAIN paths |->
                    [paths[p] EXCEPT !.id = OperationId(p, @)]]
    /\ stage' = "merged"
    /\ UNCHANGED <<docs, todo, definitions>>

\* The gateway's own document, updated with the merged one.
GetSchema ==
    /\ stage = "merged"
    /\ definitions' = Updated(DefinitionsOf(<<>>, OwnDocument), definitions)
    /\ paths' = Updated(PathsOf(<<>>, OwnDocument), paths)
    /\ stage' = "done"
    /\ UNCHANGED <<docs, todo>>

Next ==
    \/ \E a \in Apis : MergeApi(a) \/ MergeFails(a)
    \/ GenerateOperationIds
    \/ GetSchema

Spec == Init /\ [][Next]_vars

-----------------------------------------------------------------------------
(* Properties.                                                             *)

Sources == Apis \cup {<<>>}

TypeOK ==
    /\ DOMAIN docs \subseteq Apis
    /\ todo \subseteq DOMAIN docs
    /\ stage \in {"merge", "merged", "done", "failed"}
    /\ \A k \in DOMAIN definitions :
          /\ k \in Name
          /\ definitions[k].body \in Sources \X Name
          /\ definitions[k].refs \subseteq Name
    /\ \A p \in DOMAIN paths :
          /\ p \in Path
          /\ paths[p].body \in Sources \X Path
          /\ paths[p].refs \subseteq Name
          /\ paths[p].id \in Text \cup {NoId}

\* No service's name begins another's, or a definition of the gateway's own.
NamesApart ==
    \A a \in DOMAIN docs :
        /\ \A b \in DOMAIN docs : IsPrefix(a, b) => a = b
        /\ \A n \in DOMAIN OwnDocument.definitions : ~IsPrefix(a, n)

Entries == {definitions[k] : k \in DOMAIN definitions}
              \cup {paths[p] : p \in DOMAIN paths}

\* "Rename definition to avoid collision." (gateway/aggregator.py): in the
\* document, while it is built and in the end, everything a service (or the
\* gateway) refers to is its own definition of that name, provided that the
\* names of services cannot be mistaken for one another.
ReferencesResolve ==
    NamesApart => \A e \in Entries : \A r \in e.refs :
        LET api == e.body[1] IN
        r \in DOMAIN definitions /\ definitions[r].body = <<api, After(api, r)>>

Ids(d) == {d.paths[p].id : p \in DOMAIN d.paths} \ {NoId}

BuildlyPaths ==
    IF Buildly \in DOMAIN docs /\ docs[Buildly] # Null
    THEN DOMAIN docs[Buildly].paths ELSE {}

\* A service's own ids are distinct, and the one service whose paths are not
\* prefixed has none that looks like another service's.
PathsApart ==
    /\ \A a \in DOMAIN docs : docs[a] # Null =>
          \A p, q \in DOMAIN docs[a].paths :
              docs[a].paths[p].id = docs[a].paths[q].id /\ docs[a].paths[p].id # NoId
                 => p = q
    /\ \A p \in BuildlyPaths : p[1] \notin DOMAIN docs

\* What operation ids begin with: services, or what stands first in a path that is
\* not prefixed.
Heads == DOMAIN docs \cup {p[1] : p \in BuildlyPaths}

\* No operation id can be read in two ways: services, whose names and ids may have
\* dots of their own, are not called 'a' and 'a.b', nor is an id of the gateway's
\* own views 'a.c'.
IdsApart ==
    /\ \A s, t \in Heads : ~IsPrefix(s \o <<Dot>>, t)
    /\ \A a \in DOMAIN docs, id \in Ids(OwnDocument) : ~IsPrefix(a \o <<Dot>>, id)

\* "Replace the current operation id to uuid to avoid collision": in the end
\* every action of every service is in the document, under its service.  The id
\* that is made of the service's name, a dot and the service's own id is no other
\* action's, be it of a service or the gateway's, provided that these ids cannot be
\* read in two ways (services 'a' and 'a.b' with the ids 'b.c' and 'c' both get
\* 'a.b.c').
OperationsDistinct ==
    stage = "done" /\ PathsApart =>
        \A a \in DOMAIN docs \ {Buildly} : \A p \in DOMAIN docs[a].paths :
            LET q == <<a>> \o p IN
            /\ q \in DOMAIN paths /\ paths[q].body = <<a, p>>
            /\ paths[q].id # NoId /\ IdsApart =>
                  \A o \in DOMAIN paths \ {q} : paths[o].id # paths[q].id
=============================================================================
