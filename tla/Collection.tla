----------------------------- MODULE Collection -----------------------------
(***************************************************************************)
(* Collections of related documents (fo-corpus/src/collection.rs): what an *)
(* import makes of the files of a directory and the rows of its metadata,  *)
(* which version of a document precedes which, and what verification       *)
(* compares.  Titles, parties, tags and dates of execution are left out.   *)
(*                                                                         *)
(* An identifier is a sequence of characters, a character a number; a file *)
(* is [path, kind, size, family, date, stem, digest, text], a row [path,   *)
(* id, family, version, date, previous, amends, supersedes, related].      *)
(***************************************************************************)
EXTENDS Basics

CONSTANT IdLength   \* identifiers are compared by their first characters

Unstated == 0
NoName == <<>>
Dot == 7
Underscore == 8
Hyphen == 9
IsLetter(c) == c < Dot
-----------------------------------------------------------------------------
(* Names of files.                                                         *)

Slugged(out, c) ==
    IF IsLetter(c) THEN Append(out, c)
    ELSE IF out = <<>> \/ Last(out) = Hyphen THEN out
    ELSE Append(out, Hyphen)
Slug(name) ==
    LET out == FoldLeft(Slugged, <<>>, name)
    IN  IF out # <<>> /\ Last(out) = Hyphen THEN Front(out) ELSE out
SafeName(name) == MappedSeq(name, LAMBDA c : IF c = Dot THEN Underscore ELSE c)
IdOrder(id) == [k \in 1..IdLength |-> IF k \in DOMAIN id THEN id[k] ELSE 0]
-----------------------------------------------------------------------------
(* Import of one file.                                                     *)

NoRow(path) ==
    [path |-> path, id |-> NoName, family |-> Unstated, version |-> Unstated, date |-> Unstated,
     previous |-> NoName, amends |-> NoName, supersedes |-> NoName, related |-> {}]
RowsOf(rows, path) == Filtered(rows, LAMBDA r : r.path = path)
RowOf(rows, path) == IF RowsOf(rows, path) = <<>> THEN NoRow(path) ELSE RowsOf(rows, path)[1]
UniqueRows(rows) == \A r, s \in DOMAIN rows : rows[r].path = rows[s].path => r = s

Given(value, otherwise) == IF value # Unstated THEN value ELSE otherwise
FamilyOf(file, row) == Given(row.family, file.family)
DateOf(file, row) == Given(row.date, file.date)
VersionOf(file, row) == Given(row.version, Given(DateOf(file, row), file.stem))
BaseId(file, row) ==
    IF row.id # NoName THEN row.id ELSE <<FamilyOf(file, row), Hyphen, VersionOf(file, row)>>

\* A name that is taken gets the digest of the file at its end.
WithDigest(name, file) == name \o <<Hyphen, file.digest>>
FreshId(used, file, row) ==
    IF BaseId(file, row) \in used THEN WithDigest(BaseId(file, row), file) ELSE BaseId(file, row)
FreshPath(used, file, id) ==
    IF Slug(id) \in used THEN WithDigest(Slug(id), file) ELSE Slug(id)

ExplicitRelations(id, row) ==
    {[from |-> id, to |-> r[1], kind |-> r[2]] :
        r \in {x \in {<<row.previous, "previous_version">>, <<row.amends, "amendment_of">>,
                      <<row.supersedes, "supersedes">>} : x[1] # NoName}
              \cup {<<x, "related_to">> : x \in row.related}}
DocumentRecord(file, row, id, stored) ==
    [id |-> id, source |-> file.path, stored |-> stored, family |-> FamilyOf(file, row),
     version |-> VersionOf(file, row), date |-> DateOf(file, row), digest |-> file.digest]

Started == [documents |-> <<>>, paths |-> {}, relations |-> {}, failed |-> FALSE]
IdsOf(documents) == {d.id : d \in Range(documents)}
Skipped(file, options) == file.size > options.maximumBytes \/ file.kind \in {"binary", "blank"}
AddDocument(state, file, row, id, stored) ==
    [state EXCEPT !.documents = Append(@, DocumentRecord(file, row, id, stored)),
                  !.paths = @ \cup {stored},
                  !.relations = @ \cup ExplicitRelations(id, row)]
AddNamed(state, file, row, id) ==
    IF id \in IdsOf(state.documents) THEN [state EXCEPT !.failed = TRUE]
    ELSE AddDocument(state, file, row, id, FreshPath(state.paths, file, id))
ImportFile(state, file, rows, options) ==
    IF state.failed \/ Skipped(file, options) THEN state
    ELSE AddNamed(state, file, RowOf(rows, file.path),
                  FreshId(IdsOf(state.documents), file, RowOf(rows, file.path)))
Eligible(files, options) ==
    Ordered({f \in files : options.allFiles \/ f.listed}, LAMBDA f : <<f.path>>)
-----------------------------------------------------------------------------
(* Families, versions and relations.                                       *)

VersionKey(document) == <<document.date, document.version>> \o IdOrder(document.id)
Family(documents, family) ==
    Ordered({d \in Range(documents) : d.family = family}, LAMBDA d : VersionKey(d))
Families(documents) == {d.family : d \in Range(documents)}
Adjacent(versions) == {<<versions[i], versions[i + 1]>> : i \in 1..(Len(versions) - 1)}
AllAdjacent(documents) == UNION {Adjacent(Family(documents, f)) : f \in Families(documents)}

\* A document somebody gave a previous version keeps that one alone.
InferPrevious(documents, relations) ==
    {[from |-> p[2].id, to |-> p[1].id, kind |-> "previous_version"] :
        p \in {x \in AllAdjacent(documents) :
                  \A r \in relations : r.kind = "previous_version" => r.from # x[2].id}}
WithInferred(state, options) ==
    state.relations
        \cup IF options.infer THEN InferPrevious(state.documents, state.relations) ELSE {}
ManifestOf(state, options) ==
    [documents |-> Ordered(Range(state.documents), LAMBDA d : IdOrder(d.id)),
     relations |-> WithInferred(state, options)]

ValidManifest(manifest) ==
    /\ \A d, e \in DOMAIN manifest.documents :
            manifest.documents[d].id = manifest.documents[e].id
                \/ manifest.documents[d].stored = manifest.documents[e].stored => d = e
    /\ \A r \in manifest.relations :
            r.from # r.to /\ {r.from, r.to} \subseteq IdsOf(manifest.documents)

\* The two manifests and the stored files agree.
Verified(collection, corpus, stored) ==
    /\ Len(collection.documents) = Len(corpus.documents)
    /\ \A d \in Range(collection.documents) :
            \E e \in Range(corpus.documents) :
                e.id = d.id /\ e.stored = d.stored /\ e.digest = d.digest
    /\ \A d \in Range(corpus.documents) : [path |-> d.stored, digest |-> d.digest] \in stored
-----------------------------------------------------------------------------
(* Versions that are compared: by the relations, then side by side.        *)

Scoped(manifest, family, maximum) ==
    Truncate(Filtered(manifest.documents, LAMBDA d : family = Unstated \/ d.family = family), maximum)
Pair(previous, current) ==
    [family |-> current.family, previous |-> previous.id, current |-> current.id,
     version |-> current.version]
RelatedPairs(manifest, scoped) ==
    {Pair(p[1], p[2]) : p \in {x \in Range(scoped) \X Range(scoped) :
        [from |-> x[2].id, to |-> x[1].id, kind |-> "previous_version"] \in manifest.relations}}
AdjacentPairs(scoped) == {Pair(p[1], p[2]) : p \in AllAdjacent(scoped)}
\* Mutated: what nobody related is not compared.
RelatedComparisonPairs(manifest, scoped) ==
    Ordered(RelatedPairs(manifest, scoped),
            LAMBDA p : <<p.family, p.version>> \o IdOrder(p.current) \o IdOrder(p.previous))
ComparisonPairs(manifest, scoped) ==
    Ordered(RelatedPairs(manifest, scoped) \cup AdjacentPairs(scoped),
            LAMBDA p : <<p.family, p.version>> \o IdOrder(p.current) \o IdOrder(p.previous))
=============================================================================
