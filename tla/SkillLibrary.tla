----------------------------- MODULE SkillLibrary -----------------------------
(* Import of skill packages (mvp/skill_imports.py) for one tenant: a package *)
(* is read once, compared with what the user reviewed, staged, renamed into  *)
(* the library and then given its row.  Imports overlap, the service dies    *)
(* between two steps, and the start of the service sweeps what has no row.   *)
EXTENDS Integers, Sequences, FiniteSets

CONSTANTS
    Importers,        \* calls of import_draft that may overlap
    SkillContents,         \* contents of packages; a digest stands for its content
    Names,
    MaxPackages,      \* bound: package identifiers used
    MaxSkillCrashes   \* bound

ASSUME SkillBounds ==
    MaxPackages \in Nat /\ MaxSkillCrashes \in Nat /\ SkillContents # {}

VARIABLES
    skillPhase,   \* "serving", "sweep" (recovery under way)
    source,       \* the candidate directories: [Names -> SkillContents]
    rows,         \* mvp_portable_skill_versions: set of [id, name, version, digest, status]
    staging,      \* .staging/: set of [id, content]
    library,      \* library_root/<id>/<version>: set of [id, content]
    import,       \* the import of each caller
    issued,       \* identifiers used so far
    skillReviewed,  \* what users approved: set of digests
    served,       \* contents handed out by instructions
    referenced,   \* the rows recovery read
    skillCrashes

skillVars == <<skillPhase, source, rows, staging, library, import, issued, skillReviewed, served,
               referenced, skillCrashes>>
diskVars == <<staging, library>>

NoImport == [pc |-> "idle"]

SkillInit ==
    /\ skillPhase = "serving"
    /\ source = [n \in Names |-> CHOOSE x \in SkillContents : TRUE]
    /\ rows = {} /\ staging = {} /\ library = {} /\ issued = 0
    /\ import = [c \in Importers |-> NoImport]
    /\ skillReviewed = {} /\ served = {} /\ referenced = {} /\ skillCrashes = 0

(* The owner of a vendor directory edits it.                                *)
SourceEdited ==
    \E n \in Names, x \in SkillContents :
        /\ source[n] # x /\ source' = [source EXCEPT ![n] = x]
        /\ UNCHANGED <<skillPhase, rows, diskVars, import, issued, skillReviewed, served,
                       referenced, skillCrashes>>

(* _read_snapshot: the files of a package; SKILL.md among them carries its  *)
(* name, so packages of two names differ.                                   *)
PackageSnapshot(n) == <<n, source[n]>>

(* preview, and the user's approval of what it shows.                       *)
Review(n) ==
    /\ skillPhase = "serving"
    /\ PackageSnapshot(n) \notin skillReviewed /\ skillReviewed' = skillReviewed \cup {PackageSnapshot(n)}
    /\ UNCHANGED <<skillPhase, source, rows, diskVars, import, issued, served, referenced,
                   skillCrashes>>

Exact(d) == \E r \in rows : r.digest = d

(* import_draft up to its reads: the snapshot has the digest the user       *)
(* expects, and no row of the tenant has it (such a row is the answer).     *)
ImportBegins(c, n) ==
    /\ skillPhase = "serving" /\ import[c] = NoImport /\ issued < MaxPackages
    /\ PackageSnapshot(n) \in skillReviewed /\ ~Exact(PackageSnapshot(n))
    /\ issued' = issued + 1
    /\ import' = [import EXCEPT ![c] = [pc |-> "stage", id |-> issued + 1, name |-> n,
          files |-> PackageSnapshot(n), version |-> 1 + Cardinality({r \in rows : r.name = n})]]
    /\ UNCHANGED <<skillPhase, source, rows, diskVars, skillReviewed, served, referenced,
                   skillCrashes>>

(* _copy_reviewed writes the files that were read and reviewed.                  *)
CopyReviewed(r) == r.files

StagePackage(c) ==
    /\ import[c].pc = "stage"
    /\ staging' = staging \cup {[id |-> import[c].id, content |-> CopyReviewed(import[c])]}
    /\ import' = [import EXCEPT ![c].pc = "rename"]
    /\ UNCHANGED <<skillPhase, source, rows, library, issued, skillReviewed, served, referenced,
                   skillCrashes>>

(* Writing into staging fails: what is there is removed.                    *)
StageFails(c) ==
    /\ import[c].pc \in {"stage", "rename"}
    /\ staging' = {s \in staging : s.id # import[c].id}
    /\ import' = [import EXCEPT ![c] = NoImport]
    /\ UNCHANGED <<skillPhase, source, rows, library, issued, skillReviewed, served, referenced,
                   skillCrashes>>

(* os.replace(staging, target)                                              *)
Rename(c) ==
    /\ import[c].pc = "rename"
    /\ library' = library \cup {s \in staging : s.id = import[c].id}
    /\ staging' = {s \in staging : s.id # import[c].id}
    /\ import' = [import EXCEPT ![c].pc = "insert"]
    /\ UNCHANGED <<skillPhase, source, rows, issued, skillReviewed, served, referenced, skillCrashes>>

(* UNIQUE(tenant_id, name, version) and UNIQUE(tenant_id, digest)           *)
RowUnique(r) ==
    \A x \in rows : x.digest # r.files /\ ~(x.name = r.name /\ x.version = r.version)

(* shutil.rmtree(target.parent)                                             *)
DropPackage(id) == {p \in library : p.id # id}

(* The insert, or the removal of the package (skill_import_conflict, or the *)
(* database is gone).                                                       *)
Insert(c) ==
    LET r == import[c] IN
    /\ r.pc = "insert"
    /\ \/ /\ RowUnique(r)
          /\ rows' = rows \cup {[id |-> r.id, name |-> r.name, version |-> r.version,
                                 digest |-> r.files, status |-> "draft"]}
          /\ UNCHANGED library
       \/ library' = DropPackage(r.id) /\ UNCHANGED rows
    /\ import' = [import EXCEPT ![c] = NoImport]
    /\ UNCHANGED <<skillPhase, source, staging, issued, skillReviewed, served, referenced,
                   skillCrashes>>

-----------------------------------------------------------------------------
WithStatus(r, s) == [r EXCEPT !.status = s]

(* activate: the active version of the name becomes a draft again.          *)
Activated(r) ==
    {WithStatus(x, IF x.id = r.id THEN "active"
                   ELSE IF x.name = r.name /\ x.status = "active" THEN "draft"
                   ELSE x.status) : x \in rows}

Activate ==
    \E r \in rows :
        /\ skillPhase = "serving" /\ rows' = Activated(r)
        /\ UNCHANGED <<skillPhase, source, diskVars, import, issued, skillReviewed, served,
                       referenced, skillCrashes>>

Archive ==
    \E r \in rows :
        /\ skillPhase = "serving" /\ rows' = (rows \ {r}) \cup {WithStatus(r, "archived")}
        /\ UNCHANGED <<skillPhase, source, diskVars, import, issued, skillReviewed, served,
                       referenced, skillCrashes>>

(* Somebody edits a package in the library.                                 *)
PackageEdited ==
    \E p \in library, x \in SkillContents :
        /\ p.content[2] # x
        /\ library' = (library \ {p}) \cup {[p EXCEPT !.content = <<p.content[1], x>>]}
        /\ UNCHANGED <<skillPhase, source, rows, staging, import, issued, skillReviewed, served,
                       referenced, skillCrashes>>

\* Mistake: the package is not compared with the row.
Unchecked(p, r) == TRUE

(* compare_digest(_files_digest(files), row["digest"])                      *)
Unchanged(p, r) == p.content = r.digest

(* instructions of an active version, for a chat or a run.                  *)
Instructions ==
    \E r \in rows, p \in library :
        /\ skillPhase = "serving" /\ r.status = "active" /\ p.id = r.id /\ Unchanged(p, r)
        /\ served' = served \cup {p.content}
        /\ UNCHANGED <<skillPhase, source, rows, diskVars, import, issued, skillReviewed,
                       referenced, skillCrashes>>

-----------------------------------------------------------------------------
SkillServiceDies ==
    /\ skillCrashes < MaxSkillCrashes /\ skillCrashes' = skillCrashes + 1
    /\ skillPhase' = "down" /\ import' = [c \in Importers |-> NoImport]
    /\ UNCHANGED <<source, rows, diskVars, issued, skillReviewed, served, referenced>>

(* recover_interrupted_imports reads the rows before it looks at the disk.  *)
SweepBegins ==
    /\ skillPhase = "down" /\ skillPhase' = "sweep"
    /\ referenced' = {r.id : r \in rows}
    /\ UNCHANGED <<source, rows, diskVars, import, issued, skillReviewed, served, skillCrashes>>

(* Packages that no row refers to are removed.                              *)
Sweeps(p) == p.id \notin referenced

(* One directory after the other.                                           *)
SweepOne ==
    /\ skillPhase = "sweep"
    /\ \/ \E s \in staging : staging' = staging \ {s} /\ UNCHANGED library
       \/ \E p \in library : Sweeps(p) /\ library' = library \ {p} /\ UNCHANGED staging
    /\ UNCHANGED <<skillPhase, source, rows, import, issued, skillReviewed, served, referenced,
                   skillCrashes>>

SweepEnds ==
    /\ skillPhase = "sweep" /\ staging = {} /\ ~\E p \in library : Sweeps(p)
    /\ skillPhase' = "serving" /\ referenced' = {}
    /\ UNCHANGED <<source, rows, diskVars, import, issued, skillReviewed, served, skillCrashes>>

SkillNext ==
    \/ SourceEdited \/ Activate \/ Archive \/ PackageEdited \/ Instructions
    \/ SkillServiceDies \/ SweepBegins \/ SweepOne \/ SweepEnds
    \/ \E n \in Names : Review(n) \/ \E c \in Importers : ImportBegins(c, n)
    \/ \E c \in Importers : StagePackage(c) \/ StageFails(c) \/ Rename(c) \/ Insert(c)

SkillSpec == SkillInit /\ [][SkillNext]_skillVars

-----------------------------------------------------------------------------
Importing == {import[c].id : c \in {d \in Importers : import[d] # NoImport}}

(* Rows are about known names and contents and have distinct identifiers.   *)
SkillTypeOK ==
    /\ skillPhase \in {"serving", "down", "sweep"} /\ source \in [Names -> SkillContents]
    /\ \A r \in rows : /\ r.id \in 1..issued /\ r.name \in Names /\ r.digest[2] \in SkillContents
                       /\ r.status \in {"draft", "active", "archived"}
    /\ Cardinality({r.id : r \in rows}) = Cardinality(rows)

(* However imports overlap, a name has one row per version and a content    *)
(* one row: the version was read before the package was staged.             *)
VersionsDistinct ==
    \A r, x \in rows : (r.digest = x.digest \/ (r.name = x.name /\ r.version = x.version)) => r = x

(* A row always has its package: wherever an import or a sweep stopped, no  *)
(* package with a row was removed.                                          *)
RowsHavePackages == \A r \in rows : \E p \in library : p.id = r.id

(* While the service serves, a directory without a row belongs to an import *)
(* that is running; what a crash left is gone after the next start.         *)
NothingLeftBehind ==
    skillPhase = "serving" =>
        \A p \in library \cup staging : p.id \in {r.id : r \in rows} \cup Importing

(* What is imported, and what a chat is given, is content that the user     *)
(* reviewed under that name, although the library may change at any time.   *)
OnlyReviewedServed ==
    /\ \A r \in rows : r.digest \in skillReviewed /\ r.digest[1] = r.name
    /\ served \subseteq skillReviewed

(* Until somebody edits the library, a package holds the content its import *)
(* reviewed, although the candidate's directory changed before the copy.    *)
CopiesReviewed ==
    skillPhase = "serving" =>
        \A c \in Importers : \A s \in staging :
            (import[c] # NoImport /\ import[c].id = s.id) => s.content = import[c].files

(* At most one version of a name is active.                                 *)
OneActiveVersion ==
    \A r, x \in rows : (r.name = x.name /\ r.status = "active" /\ x.status = "active") => r = x

(* Imports that overlap or die leave rows and packages that fit, one active *)
(* version, and nothing but reviewed content in use.                        *)
SkillsSound ==
    /\ SkillTypeOK /\ VersionsDistinct /\ RowsHavePackages /\ NothingLeftBehind
    /\ OnlyReviewedServed /\ CopiesReviewed /\ OneActiveVersion
=============================================================================
