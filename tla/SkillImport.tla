---------------------------- MODULE SkillImport ----------------------------
(***************************************************************************)
(* The import of skills: a package (a zip, a directory, what a URL         *)
(* returns) or a single SKILL.md is split into skills, previewed against   *)
(* the registry, and committed skill by skill, while other administrators  *)
(* create, edit and delete skills.                                         *)
(*                                                                         *)
(* A row of the registry is here what an import writes and an edit of the  *)
(* attachments checks; its review and the agents that bind it are in       *)
(* SkillBindings.  Every SELECT and every commit is a step.                *)
(***************************************************************************)
EXTENDS Integers, Sequences, SequencesExt, FiniteSetsExt

CONSTANTS
    Names,           \* names of skills
    Scripts,         \* names of files with the suffix of a script
    Packages,        \* packages that may be imported
    Wishes,          \* name lists a commit may ask for; <<>> asks for all
    MaxFiles,        \* MAX_FILES
    MaxFileBytes,    \* MAX_FILE_BYTES
    MaxScriptBytes,  \* MAX_SCRIPT_BYTES
    MaxSkillBytes,   \* MAX_SKILL_BYTES
    MaxRedirects,    \* URL_MAX_REDIRECTS
    None             \* no row, or a SKILL.md that does not parse

ASSUME ImportAssumption ==
    /\ {MaxFiles, MaxFileBytes, MaxScriptBytes, MaxSkillBytes, MaxRedirects} \subseteq Nat
    /\ "SKILL.md" \notin Scripts
    /\ None \notin Names

(***************************************************************************)
(* An entry of a package: sort is what the path and the type of the entry  *)
(* say (a path that is empty or leaves the package is "outside"), dir and  *)
(* base its normalized path, text whether it is UTF-8 without NUL, and     *)
(* says the name a SKILL.md declares.                                      *)
(***************************************************************************)
Entry == [sort : {"file", "dir", "link", "outside"}, dir : Seq(STRING), base : STRING,
          text : BOOLEAN, size : Nat, says : Names \cup {None}]

ASSUME SourcesAssumption ==
    /\ Packages \subseteq Seq(Entry)
    /\ Wishes \subseteq Seq(Names)

\* An attachment of a skill.
File == [path : Seq(STRING), size : Nat, script : BOOLEAN]

VARIABLES
    registry,  \* registry[n]: attachments of the skill with this name, or None
    req        \* the import under way

importVars == <<registry, req>>

-----------------------------------------------------------------------------
(* Reading a package. *)

\* One element for each byte of the things in the domain of size.
Bytes(size) == UNION {{x} \X (1..size[x]) : x \in DOMAIN size}

Total(size) == Cardinality(Bytes(size))

\* Parts of a package are sets of positions: their order is that of the entries.
Files(package) == {i \in DOMAIN package : package[i].sort = "file"}

\* The limits are checked before and while the entries are read.
Unpacks(package) ==
    /\ Len(package) <= MaxFiles
    /\ \A i \in DOMAIN package : package[i].sort \in {"file", "dir"}
    /\ \A i \in Files(package) : package[i].size <= MaxFileBytes
    /\ Total([i \in Files(package) |-> package[i].size]) <= MaxSkillBytes

IsScript(e) == e.base \in Scripts

\* Mutant: a script of any size is taken.
FitsAlways(e) == TRUE

Fits(e) == e.size <= MaxScriptBytes

\* A script that is too large is skipped and not kept as a text.
Texts(package) == {i \in Files(package) : ~IsScript(package[i]) /\ package[i].text}
ScriptsIn(package) == {i \in Files(package) : IsScript(package[i]) /\ Fits(package[i])}
Skipped(package) == Files(package) \ (Texts(package) \cup ScriptsIn(package))

-----------------------------------------------------------------------------
(* Splitting it into skills. *)

\* The rank of a position among others, and the position with a rank.
Rank(i, positions) == Cardinality({j \in positions : j <= i})
Nth(k, positions) == CHOOSE i \in positions : Rank(i, positions) = k

IsSkill(e) == e.base = "SKILL.md"

\* Where the roots are listed: their directories, repeated if a SKILL.md is.
Roots(package) == {i \in Texts(package) : IsSkill(package[i])}

\* Where the dictionary of skills gets its keys: the first SKILL.md of each root.
SkillRoots(package) ==
    {i \in Roots(package) : \A j \in Roots(package) : package[j].dir = package[i].dir => i <= j}

\* The last SKILL.md of a directory counts.
Declared(package, root) ==
    package[Max({i \in Roots(package) : package[i].dir = root})].says

Within(e, root) == IsPrefix(root, e.dir)

Around(package, e) == {i \in Roots(package) : Within(e, package[i].dir)}

\* Mutant: the first root that holds the entry.
FirstAround(package, e) ==
    CHOOSE i \in Around(package, e) : \A j \in Around(package, e) : i <= j

\* The innermost root around an entry, the first one of equals.
Innermost(package, e) ==
    CHOOSE i \in Around(package, e) : \A j \in Around(package, e) :
        LET depth(k) == Len(package[k].dir)
        IN  depth(j) < depth(i) \/ (depth(j) = depth(i) /\ i <= j)

\* The entry as an attachment, its path relative to the root.
Below(e, root) ==
    [path |-> Append(SubSeq(e.dir, Len(root) + 1, Len(e.dir)), e.base),
     size |-> e.size, script |-> IsScript(e)]

\* A text belongs to every skill whose directory it is in, but for the
\* SKILL.md of the skill itself.
TextFiles(package, root) ==
    {Below(package[i], root) : i \in {t \in Texts(package) :
        Within(package[t], root) /\ ~(IsSkill(package[t]) /\ package[t].dir = root)}}

\* The rank, in the list of roots, of the root that a script goes to.
HomeRank(package, i) == Rank(Innermost(package, package[i]), Roots(package))

\* Scripts, and names that are skipped, go to one skill: to the one whose rank
\* in the groups is the rank of their root in the list of roots.
Homed(package, positions, k) ==
    {i \in positions : Around(package, package[i]) # {} /\ HomeRank(package, i) = k}

GroupAt(package, k) ==
    LET root == package[Nth(k, SkillRoots(package))].dir
        home(i) == package[Innermost(package, package[i])].dir
    IN  [name |-> Declared(package, root), root |-> root,
         files |-> TextFiles(package, root)
                      \cup {Below(package[i], home(i)) : i \in Homed(package, ScriptsIn(package), k)},
         skipped |-> {package[i] : i \in Homed(package, Skipped(package), k)}]

\* A rank without a group raises an IndexError.
Misses(package) ==
    \E i \in ScriptsIn(package) \cup Skipped(package) :
        /\ Around(package, package[i]) # {}
        /\ HomeRank(package, i) > Cardinality(SkillRoots(package))

\* One SKILL.md that does not parse refuses the whole package.
Parse(package) ==
    LET roots == SkillRoots(package) IN
    IF \/ ~Unpacks(package)
       \/ roots = {}
       \/ \E i \in roots : Declared(package, package[i].dir) = None
    THEN [verdict |-> "refused", groups |-> <<>>]
    ELSE IF Misses(package)
    THEN [verdict |-> "raised", groups |-> <<>>]
    ELSE [verdict |-> "parsed",
          groups |-> [k \in 1..Cardinality(roots) |-> GroupAt(package, k)]]

\* A SKILL.md that is pasted or fetched is a skill without attachments.
ParseText(says) ==
    IF says = None THEN [verdict |-> "refused", groups |-> <<>>]
    ELSE [verdict |-> "parsed",
          groups |-> <<[name |-> says, root |-> <<>>, files |-> {}, skipped |-> {}]>>]

-----------------------------------------------------------------------------
(* Attachments that are edited: the gate of the editor. *)

Accepts(files) ==
    /\ Cardinality(files) <= MaxFiles
    /\ \A f \in files :
          IF f.script THEN Last(f.path) \in Scripts /\ f.size <= MaxScriptBytes
                      ELSE f.size <= MaxFileBytes
    /\ Total([f \in files |-> f.size]) <= MaxSkillBytes

-----------------------------------------------------------------------------
(***************************************************************************)
(* The request.  looked, conflicts: groups the preview has looked up, and  *)
(* the names it found; todo: names still to commit; own: the row found for *)
(* the first of them; lost: that row was deleted since; the rest is what   *)
(* the response will say.                                                  *)
(***************************************************************************)
Idle == [pc |-> "idle", package |-> <<>>, groups |-> <<>>, dry |-> FALSE,
         overwrite |-> FALSE, wish |-> <<>>, hops |-> 0, looked |-> 0, conflicts |-> {},
         todo |-> <<>>, own |-> None, lost |-> FALSE,
         skipped |-> 0, created |-> 0, updated |-> 0]

ImportInit ==
    /\ registry = [n \in Names |-> None]
    /\ req = Idle

\* What may be asked for: a preview, or a commit.
Preview == [Idle EXCEPT !.dry = TRUE]
Commit(overwrite, wish) == [Idle EXCEPT !.overwrite = overwrite, !.wish = wish]
Asked == {Preview} \cup {Commit(overwrite, wish) : overwrite \in BOOLEAN, wish \in Wishes}

\* A constant, so that a package is parsed once.
Parsed == [package \in Packages |-> Parse(package)]

\* With what the source gave, the request goes on, or answers at once.
Resolved(me, package, parsed) ==
    req' = IF parsed.verdict = "parsed"
           THEN [me EXCEPT !.pc = "preview", !.package = package,
                           !.groups = parsed.groups, !.hops = 0]
           ELSE Idle

SubmitPackage(me, package) ==
    /\ req.pc = "idle"
    /\ Resolved(me, package, Parsed[package])
    /\ UNCHANGED registry

SubmitText(me, says) ==
    /\ req.pc = "idle"
    /\ Resolved(me, <<>>, ParseText(says))
    /\ UNCHANGED registry

SubmitURL(me) ==
    /\ req.pc = "idle"
    /\ req' = [me EXCEPT !.pc = "fetch"]
    /\ UNCHANGED registry

\* Every hop checks the host and opens a connection of its own.
Redirect ==
    /\ req.pc = "fetch"
    /\ req.hops < MaxRedirects
    /\ req' = [req EXCEPT !.hops = @ + 1]
    /\ UNCHANGED registry

FetchFails ==
    /\ req.pc = "fetch"
    /\ req' = Idle
    /\ UNCHANGED registry

\* One fetch serves the preview and the commit.
FetchPackage(package) ==
    /\ req.pc = "fetch"
    /\ Resolved(req, package, Parsed[package])
    /\ UNCHANGED registry

FetchText(says) ==
    /\ req.pc = "fetch"
    /\ Resolved(req, <<>>, ParseText(says))
    /\ UNCHANGED registry

-----------------------------------------------------------------------------
(* Preview. *)

NamesOf(groups) == {groups[i].name : i \in DOMAIN groups}

\* The row with the name of a group is looked up; of groups with one name the
\* last look counts.
Look ==
    LET n == req.groups[req.looked + 1].name IN
    /\ req.pc = "preview"
    /\ req.looked < Len(req.groups)
    /\ req' = [req EXCEPT !.looked = @ + 1,
                          !.conflicts = IF registry[n] # None THEN @ \cup {n} ELSE @ \ {n}]
    /\ UNCHANGED registry

PreviewDone ==
    /\ req.pc = "preview"
    /\ req.looked = Len(req.groups)
    /\ req.dry
    /\ req' = Idle
    /\ UNCHANGED registry

\* Names that no group has count as skipped.
StartCommit ==
    LET feasible == NamesOf(req.groups)
        requested == IF req.wish = <<>> THEN SetToSeq(feasible) ELSE req.wish
        known == {i \in DOMAIN requested : requested[i] \in feasible}
        wanted == [k \in 1..Cardinality(known) |-> requested[Nth(k, known)]]
    IN  /\ req.pc = "preview"
        /\ req.looked = Len(req.groups)
        /\ ~req.dry
        /\ req' = [req EXCEPT !.pc = "find", !.todo = wanted,
                              !.skipped = Len(requested) - Len(wanted)]
        /\ UNCHANGED registry

-----------------------------------------------------------------------------
(* Commit, name by name. *)

\* Of groups with one name the last is written.
GroupOf(n) ==
    LET ranks == {i \in DOMAIN req.groups : req.groups[i].name = n}
    IN  req.groups[Max(ranks)]

\* The request goes on with the next name, counted as the code tells the three
\* outcomes apart: by the row it found, and by what the preview had found.
NextName(created) ==
    LET n == Head(req.todo)
        skips == ~created /\ n \in req.conflicts /\ ~req.overwrite
    IN  req' = [req EXCEPT !.pc = "find", !.todo = Tail(@), !.own = None,
                           !.created = IF created THEN @ + 1 ELSE @,
                           !.skipped = IF skips THEN @ + 1 ELSE @,
                           !.updated = IF created \/ skips THEN @ ELSE @ + 1]

\* Without overwrite, a row that exists is left alone.
Keep ==
    /\ req.pc = "find"
    /\ req.todo # <<>>
    /\ registry[Head(req.todo)] # None
    /\ ~req.overwrite
    /\ NextName(FALSE)
    /\ UNCHANGED registry

Find ==
    /\ req.pc = "find"
    /\ req.todo # <<>>
    /\ registry[Head(req.todo)] # None => req.overwrite
    /\ req' = [req EXCEPT !.pc = "write", !.own = registry[Head(req.todo)]]
    /\ UNCHANGED registry

\* Mutant: the row is written whether or not there is one by now.
InsertAnyway ==
    LET n == Head(req.todo) IN
    /\ req.pc = "write"
    /\ req.own = None
    /\ registry' = [registry EXCEPT ![n] = GroupOf(n).files]
    /\ NextName(TRUE)

\* Names are unique: an INSERT of one that was created meanwhile raises, as
\* does the UPDATE of a row that was deleted meanwhile.
Insert ==
    LET n == Head(req.todo) IN
    /\ req.pc = "write"
    /\ req.own = None
    /\ registry[n] = None
    /\ registry' = [registry EXCEPT ![n] = GroupOf(n).files]
    /\ NextName(TRUE)

\* The UPDATE holds the columns that differ from what was found.
Overwrite ==
    LET n == Head(req.todo) IN
    /\ req.pc = "write"
    /\ req.own # None
    /\ ~req.lost
    /\ registry' = [registry EXCEPT ![n] =
                      IF GroupOf(n).files = req.own THEN @ ELSE GroupOf(n).files]
    /\ NextName(FALSE)

\* The agents that bind the skills are refreshed (see SkillBindings).
Respond ==
    /\ req.pc = "find"
    /\ req.todo = <<>>
    /\ req' = [req EXCEPT !.pc = "done"]
    /\ UNCHANGED registry

ResponseSent ==
    /\ req.pc = "done"
    /\ req' = Idle
    /\ UNCHANGED registry

\* The database raises, or the process stops; what was committed stays.
Abort ==
    /\ req.pc \in {"preview", "find", "write"}
    /\ req' = Idle
    /\ UNCHANGED registry

-----------------------------------------------------------------------------
(* Other administrators. *)

Create(n) ==
    /\ registry[n] = None
    /\ registry' = [registry EXCEPT ![n] = {}]
    /\ UNCHANGED req

\* The editor sends the attachments it shows, without those that were removed.
EditFiles(n, files) ==
    /\ registry[n] # None
    /\ files \subseteq registry[n]
    /\ Accepts(files)
    /\ registry' = [registry EXCEPT ![n] = files]
    /\ UNCHANGED req

Delete(n) ==
    /\ registry[n] # None
    /\ registry' = [registry EXCEPT ![n] = None]
    /\ req' = [req EXCEPT !.lost = @ \/ (req.own # None /\ n = Head(req.todo))]

-----------------------------------------------------------------------------
Post(me) ==
    \/ \E package \in Packages : SubmitPackage(me, package)
    \/ \E says \in Names \cup {None} : SubmitText(me, says)
    \/ SubmitURL(me)

Fetch ==
    \/ Redirect
    \/ FetchFails
    \/ \E package \in Packages : FetchPackage(package)
    \/ \E says \in Names \cup {None} : FetchText(says)

Import ==
    \/ \E me \in Asked : Post(me)
    \/ Fetch
    \/ Look \/ PreviewDone \/ StartCommit
    \/ Keep \/ Find \/ Insert \/ Overwrite
    \/ Respond \/ ResponseSent \/ Abort

Others ==
    \E n \in Names :
        \/ Create(n)
        \/ Delete(n)
        \/ registry[n] # None /\ \E files \in SUBSET registry[n] : EditFiles(n, files)

ImportNext == Import \/ Others

ImportSpec == ImportInit /\ [][ImportNext]_importVars

-----------------------------------------------------------------------------
(* Correctness. *)

\* No SKILL.md of the package is there twice.
Regular(package) ==
    \A i, j \in DOMAIN package :
        IsSkill(package[i]) /\ IsSkill(package[j]) /\ package[i].dir = package[j].dir
            => i = j

\* A script is given to the skill in whose directory it lies, and to no skill
\* around that one: what a reviewer of a skill sees is what its agents can run.
\* Not for a package with a repeated SKILL.md, whose roots are listed differently
\* by the two functions that assign scripts and attach them (skill_import.py:202).
ScriptsAtHome ==
    req.pc = "preview" /\ Regular(req.package) =>
        \A i \in ScriptsIn(req.package), g \in ToSet(req.groups) :
            LET e == req.package[i] IN
            Within(e, g.root) =>
                (Below(e, g.root) \in g.files
                    <=> \A h \in ToSet(req.groups) : Within(e, h.root) => IsPrefix(h.root, g.root))

\* Whatever an import stored, the editor takes it back as it is: the limits of
\* the two gates agree, although they are written twice and an import counts
\* the entries of the package, not those of a skill.
ImportedEdits ==
    \A n \in Names : registry[n] # None => Accepts(registry[n])

\* Without overwrite an import changes no skill that exists, not even one that
\* was created after the preview, or between the lookup and the INSERT.
OverwritesOnDemand ==
    [][Import /\ ~req.overwrite
          => \A n \in Names : registry[n] # None => registry'[n] = registry[n]]_importVars

=============================================================================
