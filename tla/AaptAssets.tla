------------------------------ MODULE AaptAssets ------------------------------
(***************************************************************************)
(* The files a package is made of: AaptAssets.cpp, and the part of         *)
(* Resource.cpp that brings the files of the overlays together.            *)
(*                                                                         *)
(* What lies on disk: a resource directory is the sequence in which        *)
(* readdir gives its entries, [name, kind, type, parts, files]: the name,  *)
(* "dir" or another kind, the word before the first dash, the parts behind *)
(* it, and the files, [leaf, base, ext, content].  A tree of raw assets is *)
(* the sequence of its files, each <<path, kind>>, a path the sequence of  *)
(* its names.                                                              *)
(*                                                                         *)
(* What becomes of it: groups, <<type, leaf>> |-> (configuration |-> file).*)
(***************************************************************************)
EXTENDS AaptConfig, StringPool

CONSTANTS
    LeafOrder,     \* the names of files in the order of their characters
    CaseFold(_),   \* a name in lower case
    ValidName(_)   \* validateFileName: printable ASCII, no path separator, not too long

ResourceTypes == {"anim", "animator", "interpolator", "transition", "drawable", "layout", "values",
                  "xml", "raw", "color", "menu", "mipmap"}

NewAssets == [raw |-> << >>, groups |-> << >>, resDirs |-> << >>, groupEntries |-> {},
              ok |-> TRUE, errors |-> FALSE]

-----------------------------------------------------------------------------
(* What is left out. *)

DefaultIgnore ==
    {[only |-> "", how |-> "exact", text |-> x] : x \in {".svn", ".git", ".ds_store", "cvs", "thumbs.db", "picasa.ini"}}
    \cup {[only |-> "", how |-> "suffix", text |-> ".scc"], [only |-> "", how |-> "prefix", text |-> "."],
          [only |-> "dir", how |-> "prefix", text |-> "_"], [only |-> "", how |-> "suffix", text |-> "~"]}
\* The patterns of the command line, else those of the environment, else the default ones.
Patterns(user, env) == IF user # {} THEN user ELSE IF env # {} THEN env ELSE DefaultIgnore

IsHidden(patterns, name, kind) ==
    LET Matches(p) ==
            LET n == Len(p.text)
                low == CaseFold(name)
            IN  CASE p.how = "suffix" -> n <= Len(low) /\ SubSeq(low, Len(low) - n + 1, Len(low)) = p.text
                  [] p.how = "prefix" -> n <= Len(low) /\ SubSeq(low, 1, n) = p.text
                  [] OTHER -> low = p.text
    IN  name \in {".", ".."} \/ \E p \in patterns : p.only \in {"", kind} /\ Matches(p)

\* initFromDirName
KnownType(d, params) == [params EXCEPT !.ok = @ /\ d.type \in ResourceTypes]
InitFromDirName(d) ==
    KnownType(d, IF d.parts = << >> THEN [ok |-> TRUE, config |-> DefaultConfig] ELSE Parse(d.parts))

-----------------------------------------------------------------------------
(* Reading the directories. *)

\* AaptGroup::addFile: a second file of a configuration replaces the first or is an error.
AddFile(a, key, config, file, overwrite) ==
    LET group == IF key \in DOMAIN a.groups THEN a.groups[key] ELSE << >>
    IN  IF config \in DOMAIN group /\ ~overwrite
        THEN [a EXCEPT !.ok = FALSE, !.errors = TRUE]
        ELSE [a EXCEPT !.groups = Set(@, key, Set(group, config, file))]

\* slurpFullTree of raw files: a hidden directory hides what is below it; devices and the like
\* are skipped.  The first file that cannot be added ends it.
SlurpFullTree(a, patterns, tree, overwrite) ==
    LET Seen(path) == \A i \in DOMAIN path : ~IsHidden(patterns, path[i], IF i = Len(path) THEN "file" ELSE "dir")
        Step(s, f) ==
            IF ~s.ok \/ ~Seen(f[1]) \/ f[2] # "file" THEN s
            ELSE IF f[1] \in DOMAIN s.raw /\ ~overwrite THEN [s EXCEPT !.ok = FALSE, !.errors = TRUE]
            ELSE [s EXCEPT !.raw = Set(@, f[1], f[2]), !.groupEntries = @ \cup {DefaultConfig}]
    IN  FoldLeft(Step, a, tree)

\* slurpResourceTree: a directory with an invalid name is reported at the end and the others are
\* read; one for a later version than is wanted is skipped.
SlurpFile(a, patterns, d, config, f) ==
    IF ~a.ok \/ IsHidden(patterns, f.leaf, "file") THEN a
    ELSE AddFile(a, <<d.type, f.leaf>>, config, Over(f, [config |-> config, type |-> d.type]), FALSE)
SlurpFiles(a, patterns, d, config) ==
    [FoldLeft(LAMBDA u, f : SlurpFile(u, patterns, d, config, f), a, d.files) EXCEPT
        !.groupEntries = IF \E i \in DOMAIN d.files : ~IsHidden(patterns, d.files[i].leaf, "file")
                         THEN @ \cup {config} ELSE @,
        !.resDirs = IF d.type \in ToSet(@) THEN @ ELSE Append(@, d.type)]
SlurpDir(s, patterns, d, params, maxResVersion) ==
    CASE ~s.a.ok \/ IsHidden(patterns, d.name, d.kind) -> s
      [] s.a.ok /\ ~IsHidden(patterns, d.name, d.kind) /\ ~params.ok -> [s EXCEPT !.bad = TRUE]
      [] OTHER ->
            IF (maxResVersion > 0 /\ params.config.sdk > maxResVersion) \/ d.kind # "dir" THEN s
            ELSE [s EXCEPT !.a = SlurpFiles(@, patterns, d, params.config)]
ReadToTheEnd(end) == [end.a EXCEPT !.ok = @ /\ ~end.bad]
SlurpResourceTree(a, patterns, tree, maxResVersion) ==
    ReadToTheEnd(FoldLeft(LAMBDA s, d : SlurpDir(s, patterns, d, InitFromDirName(d), maxResVersion),
                      [a |-> a, bad |-> FALSE], tree))

\* validate: no two names of a directory that differ in their case only.
Validate(a) ==
    LET paths == UNION {{SubSeq(p, 1, i) : i \in DOMAIN p} : p \in DOMAIN a.raw}
        Same(p, q) == Len(p) = Len(q) /\ Front(p) = Front(q) /\ CaseFold(Last(p)) = CaseFold(Last(q))
    IN  /\ \A p \in paths : ValidName(Last(p))
        /\ \A p, q \in paths : Same(p, q) => p = q
        /\ \A k \in DOMAIN a.groups : ValidName(k[2])
        /\ \A k, l \in DOMAIN a.groups : k[1] = l[1] /\ CaseFold(k[2]) = CaseFold(l[2]) => k = l

-----------------------------------------------------------------------------
(* filter: before anything is compiled, the variants of a file nobody asked for go. *)

Files(group) == Ordered(DOMAIN group, LAMBDA c, d : RankIn(ConfigOrder, c) < RankIn(ConfigOrder, d))
\* The last variant is kept, for its id, and so is XML, which may declare ids.
Removable(group, c) == Cardinality(DOMAIN group) > 1 /\ group[c].ext # "xml"
Without(group, c) == [d \in DOMAIN group \ {c} |-> group[d]]

FirstPass(entries, group) ==
    FoldLeft(LAMBDA g, c : IF Removable(g, c) /\ ~WeakMatch(entries, c) THEN Without(g, c) ELSE g,
             group, Files(group))

\* Mutant: any larger density is better.
BestDensity_Larger(group, c, preferred) ==
    LET Better(best, d) ==
            LET n == d.density
            IN  IF d = c \/ ~IsSameExcept(c, d, {"density"}) THEN best
                ELSE IF n < best /\ n >= preferred /\ best > preferred THEN n
                ELSE IF n > best THEN n ELSE best
    IN  FoldLeft(Better, c.density, Files(group))
\* The best density among the variants that differ from c in nothing else, coming from that of c:
\* the preferred one, or one that is nearer to it from above, or any larger one.
BestDensity(group, c, preferred) ==
    LET Better(best, d) ==
            LET n == d.density
            IN  IF d = c \/ ~IsSameExcept(c, d, {"density"}) THEN best
                ELSE IF n < best /\ n >= preferred /\ best > preferred THEN n
                ELSE IF n > best /\ best < preferred THEN n ELSE best
    IN  FoldLeft(Better, c.density, Files(group))
SecondPass(preferred, group) ==
    FoldLeft(LAMBDA g, c : IF /\ Removable(g, c) /\ c.density \notin {0, preferred}
                              /\ BestDensity(g, c, preferred) # c.density
                           THEN Without(g, c) ELSE g,
             group, Files(group))

\* preferred is 0 when no density was asked for.
Pruned(entries, preferred, group) ==
    IF preferred = 0 THEN FirstPass(entries, group) ELSE SecondPass(preferred, FirstPass(entries, group))
Filter(a, entries, preferred) ==
    [a EXCEPT !.groups = [k \in DOMAIN @ |-> IF k[1] \in {"values", "mipmap"} THEN @[k]
                                             ELSE Pruned(entries, preferred, @[k])]]

-----------------------------------------------------------------------------
(* slurpFromArgs: the assets directories, the resource directories, the first one for the package *)
(* and the others for its overlays, the raw directories.  args: [assets, res, raw, ignore, env,   *)
(* maxResVersion, filter, density], density "" or a word or number of parseDensity.  The result is *)
(* the package and its overlays; an error in one of them ends it.                                  *)

PreferredDensity(args) == IF args.density = << >> THEN 0 ELSE ValueOf("density", args.density)
FilterOk(args, filter) == filter.ok /\ (args.density = << >> \/ Density(args.density))

SlurpBase(args, patterns) ==
    LET assets == FoldLeft(LAMBDA a, tree : SlurpFullTree(a, patterns, tree, TRUE), NewAssets, args.assets)
        first == IF args.res = << >> THEN assets
                 ELSE SlurpResourceTree(assets, patterns, args.res[1], args.maxResVersion)
    IN  FoldLeft(LAMBDA a, tree : IF a.ok THEN SlurpFullTree(a, patterns, tree, FALSE) ELSE a, first, args.raw)
SlurpOverlays(args, patterns) ==
    [i \in 1..(Len(args.res) - 1) |->
        SlurpResourceTree(NewAssets, patterns, args.res[i + 1], args.maxResVersion)]
Slurped(args, filter, all) ==
    [assets |-> [i \in DOMAIN all |-> Filter(all[i], filter.entries, PreferredDensity(args))],
     errors |-> \E i \in DOMAIN all : all[i].errors,
     ok |-> /\ \A i \in DOMAIN all : all[i].ok
            /\ Validate(Head(all)) /\ FilterOk(args, filter)]
SlurpFromArgs(args) ==
    LET patterns == Patterns(args.ignore, args.env)
    IN  Slurped(args, WeakParse(args.filter), <<SlurpBase(args, patterns)>> \o SlurpOverlays(args, patterns))

-----------------------------------------------------------------------------
(* collect_files and applyFileOverlay *)

\* collect_files: the groups that are not empty, by their type.
CollectFiles(a) == [k \in {g \in DOMAIN a.groups : DOMAIN a.groups[g] # {}} |-> a.groups[k]]

\* An overlay's file takes the place of the one of its configuration, and is added otherwise.
ApplyFileOverlay(resources) ==
    FoldLeft(LAMBDA base, over :
                LET files == [k \in {g \in DOMAIN over : g[1] # "values"} |-> over[k]]
                IN  [k \in DOMAIN base \cup DOMAIN files |->
                       IF k \notin DOMAIN files THEN base[k]
                       ELSE IF k \notin DOMAIN base THEN files[k] ELSE Over(files[k], base[k])],
             Head(resources), Tail(resources))

\* ResourceDirIterator: the files of a type by name, and by configuration.
ResourceDir(resources, type) ==
    LET leaves == {k[2] : k \in {g \in DOMAIN resources : g[1] = type}}
        order == Ordered(leaves, LAMBDA a, b : RankIn(LeafOrder, a) < RankIn(LeafOrder, b))
        Of(leaf) == LET g == resources[<<type, leaf>>] IN [i \in DOMAIN Files(g) |-> g[Files(g)[i]]]
    IN  FlattenSeq([i \in DOMAIN order |-> Of(order[i])])

-----------------------------------------------------------------------------
(* Symbols *)

\* applyJavaSymbols: what is declared must be there.
ApplyJavaSymbols(defined, java) == java \subseteq defined
\* isJavaSymbol: which symbols an R class is written with; without private symbols, all.
IsJavaSymbol(sym, key, includePrivate) ==
    sym.privatePackage = "" \/ key \in sym.public \/ (includePrivate /\ key \in sym.java)
=============================================================================
