---------------------------- MODULE ResourceBuild ----------------------------
(***************************************************************************)
(* "caapt package": doPackage of Command.cpp, buildResources of            *)
(* Resource.cpp and the splits of ApkBuilder.cpp.  One build after the     *)
(* other, of the host and of the bundles that include its APK and merge    *)
(* its R.java, as sub-project-build.gradle runs them.                      *)
(***************************************************************************)
EXTENDS RJava

CONSTANTS
    Plan,           \* bound: the projects, sources and command lines, that may be built one after the other
    InvalidNames,   \* base names with a character outside of [a-z0-9_.]
    CharsOf(_),     \* the kinds of characters of a name
    LastPart(_)       \* what follows the last dot of a name

\* Lists, names of resources, and ids, as they are read from files.
IsList(s) == Len(s) \in Nat /\ s = [i \in 1..Len(s) |-> s[i]]
IsRef(r) == r = <<r[1], r[2], r[3]>>
Ids == Nat \X Nat \X Nat

\* What the XML parser gives: for a values file tags, for others the events of a document.
WithChildren == {"declare-styleable", "bag", "style", "plurals", "array", "string-array", "integer-array"}
TagOk(e) ==
    /\ \A a \in {"id", "start", "end"} \cap DOMAIN e : e[a] \in Ids
    /\ "parent" \in DOMAIN e => IsRef(e.parent)
    /\ e.tag \in WithChildren => "children" \in DOMAIN e
    /\ "children" \in DOMAIN e =>
          /\ IsList(e.children)
          /\ \A i \in DOMAIN e.children :
                LET c == e.children[i]
                IN  /\ "children" \in DOMAIN c => IsList(c.children)
                    /\ c.tag = "item" /\ "name" \in DOMAIN c => Len(c.name) = 2
EventKinds == {"startNamespace", "startElement", "characterData", "comment", "endElement", "endNamespace"}
EventsOk(events) ==
    /\ IsList(events)
    /\ \A i \in DOMAIN events : /\ events[i].e \in EventKinds
                                /\ events[i].e = "startElement" => IsList(events[i].attrs)
FileOk(f) ==
    /\ {"leaf", "tags", "events"} \subseteq DOMAIN f /\ f.leaf \in ToSet(LeafOrder)
    /\ IsList(f.tags) /\ \A i \in DOMAIN f.tags : TagOk(f.tags[i])
    /\ EventsOk(f.events)

\* The sources of a project are lists of trees, these of directories or files.  A directory with a
\* valid name is for a configuration that has its place in ConfigOrder; densities are numbers.
AreTrees(list) == IsList(list) /\ \A i \in DOMAIN list : IsList(list[i])
SourcesOk(args) ==
    /\ DOMAIN args = {"assets", "res", "raw", "ignore", "env", "maxResVersion", "filter", "density"}
    /\ AreTrees(args.assets) /\ AreTrees(args.res) /\ AreTrees(args.raw)
    /\ \A i \in DOMAIN args.res : \A j \in DOMAIN args.res[i] :
          LET d == args.res[i][j]
              params == InitFromDirName(d)
          IN  /\ IsList(d.files)
              /\ \A n \in DOMAIN d.files : FileOk(d.files[n]) /\ "config" \notin DOMAIN d.files[n]
              /\ params.ok => params.config \in ToSet(ConfigOrder)
    /\ args.density # << >> => args.density[2] \in Nat

\* Nothing is built as the package of the framework, and what has the id of one of its attributes
\* is an attribute.
PackageIds == {PackageId(p.kind, p.apkModule) : p \in UNION ToSet(Plan)}
FrameworkOk(framework) ==
    \A r \in {x \in DOMAIN framework : x[2] = "attr"} :
        /\ framework[r].id # NoId /\ framework[r].id[1] \notin PackageIds
        /\ \A s \in DOMAIN framework : framework[s].id = framework[r].id => s[2] = "attr"
ProjectOk(p) ==
    /\ SourcesOk(p.args) /\ EventsOk(p.manifest.events) /\ IsList(p.splits) /\ IsFiniteSet(p.includes)
    /\ {"packageId", "included", "pseudo", "minSdk"} \subseteq DOMAIN p.opt
    /\ FrameworkOk(p.framework)
IsOrder(order) == IsList(order) /\ \A i, j \in DOMAIN order : order[i] = order[j] => i = j
ASSUME SourcesAssumption ==
    /\ IsOrder(ConfigOrder) /\ IsOrder(LeafOrder)
    /\ \A i \in DOMAIN ConfigOrder : /\ {"density", "sdk"} \subseteq DOMAIN ConfigOrder[i]
                                     /\ ConfigOrder[i].density \in Nat
    /\ \A i \in DOMAIN Plan : \A p \in Plan[i] : ProjectOk(p)

VARIABLES
    pc,         \* where the build is
    prj,        \* the project being built
    assets,     \* its AaptAssets, the package's own and the overlays'
    resources,  \* its resource files, the overlays applied
    table,      \* its ResourceTable
    out,        \* what was made so far: symbols, localizations, files, XML, the manifest, APKs
    failed,     \* hasErrors of buildResources
    todo,       \* what is left of the loop at hand
    published,  \* package |-> the APKs on disk
    rfiles,     \* package |-> the R class on disk
    built       \* how many builds were started

vars == <<pc, prj, assets, resources, table, out, failed, todo, published, rfiles, built>>

NoTodo == << >>
Blank == [sym |-> NoSymbols, loc |-> << >>, files |-> {}, xml |-> << >>, doc |-> << >>,
          manifest |-> << >>, apks |-> << >>, named |-> << >>, permissions |-> << >>, keep |-> {},
          warned |-> {}, public |-> << >>, texts |-> {}]

Init ==
    /\ pc = "idle" /\ prj = << >> /\ assets = << >> /\ resources = << >> /\ table = << >>
    /\ out = Blank /\ failed = FALSE /\ todo = NoTodo
    /\ published = << >> /\ rfiles = << >> /\ built = 0

Start(p) ==
    /\ pc \in {"idle", "done", "failed"} /\ built < Len(Plan) /\ p \in Plan[built + 1]
    /\ pc' = "slurp" /\ prj' = p /\ built' = built + 1
    /\ assets' = << >> /\ resources' = << >> /\ table' = << >> /\ out' = Blank
    /\ failed' = FALSE /\ todo' = NoTodo
    /\ UNCHANGED <<published, rfiles>>

\* Every "goto bail" and every early return with an error: nothing is published any more.
Abort == pc' = "failed" /\ UNCHANGED <<prj, assets, resources, table, out, failed, todo,
                                       published, rfiles, built>>

-----------------------------------------------------------------------------
(* What is there: the assets and the splits, the package, the table. *)

FilterEntries == WeakParse(prj.args.filter).entries
ParsedSplits == [i \in DOMAIN prj.splits |-> ParseCommaSeparatedList(prj.splits[i])]
Splits == [i \in DOMAIN prj.splits |-> ParseCommaSeparatedList(prj.splits[i]).configs]
\* createSplitForConfigs: no configuration is in two splits.
SplitsOk(parsed) ==
    /\ \A i \in DOMAIN parsed : parsed[i].ok
    /\ \A i, j \in DOMAIN parsed : i # j => parsed[i].configs \cap parsed[j].configs = {}

Slurp ==
    /\ pc = "slurp"
    /\ \E slurped \in {SlurpFromArgs(prj.args)}, parsed \in {ParsedSplits} :
          LET ok == slurped.ok /\ SplitsOk(parsed)
          IN  \/ ~ok /\ Abort
              \/ /\ ok
                 /\ pc' = "package" /\ assets' = slurped.assets
                 /\ UNCHANGED <<prj, resources, table, out, failed, todo, published, rfiles, built>>

\* parsePackage
RootIsPackage(doc) ==
    /\ Elements(doc) # {}
    /\ LET first == doc[Min(Elements(doc))]
       IN  first.name = "manifest" /\ Attribute(first, NoNs, "package") # {}
PackageOk(manifest) == manifest.wellFormed /\ RootIsPackage(ParseXml(manifest.events))

\* -c en_XA or ar_XB asks for the pseudolocale.
FilterPseudo == {m \in DOMAIN PseudoLocale : \E e \in FilterEntries : e.config.locale = PseudoLocale[m]}
\* addIncludedResources: the framework, and the APKs that were built before.
IncludedResources ==
    FoldSet(LAMBDA pkg, inc : Over(published[pkg].exported, inc), prj.framework, prj.includes)

\* The table, and the files of each type with those of the overlays in their places.
FirstTypes == <<"drawable", "mipmap", "layout", "anim", "animator", "transition", "interpolator", "xml", "raw">>
PackageOptions ==
    [prj.opt EXCEPT !.packageId = PackageId(prj.kind, prj.apkModule),
                    !.included = IncludedResources, !.pseudo = @ \cup FilterPseudo]
NewPackage ==
    /\ pc = "package"
    /\ \E ok \in {PackageOk(prj.manifest) /\ prj.includes \subseteq DOMAIN published} :
          \/ ~ok /\ Abort
          \/ /\ ok
             /\ table' = NewTable(PackageOptions)
             /\ resources' = ApplyFileOverlay([i \in DOMAIN assets |-> CollectFiles(assets[i])])
             /\ pc' = "files" /\ todo' = FirstTypes
             /\ UNCHANGED <<prj, assets, out, failed, published, rfiles, built>>

-----------------------------------------------------------------------------
(* Resources from files and from values. *)

ResPath(f) == "res/" \o f.type \o DirName(f.config) \o "/" \o f.leaf
Packaged(f) == [path |-> ResPath(f), config |-> f.config, mipmap |-> f.type = "mipmap"]

\* makeFileResources: nobody looks at what addEntry returns.
MakeFileResources(type) ==
    LET files == ResourceDir(resources, type)
        Add1(t, f) == AddEntry(t, type, f.base, [k |-> "string", v |-> ResPath(f)], f.config, {"any"}, FALSE, FALSE)
        bad == \E i \in DOMAIN files : files[i].base \in InvalidNames
    IN  /\ table' = FoldLeft(Add1, table, files)
        /\ out' = [out EXCEPT !.files = @ \cup {Packaged(files[i]) : i \in DOMAIN files}]
        /\ failed' = (failed \/ bad)

\* Images that cannot be processed keep their type out; without an output file no image is
\* processed, and mipmaps meet the status the drawables left.
ImagesOk(type) ==
    LET files == ResourceDir(resources, type)
    IN  CASE prj.opt.output -> \A i \in DOMAIN files : files[i].imageOk
          [] ~prj.opt.output /\ type = "mipmap" -> ~failed
          [] OTHER -> TRUE
MakeFiles ==
    LET type == Head(todo)
    IN  /\ pc \in {"files", "late"} /\ todo # NoTodo
        /\ \/ type \in {"drawable", "mipmap"} /\ ResourceDir(resources, type) # << >> /\ ~ImagesOk(type)
              /\ failed' = TRUE /\ UNCHANGED <<table, out>>
           \/ (type \in {"drawable", "mipmap"} /\ ResourceDir(resources, type) # << >> => ImagesOk(type))
              /\ MakeFileResources(type)
        /\ todo' = Tail(todo)
        /\ UNCHANGED <<pc, prj, assets, resources, published, rfiles, built>>

\* The values files, those of the package first and those of its overlays over them.
ValuesFiles ==
    FlattenSeq([i \in DOMAIN assets |->
        LET files == ResourceDir(CollectFiles(assets[i]), "values")
        IN  [j \in DOMAIN files |-> <<i, files[j]>>]])
ToValues ==
    /\ pc = "files" /\ todo = NoTodo
    /\ pc' = "values" /\ todo' = ValuesFiles
    /\ UNCHANGED <<prj, assets, resources, table, out, failed, published, rfiles, built>>

CompileValues ==
    /\ pc = "values" /\ todo # NoTodo
    /\ \E r \in {CompileResourceFile(table, out.sym, out.loc, Head(todo)[2], Head(todo)[1] > 1)} :
          /\ table' = r.t /\ failed' = (failed \/ r.errors)
          /\ out' = [out EXCEPT !.sym = r.sym, !.loc = r.loc]
    /\ todo' = Tail(todo)
    /\ UNCHANGED <<pc, prj, assets, resources, published, rfiles, built>>
ToLate ==
    /\ pc = "values" /\ todo = NoTodo
    /\ pc' = "late" /\ todo' = <<"color", "menu">>
    /\ UNCHANGED <<prj, assets, resources, table, out, failed, published, rfiles, built>>

-----------------------------------------------------------------------------
(* Ids, and the XML that may refer to them. *)

\* Of the drawables those that are XML.
XmlTypes == <<"layout", "anim", "animator", "interpolator", "transition", "xml", "drawable", "color", "menu">>
XmlFiles ==
    LET OfType(type) == FoldLeft(LAMBDA list, f : IF type # "drawable" \/ f.ext = "xml" THEN Append(list, f) ELSE list,
                                 << >>, ResourceDir(resources, type))
    IN  FlattenSeq([i \in DOMAIN XmlTypes |-> OfType(XmlTypes[i])])

HasResources == table.numLocal > 0
AssignIds ==
    /\ pc = "late" /\ todo = NoTodo
    /\ \E t \in {IF HasResources THEN AssignResourceIds(Good(table)) ELSE Good(table)} :
          \/ ~t.ok /\ Abort
          \/ /\ t.ok
             /\ table' = t /\ pc' = "xml" /\ todo' = XmlFiles
             /\ UNCHANGED <<prj, assets, resources, out, failed, published, rfiles, built>>

\* A file that does not compile lets the others go on.
Compiled(file) == Set(file, "name", file.base)
WithXml(xml, f, r) ==
    IF r.ok THEN Set(xml, ResPath(f), [flat |-> r.flat, doc |-> r.doc, config |-> f.config]) ELSE xml
CompileXml ==
    /\ pc = "xml" /\ todo # NoTodo
    /\ \E r \in {CompileXmlFile(table, Compiled(Head(todo)))} :
          /\ table' = r.t /\ failed' = (failed \/ ~r.ok)
          /\ out' = [out EXCEPT !.xml = WithXml(@, Head(todo), r)]
    /\ todo' = Tail(todo)
    /\ UNCHANGED <<pc, prj, assets, resources, published, rfiles, built>>

\* What was put off for a later platform is compiled and packaged.
WorkItem ==
    /\ pc = "xml" /\ todo = NoTodo /\ table.work # << >>
    /\ LET f == Head(table.work)
       IN  \E r \in {CompileXmlFile([table EXCEPT !.work = Tail(@)], f)} :
              /\ table' = r.t /\ failed' = (failed \/ ~r.ok)
              /\ out' = [out EXCEPT !.xml = WithXml(@, f, r), !.files = IF r.ok THEN @ \cup {Packaged(f)} ELSE @]
    /\ UNCHANGED <<pc, prj, assets, resources, todo, published, rfiles, built>>

-----------------------------------------------------------------------------
(* The manifest. *)

\* addTagAttribute: an attribute that is there is replaced, or an error, or left alone.
AddTagAttribute(s, i, ns, name, value, replace) ==
    LET at == Attribute(s.doc[i], ns, name)
        fresh == [s.doc EXCEPT ![i] = AddAttribute(@, ns, name, value)]
    IN  IF value.k = "none" \/ ~s.ok THEN s
        ELSE IF at = {} THEN [s EXCEPT !.doc = fresh]
        ELSE IF replace THEN [s EXCEPT !.doc = [@ EXCEPT ![i].attrs[CHOOSE j \in at : TRUE].raw = value]]
        ELSE [s EXCEPT !.ok = ~prj.massage.errorOnFailedInsert]

Rewrite(doc, i, ns, name, raw) ==
    FoldSet(LAMBDA j, d : [d EXCEPT ![i].attrs[j].raw = raw], doc, Attribute(doc[i], ns, name))
Str(text) == [k |-> "string", v |-> text]

\* A new first child of the root element: those that follow move on by one place.
InsertFirst(doc, root, name) ==
    LET Move(i) == IF i > root THEN i + 1 ELSE i
    IN  [i \in 1..(Len(doc) + 1) |->
           IF i = root + 1 THEN Node("element", root, NoNs, name)
           ELSE LET n == doc[IF i > root + 1 THEN i - 1 ELSE i] IN [n EXCEPT !.parent = Move(@)]]

FirstOf(places) == IF places = {} THEN 0 ELSE Min(places)
Root(doc) == Min(SearchElement(doc, NoNs, "manifest"))
Child(doc, name) == FirstOf(GetChildElement(doc, Root(doc), NoNs, name))
\* The classes of a package that is renamed keep their names: of its application and what is right
\* below it.
ClassAttributes(doc, i, app) ==
    CASE i = app -> {"name", "backupAgent"}
      [] i # app /\ app # 0 /\ doc[i].parent = app ->
            CASE doc[i].name \in {"activity", "service", "receiver", "provider"} -> {"name"}
              [] doc[i].name = "activity-alias" -> {"name", "targetActivity"}
              [] OTHER -> {}
      [] OTHER -> {}
Qualify(doc, i, name, package) ==
    Rewrite(doc, i, Android, name, Str(QualifiedName(package, TextOf(doc[i], Android, name))))
QualifyBelow(doc, app, package) ==
    FoldLeft(LAMBDA d, i : FoldSet(LAMBDA name, e : Qualify(e, i, name, package), d, ClassAttributes(d, i, app)),
             doc, [i \in DOMAIN doc |-> i])
QualifyClasses(doc, package) == QualifyBelow(doc, Child(doc, "application"), package)

Tag(s, i, name, replace) == AddTagAttribute(s, i, Android, name, prj.massage[name], replace)

Versioned(s) ==
    FoldLeft(LAMBDA u, name : Tag(u, Root(u.doc), name, prj.massage.replaceVersion), s,
             <<"versionCode", "versionName">>)
SdkAttributes == <<"minSdkVersion", "targetSdkVersion", "maxSdkVersion">>
WithUsesSdk(s) ==
    IF Child(s.doc, "uses-sdk") = 0 THEN [s EXCEPT !.doc = InsertFirst(@, Root(@), "uses-sdk")] ELSE s
WithSdk(s) ==
    IF s.ok /\ \E name \in ToSet(SdkAttributes) : prj.massage[name].k # "none"
    THEN FoldLeft(LAMBDA v, name : Tag(v, Child(v.doc, "uses-sdk"), name, FALSE), WithUsesSdk(s), SdkAttributes)
    ELSE s
WithPlatform(s) ==
    FoldLeft(LAMBDA u, name : AddTagAttribute(u, Root(u.doc), NoNs, name, prj.massage[name], TRUE), s,
             <<"platformBuildVersionCode", "platformBuildVersionName">>)
Debuggable(s) ==
    IF Child(s.doc, "application") = 0 THEN s ELSE Tag(s, Child(s.doc, "application"), "debuggable", FALSE)
RenamePackage(doc) ==
    IF prj.massage.rename = "" THEN doc
    ELSE QualifyClasses(Rewrite(doc, Root(doc), NoNs, "package", Str(prj.massage.rename)), Own)
Retarget(doc) ==
    IF prj.massage.renameTarget = "" THEN doc
    ELSE FoldSet(LAMBDA i, d : Rewrite(d, i, Android, "targetPackage", Str(prj.massage.renameTarget)),
                 doc, {i \in DOMAIN doc : doc[i].name = "instrumentation" /\ doc[i].parent = Root(doc)})
Renamed(s) == [s EXCEPT !.doc = Retarget(RenamePackage(@))]
FeatureSplit(s) ==
    LET name == TextOf(s.doc[Root(s.doc)], NoNs, "featureName")
    IN  IF name = "" THEN s
        ELSE [s EXCEPT !.doc = [s.doc EXCEPT ![Root(s.doc)] = AddAttribute(@, NoNs, "split", Str("feature_" \o name))]]

\* massageManifest; the least platform the manifest asks for is that of the build from here on.
SdkOf(raw) == [codeName |-> raw.k = "string", n |-> IF raw.k = "integer" THEN raw.n ELSE 0]
MinSdkOf(doc, uses) ==
    LET min == IF uses = 0 THEN {} ELSE Attribute(doc[uses], Android, "minSdkVersion")
    IN  IF min = {} THEN table.opt.minSdk ELSE SdkOf(doc[uses].attrs[CHOOSE j \in min : TRUE].raw)
WithMinSdk(s) == [ok |-> s.ok, doc |-> s.doc, minSdk |-> MinSdkOf(s.doc, Child(s.doc, "uses-sdk"))]
MassageManifest(doc) ==
    IF SearchElement(doc, NoNs, "manifest") = {}
    THEN [ok |-> FALSE, doc |-> doc, minSdk |-> table.opt.minSdk]
    ELSE WithMinSdk(FeatureSplit(Renamed(Debuggable(WithPlatform(WithSdk(Versioned([ok |-> TRUE, doc |-> doc])))))))

\* What -c asks for, when all of it is required.
RequiredLocales ==
    IF prj.opt.requireLocalization
    THEN {e.config.locale : e \in FilterEntries} \ {NoLocale, PseudoLocale["accented"], PseudoLocale["bidi"]}
    ELSE {}

NoFile == [type |-> "", name |-> "", base |-> "", leaf |-> "AndroidManifest.xml", config |-> DefaultConfig]
\* validateLocalizations only warns.  extractPlatformBuildVersion fails on a platform it cannot read.
Manifest ==
    /\ pc = "xml" /\ todo = NoTodo /\ table.work = << >>
    /\ \E m \in {MassageManifest(ParseXml(prj.manifest.events))} :
       \E r \in {CompileNodes([table EXCEPT !.opt.minSdk = m.minSdk], NoFile, m.doc)} :
          LET ok == ~failed /\ (prj.kind # "System" => prj.platformOk) /\ m.ok /\ r.ok
          IN  \/ ~ok /\ Abort
              \/ /\ ok
                 /\ table' = ModifyForCompat(r.t)
                 /\ out' = [out EXCEPT !.doc = m.doc, !.manifest = r.flat,
                                       !.warned = MissingLocales(out.loc, RequiredLocales)]
                 /\ pc' = "flatten"
                 /\ UNCHANGED <<prj, assets, resources, failed, todo, published, rfiles, built>>

\* generateAndroidManifestForSplit
SplitManifest(config) ==
    LET root == AddAttribute(Node("element", 1, NoNs, "manifest"), NoNs, "package",
                             Str(IF prj.massage.rename = "" THEN Own ELSE prj.massage.rename))
        versioned == IF prj.massage.versionCode.k = "none" THEN root
                     ELSE AddAttribute(root, Android, "versionCode", prj.massage.versionCode)
    IN  <<Node("namespace", 0, Android, ""),
          AddAttribute(versioned, NoNs, "split", Str("config." \o config)),
          AddAttribute(Node("element", 2, NoNs, "application"), Android, "hasCode", Str("false"))>>

-----------------------------------------------------------------------------
(* The tables of the splits, the base first. *)

InSplit(i, c) == ApkMatch(FilterEntries, Splits, i, c)
SplitName(i) == FoldSet(LAMBDA c, s : s \o DirName(c), "", Splits[i - 1])

\* A table of one APK, and for a split its manifest, compiled with the table the base left.
WithApk(acc, f, manifest, t, ok) ==
    [t |-> t, ok |-> ok,
     apks |-> Append(acc.apks, [table |-> [f EXCEPT !.t = << >>], files |-> {}, manifest |-> manifest])]
AddSplit(acc, f, m) == WithApk(acc, f, m.flat, m.t, f.t.ok /\ m.ok)
AddApk(acc, i, f) ==
    IF i = 1 THEN WithApk(acc, f, out.manifest, f.t, f.t.ok)
    ELSE AddSplit(acc, f, CompileNodes(f.t, NoFile, SplitManifest(SplitName(i))))
FlattenApk(acc, i) ==
    AddApk(acc, i, Flatten(acc.t, {c \in {k[3] : k \in DOMAIN acc.t.entries} : InSplit(i, c)}, i = 1))
NoApks == [t |-> table, ok |-> TRUE, apks |-> << >>]
FlattenAll ==
    IF ~HasResources THEN NoApks
    ELSE FoldLeft(LAMBDA acc, i : IF acc.ok THEN FlattenApk(acc, i) ELSE acc, NoApks,
                  [i \in 1..(1 + Len(prj.splits)) |-> i])
FlattenTables ==
    /\ pc = "flatten"
    /\ \E r \in {FlattenAll} :
          \/ ~r.ok /\ Abort
          \/ /\ r.ok
             /\ table' = r.t
             /\ out' = [out EXCEPT !.apks = r.apks, !.named = table,
                                   !.public = IF prj.opt.publicOutput /\ HasResources
                                              THEN <<PublicDefinitions(r.t, TRUE), PublicDefinitions(r.t, FALSE)>>
                                              ELSE @]
             /\ pc' = "validate"
             /\ UNCHANGED <<prj, assets, resources, failed, todo, published, rfiles, built>>

-----------------------------------------------------------------------------
(* The manifest is read again, as it lies on disk, and validated. *)

Ident == {"letter", "digit", "dot"}
Class == Ident \cup {"dollar"}
Process == Ident \cup {"colon"}
Component == {<<Android, "name", Class, TRUE>>, <<Android, "permission", Ident, FALSE>>,
              <<Android, "process", Process, FALSE>>}
Affine == Component \cup {<<Android, "taskAffinity", Process, FALSE>>}
\* The attributes of an element, the characters they may have, and whether they are required.
Names(chars) == {<<Android, "name", chars, TRUE>>}
AttrRules ==
    "manifest" :> {<<NoNs, "package", Ident, TRUE>>, <<Android, "sharedUserId", Ident, FALSE>>}
    @@ [x \in {"permission", "uses-permission", "action", "category"} |-> Names(Ident)]
    @@ "permission-group" :> Names(Ident \cup {"dash"})
    @@ "instrumentation" :> (Names(Class) \cup {<<Android, "targetPackage", Ident, TRUE>>})
    @@ "application" :> ({<<Android, "name", Class, FALSE>>} \cup (Affine \ Names(Class)))
    @@ "provider" :> (Component \cup {<<Android, "authorities", Ident \cup {"dash", "colon"}, TRUE>>})
    @@ [x \in {"service", "receiver", "activity"} |-> Affine]
    @@ "scheme" :> {<<Android, "mimeType", Process \cup {"dash", "slash"}, TRUE>>,
                    <<Android, "scheme", Ident \cup {"dash"}, TRUE>>}

\* validateAttr: a reference stands for the string it leads to in the table that was generated.
ValidateAttr(n, rule) ==
    LET at == Attribute(n, rule[1], rule[2])
        a == n.attrs[CHOOSE j \in at : TRUE]
        item == IF a.value[1] = "reference" THEN EntryOf(table, a.value[2]).item ELSE a.raw
        isString == IF a.value[1] = "reference" THEN item.k = "string" ELSE a.value[1] = "string"
    IN  IF at = {} THEN ~rule[4] ELSE isString /\ CharsOf(item.v) \subseteq rule[3]

\* The symbol of a permission: what follows the last dot, a Java identifier.
PermissionName(n, group) ==
    LET last == LastPart(TextOf(n, Android, "name"))
        chars == {"letter", "digit"} \cup (IF group THEN {"dash"} ELSE {})
    IN  [name |-> last, ok |-> /\ last # "" /\ CharsOf(last) \subseteq chars
                               /\ CharsOf(CharAt(last, 1)) # {"digit"}]

\* What is in a feature group, at any depth, is only asked whether it is required.
InGroup(doc) ==
    LET groups == SearchElement(doc, NoNs, "feature-group")
    IN  FoldLeft(LAMBDA inside, i : IF doc[i].parent \in groups \cup inside THEN inside \cup {i} ELSE inside,
                 {}, [i \in DOMAIN doc |-> i])
FeatureGroupsOk(doc) ==
    \A i \in InGroup(doc) : doc[i].name = "uses-feature" => TextOf(doc[i], Android, "required") # "false"

PermissionTags == {"permission", "permission-group"}
\* The elements whose attributes are looked at.
PlainElements(doc) ==
    {i \in Elements(doc) : doc[i].ns = NoNs /\ doc[i].name \in DOMAIN AttrRules} \ InGroup(doc)
PermissionNames(doc, places) ==
    [tag \in {g \in PermissionTags : \E i \in places : doc[i].name = g} |->
        {PermissionName(doc[i], tag = "permission-group") : i \in {j \in places : doc[j].name = tag}}]
\* A name that is missing ends the loop.
ValidateManifest ==
    /\ pc = "validate"
    /\ \E r \in {CompileNodes(table, NoFile, ParseXml(prj.manifest.events))} :
       \E plain \in {PlainElements(r.doc)} : \E names \in {PermissionNames(r.doc, plain)} :
          LET ok == /\ r.ok /\ FeatureGroupsOk(r.doc)
                    /\ \A i \in plain : \A rule \in AttrRules[r.doc[i].name] : ValidateAttr(r.doc[i], rule)
                    /\ \A tag \in DOMAIN names : \A p \in names[tag] : p.ok
          IN  \/ ~ok /\ Abort
              \/ /\ ok
                 /\ table' = r.t /\ pc' = "symbols"
                 /\ out' = [out EXCEPT !.permissions = [tag \in DOMAIN names |-> {p.name : p \in names[tag]}]]
                 /\ UNCHANGED <<prj, assets, resources, failed, todo, published, rfiles, built>>

-----------------------------------------------------------------------------
(* Writing: R.java and the rules for ProGuard, then an APK per split. *)

\* What one who includes the APK finds in it.
Exported(t) ==
    [k \in {<<prj.package, x[1], x[2]>> : x \in DOMAIN t.entryIndex} |->
       LET x == <<k[2], k[3]>>
           id == IdOf(t, x)
       IN  [id |-> id, public |-> x \in t.isPublic, fromL |-> FALSE,
            format |-> IF k[2] = "attr" /\ HasItem(t, id, Key("type")) THEN ItemOf(t, id, Key("type")).formats
                       ELSE {"any"},
             enums |-> IF k[2] = "attr" THEN EnumOf(t, id) ELSE << >>]]

\* Of the last build of the package whose APK is included, the R class.
PublicR == IF prj.publicR # "" /\ prj.publicR \in DOMAIN rfiles THEN <<rfiles[prj.publicR]>> ELSE << >>
KeepRules ==
    LET files(type) == {out.xml[p] : p \in {q \in DOMAIN out.xml : \E f \in ToSet(ResourceDir(resources, type)) : ResPath(f) = q}}
    IN  ManifestRules(out.doc, IF prj.massage.rename = "" THEN Own ELSE prj.massage.rename)
        \cup UNION {UNION {XmlRules(x.doc, type, type) : x \in files(type)} : type \in {"layout", "xml", "menu"}}

\* Of the R classes that were written, the one of the package.
OwnR(files) ==
    LET java == {f \in DOMAIN files : f[2] = "R" /\ f[1] \in {"", Own, prj.r.customPackage}}
    IN  IF java = {} THEN rfiles ELSE Set(rfiles, prj.package, files[CHOOSE f \in java : TRUE])
\* An error that was printed anywhere stops the build here at the latest.
WriteSymbols ==
    /\ pc = "symbols"
    /\ \E written \in {WriteAllSymbols(out.named, out.sym, out.permissions, [prj.r EXCEPT !.publicR = PublicR])} :
          LET defined == {<<s.type, s.name>> : s \in Symbols(out.named)}
              ok == ~table.errors /\ ApplyJavaSymbols(defined, out.sym.java) /\ written.ok
          IN  \/ ~ok /\ Abort
              \/ /\ ok
                 /\ rfiles' = OwnR(written.files)
                 /\ out' = [out EXCEPT !.keep = KeepRules, !.texts = written.texts]
                 /\ pc' = IF prj.opt.output THEN "apk" ELSE "done"
                 /\ UNCHANGED <<prj, assets, resources, table, failed, todo, published, built>>

\* ApkBuilder::addEntry: the first split that matches a configuration.
SplitOfConfig(c) == FirstOf({i \in 1..(1 + Len(prj.splits)) : InSplit(i, c)})
\* Mutant: icons for the launcher go with their density.
SplitOf_MipmapsToo(f) == SplitOfConfig(f.config)
\* addResourcesToBuilder: mipmaps are the base's.
SplitOf(f) == IF f.mipmap THEN 1 ELSE SplitOfConfig(f.config)

\* addResourcesToBuilder and writeAPK.
WriteApks ==
    /\ pc = "apk"
    /\ published' = Set(published, prj.package,
          [apks |-> [i \in DOMAIN out.apks |->
                       [out.apks[i] EXCEPT !.files = {f.path : f \in {g \in out.files : SplitOf(g) = i}}]],
           exported |-> Exported(table), assets |-> assets, xml |-> out.xml])
    /\ pc' = "done"
    /\ UNCHANGED <<prj, assets, resources, table, out, failed, todo, rfiles, built>>
\* The disk, or an archive that cannot be written: ApkWriter says how.
WriteApksFails == pc = "apk" /\ Abort

Next ==
    \/ \E p \in UNION ToSet(Plan) : Start(p)
    \/ Slurp \/ NewPackage \/ MakeFiles \/ ToValues \/ CompileValues \/ ToLate \/ AssignIds
    \/ CompileXml \/ WorkItem \/ Manifest \/ FlattenTables \/ ValidateManifest
    \/ WriteSymbols \/ WriteApks \/ WriteApksFails

Spec == Init /\ [][Next]_vars

-----------------------------------------------------------------------------
(* What the sources say, read without the tool. *)

ValueTags == {"string"} \cup DOMAIN PlainFormat
\* The plain values of a package: the last file that names one in a configuration decides.
Said(sources) ==
    LET files == FlattenSeq([i \in DOMAIN sources |-> ResourceDir(CollectFiles(sources[i]), "values")])
        Of1(f) == {<<<<e.tag, e.name, f.config>>, e.value>> : e \in {x \in ToSet(f.tags) : x.tag \in ValueTags /\ ~Has(x, "product")}}
        Later(said, f) == {x \in said : ~\E y \in Of1(f) : y[1] = x[1]} \cup Of1(f)
    IN  FoldLeft(Later, {}, files)

Done == pc = "done" /\ prj.opt.output
\* The entry that the platform finds in an APK under an id in a configuration.
ChunkOf(apk, id, config) == {c \in apk.table.chunks : c.id = id[2] /\ c.config = config /\ id[3] + 1 \in DOMAIN c.entries}
EntryAt(apk, id, config) == (CHOOSE c \in ChunkOf(apk, id, config) : TRUE).entries[id[3] + 1]
\* What a name is an id of now, in the APKs on disk.
IdNow(package, ref) ==
    LET pkg == IF ref[1] = Own THEN package ELSE ref[1]
    IN  IF ref \in DOMAIN prj.framework THEN prj.framework[ref].id
        ELSE IF pkg \in DOMAIN published /\ <<pkg, ref[2], ref[3]>> \in DOMAIN published[pkg].exported
        THEN published[pkg].exported[<<pkg, ref[2], ref[3]>>].id ELSE NoId

\* The constant of R for a value that a source file gives is the id under which the platform finds
\* that text in the APK of the value's split: the pool is sorted after positions in it were handed
\* out, ids are assigned after entries were added, overlays come last.
ValuesReadBack ==
    Done => LET apks == published[prj.package].apks
            IN  \A x \in Said(assets) : x[2].k = "string" =>
                \A f \in UNION ToSet(CopyJava(rfiles[prj.package], x[1][1])) :
                    LET i == SplitOfConfig(x[1][3])
                    IN  f.name = FlattenSymbol(x[1][2]) /\ f.id[1] = table.opt.packageId /\ i # 0 =>
                        /\ ChunkOf(apks[i], f.id, x[1][3]) # {}
                        /\ LET e == EntryAt(apks[i], f.id, x[1][3])
                           IN  /\ e.key = x[1][2] /\ e.value[1] = "string"
                               /\ apks[i].table.block.strings[e.value[2]] = x[2].v

\* A reference in a value, and the name of an attribute in XML, is the id of what the source names,
\* whatever the id cache was asked before.
ReferencesMean ==
    Done => LET apks == published[prj.package].apks
                IdOfName(x) == IdNow(prj.package, <<Own, x[1], x[2]>>)
            IN  /\ \A x \in Said(assets) : x[2].k = "reference" =>
                     LET i == SplitOfConfig(x[1][3])
                     IN  i # 0 => EntryAt(apks[i], IdOfName(x[1]), x[1][3]).value
                                    = <<"reference", IdNow(prj.package, <<x[2].pkg, x[2].type, x[2].name>>)>>
                /\ \A p \in DOMAIN out.xml :
                     LET doc == out.xml[p].doc
                         flat == out.xml[p].flat
                         Named(a) == GetNamespaceResourcePackage(Own, a.ns).package
                         Expected(a) == LET own == IdNow(prj.package, <<Named(a), "attr", a.name>>)
                                        IN  IF own # NoId THEN own ELSE IdNow(prj.package, <<HostPackage, "attr", a.name>>)
                     IN  UNION {{<<flat.strings[a.name], flat.ids[a.name]>> :
                                    a \in {b \in ToSet(n.attrs) : b.name \in DOMAIN flat.ids /\ flat.ids[b.name] # NoId}}
                                : n \in ToSet(flat.nodes)}
                         = UNION {{<<a.name, Expected(a)>> : a \in {b \in ToSet(n.attrs) : Named(b) # ""}} : n \in ToSet(doc)}

\* What a bundle refers to in its host is still what the host has under that id after the host was
\* built again, as long as the host declares it public.
HostLinksHold ==
    \A pkg \in DOMAIN published :
        \A x \in Said(published[pkg].assets) :
            LET ref == <<x[2].pkg, x[2].type, x[2].name>>
                id == published[pkg].exported[<<pkg, x[1][1], x[1][2]>>].id
            IN  x[2].k = "reference" /\ x[2].pkg # Own /\ x[2].pkg \in DOMAIN published =>
                \A apk \in ToSet(published[pkg].apks) :
                    ChunkOf(apk, id, x[1][3]) # {} =>
                        EntryAt(apk, id, x[1][3]).value = <<"reference", IdNow(pkg, ref)>>

\* Every APK has the files its table names and no others.
FilesOfTable(apk) ==
    LET Strings(c) == {apk.table.block.strings[c.entries[n].value[2]] :
                         n \in {m \in DOMAIN c.entries : "value" \in DOMAIN c.entries[m] /\ c.entries[m].value[1] = "string"}}
        types == {i \in DOMAIN apk.table.types : apk.table.types[i] \in ComplexTypes}
    IN  apk.files = {p \in UNION {Strings(c) : c \in {d \in apk.table.chunks : d.id \in types}} : SubSeq(p, 1, 4) = "res/"}

\* A build that ends well has an entry for every value and every file of its sources, and the file
\* in the APK of its split.
NothingLost ==
    Done => LET apks == published[prj.package].apks
                There(type, name, config, i) ==
                    LET id == IdNow(prj.package, <<Own, type, name>>)
                    IN  id # NoId /\ ChunkOf(apks[i], id, config) # {}
            IN  /\ \A apk \in ToSet(apks) : FilesOfTable(apk)
                /\ \A x \in Said(assets) : SplitOfConfig(x[1][3]) # 0 => There(x[1][1], x[1][2], x[1][3], SplitOfConfig(x[1][3]))
                /\ \A k \in DOMAIN resources : k[1] # "values" =>
                     \A c \in DOMAIN resources[k] :
                        LET f == resources[k][c]
                            i == SplitOf(Packaged(f))
                        IN  i # 0 => /\ There(f.type, f.base, c, i)
                                     /\ LET v == EntryAt(apks[i], IdNow(prj.package, <<Own, f.type, f.base>>), c).value
                                        IN  v[1] = "string" /\ apks[i].table.block.strings[v[2]] = ResPath(f)

\* With a preferred density, of the variants that differ in their density only the one is kept that
\* a device of that density would have taken: the next larger one, or the largest.
BestDensityKept ==
    LET All == SlurpFromArgs([prj.args EXCEPT !.density = << >>]).assets
        preferred == PreferredDensity(prj.args)
        Best(ds) == LET above == {d \in ds : d >= preferred}
                    IN  IF above # {} THEN CHOOSE d \in above : \A e \in above : d <= e
                        ELSE CHOOSE d \in ds : \A e \in ds : e <= d
    IN  pc = "package" /\ preferred # 0 =>
        \A i \in DOMAIN assets : \A k \in DOMAIN assets[i].groups :
            \A c \in DOMAIN All[i].groups[k] : c.density # 0 =>
                LET same == {d \in DOMAIN All[i].groups[k] : Diff(c, d) \subseteq {"density"}}
                    best == Best({d.density : d \in same})
                IN  \E d \in DOMAIN assets[i].groups[k] : d \in same /\ d.density = best

\* An app for platforms before L has no attribute of L in a style of theirs.
OldStylesClean ==
    Done /\ ~IsMinSdkVersionLOrAbove(table) =>
        \A apk \in ToSet(published[prj.package].apks) : \A c \in apk.table.chunks : c.config.sdk < SDK_L =>
            \A n \in DOMAIN c.entries : "map" \in DOMAIN c.entries[n] =>
                \A id \in DOMAIN c.entries[n].map : Internal(id) \/ ~IsAttributeFromL(table, id)

\* The same of its layouts and other XML: "delete the attribute from the original resource.  This
\* ensures that older platforms don't see the new attribute" (ResourceTable.cpp:4402).
OldXmlClean ==
    Done /\ ~IsMinSdkVersionLOrAbove(table) =>
        \A p \in DOMAIN out.xml : out.xml[p].config.sdk < SDK_L =>
            \A id \in ToSet(out.xml[p].flat.ids) : ~IsAttributeFromL(table, id)

\* "Then the output R file contains the base apk R.java and the module apk R.java" (README.md:190).
MergedHasBoth ==
    Done /\ prj.publicR # "" =>
        \A x \in DOMAIN published[prj.package].exported :
            \E f \in UNION ToSet(CopyJava(rfiles[prj.package], x[2])) :
                f.name = FlattenSymbol(x[3]) /\ f.id = published[prj.package].exported[x].id
=============================================================================
