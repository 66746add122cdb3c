-------------------------------- MODULE RJava --------------------------------
(***************************************************************************)
(* What caapt writes for the compiler: R.java and its merge with the R of  *)
(* the host (Resource.cpp, RMerge.cpp), and the rules for ProGuard.        *)
(*                                                                         *)
(* An R class is a function from the names of its inner classes to their   *)
(* bodies, a sequence of sets of fields: one that was written, two that    *)
(* were merged.  A field has an id, a position in an array, or an array.   *)
(***************************************************************************)
EXTENDS AaptAssets, ValuesFile, XMLNode

Android == <<"res", "android">>

CharAt(s, i) == SubSeq(s, i, i)
Places(s, char) == {i \in 1..Len(s) : CharAt(s, i) = char}

Field(name, id, at, array) == [name |-> name, id |-> id, at |-> at, array |-> array]

-----------------------------------------------------------------------------
(* R.java *)

\* flattenSymbol: from the first colon on, or else everywhere, a dot or a colon is an underscore.
FlattenSymbol(s) ==
    LET from == Min({Len(s) + 1} \cup Places(s, ":"))
        Char(i) == IF (from > Len(s) \/ i >= from) /\ CharAt(s, i) \in {".", ":"} THEN "_" ELSE CharAt(s, i)
    IN  FoldLeft(LAMBDA a, b : a \o b, "", [i \in 1..Len(s) |-> Char(i)])

\* writeLayoutClasses: the ids of the attributes of a styleable in their order, each once, and of
\* each attribute the place.  The attributes are looked up in the package's own table.
AttrCode(t, a) == Resolve(t, <<Own, "attr", a>>, FALSE)
LayoutFields(t, name, shown, array) ==
    LET At(a) == (CHOOSE i \in DOMAIN array : array[i] = AttrCode(t, a)) - 1
    IN  {Field(name, NoId, 0, array)}
        \cup {Field(name \o "_" \o FlattenSymbol(a), NoId, At(a), << >>) : a \in shown}
LayoutClass(t, name, attrs, includePrivate) ==
    LET codes == {AttrCode(t, a) : a \in ToSet(attrs)}
        shown == {a \in ToSet(attrs) : includePrivate \/ <<"attr", a>> \in t.isPublic}
    IN  [ok |-> NoId \notin codes,
         fields |-> LayoutFields(t, FlattenSymbol(name), shown, Ordered(codes, LAMBDA i, j : Compare(i, j)))]

\* writeSymbolClass: a class per type, and the styleables.
SymbolClass(plain, layouts) ==
    [ok |-> \A l \in layouts : l.ok,
     r |-> IF layouts = {} THEN plain ELSE plain @@ ("styleable" :> <<UNION {l.fields : l \in layouts}>>)]
WriteSymbolClass(t, sym, includePrivate) ==
    LET Shown(s) == IsJavaSymbol(sym, <<s.type, s.name>>, includePrivate)
        Fields(type) == {Field(FlattenSymbol(s.name), s.id, 0, << >>) :
                            s \in {x \in Symbols(t) : x.type = type /\ Shown(x)}}
    IN  SymbolClass([x \in DOMAIN t.order \cap ToSet(t.types) |-> <<Fields(x)>>],
                    {LayoutClass(t, s, sym.styleables[s], includePrivate) : s \in DOMAIN sym.styleables})

\* writeTextSymbolClass: R.txt has a line per field.
TextSymbols(r) == UNION {{<<c, f>> : f \in UNION ToSet(r[c])} : c \in DOMAIN r}

-----------------------------------------------------------------------------
(* merge_r_file *)

\* copy_java_with_flag: what the braces of a class enclose, or nothing.
CopyJava(r, class) == IF class \in DOMAIN r THEN r[class] ELSE << >>
\* The classes of the public R, each with its fields and behind them those the project has.
MergeRFile(public, project) == [c \in DOMAIN public |-> CopyJava(public, c) \o CopyJava(project, c)]

\* writeResourceSymbols: a file per class of symbols, "Manifest" before "R"; with an R to merge the
\* last one written takes it in.  opt.public is << >>, or has the classes of that R.
ManifestClass(permissions) == [c \in DOMAIN permissions |-> <<{Field(p, NoId, 0, << >>) : p \in permissions[c]}>>]
HasR(t, sym) == t.numLocal > 0 \/ DOMAIN sym.styleables # {} \/ sym.public # {}
SymbolFiles(hasR, r, manifest, opt, package) ==
    LET path(class) == <<IF opt.makePackageDirs THEN package ELSE "", class>>
        Merged(c) == IF opt.publicR = << >> THEN c ELSE MergeRFile(Head(opt.publicR), c)
    IN  CASE hasR -> (path("R") :> Merged(r)) @@ IF manifest = << >> THEN << >> ELSE path("Manifest") :> manifest
          [] ~hasR /\ manifest # << >> -> path("Manifest") :> Merged(manifest)
          [] OTHER -> << >>
WithSymbolClass(written, R, hasR, permissions, opt, package) ==
    [written EXCEPT !.ok = @ /\ R.ok,
                    !.files = SymbolFiles(hasR, R.r, ManifestClass(permissions), opt, package) @@ @,
                    !.texts = IF opt.textSymbols /\ hasR THEN TextSymbols(R.r) ELSE @]
WriteResourceSymbols(written, t, sym, permissions, opt, package, includePrivate) ==
    IF ~opt.rClassDir THEN written
    ELSE WithSymbolClass(written, WriteSymbolClass(t, sym, includePrivate), HasR(t, sym), permissions, opt, package)

\* doPackage: R for the package, or the name it is to have, and for the libraries; or, with private
\* symbols, one for the package and one with everything for the private package.  The first one
\* that fails ends it.
WriteAllSymbols(t, sym, permissions, opt) ==
    LET Write(w, x) == IF ~w.ok THEN w ELSE WriteResourceSymbols(w, t, sym, permissions, opt, x[1], x[2])
        first == IF opt.customPackage = "" THEN Own ELSE opt.customPackage
    IN  FoldLeft(Write, [ok |-> TRUE, files |-> << >>, texts |-> {}],
                 IF sym.privatePackage = ""
                 THEN [i \in 1..(1 + Len(opt.extraPackages)) |->
                         <<IF i = 1 THEN first ELSE opt.extraPackages[i - 1], TRUE>>]
                 ELSE <<<<Own, FALSE>>, <<sym.privatePackage, TRUE>>>>)

-----------------------------------------------------------------------------
(* ProGuard: which classes are named by the manifest and by layouts. *)

HasDot(s) == Places(s, ".") # {}
\* addProguardKeepRule, and fullyQualifyClassName: a name without a package, or that starts with a
\* dot, is one of the package.
QualifiedName(package, name) ==
    IF CharAt(name, 1) = "." THEN package \o name
    ELSE IF ~HasDot(name) THEN package \o "." \o name ELSE name

Elements(doc) == {i \in DOMAIN doc : doc[i].kind = "element"}
\* How deep an element is in its document, the root element being at one.
Depth(doc, i) ==
    LET up[n \in 0..Len(doc)] == IF n = 0 THEN 0
                                 ELSE up[doc[n].parent] + IF doc[n].kind = "element" THEN 1 ELSE 0
    IN  up[i]
TextOf(n, ns, name) ==
    LET at == Attribute(n, ns, name) IN IF at = {} THEN "" ELSE n.attrs[CHOOSE i \in at : TRUE].raw.v

Rule(what, name, file) == [what |-> what, name |-> name, file |-> file]

\* writeProguardForAndroidManifest
ManifestRules(doc, package) ==
    LET Kept(i) == LET tag == doc[i].name
                   IN  CASE Depth(doc, i) = 2 -> tag \in {"application", "instrumentation"}
                         [] Depth(doc, i) = 3 -> /\ tag \in {"activity", "service", "receiver", "provider"}
                                                 /\ doc[doc[i].parent].name = "application"
                         [] OTHER -> FALSE
        names == {TextOf(doc[i], Android, "name") : i \in {j \in Elements(doc) : Kept(j)}}
                 \cup {TextOf(doc[i], Android, "backupAgent") :
                          i \in {j \in SearchElement(doc, NoNs, "application") : Depth(doc, j) = 2}}
    IN  {Rule("class", QualifiedName(package, n), "AndroidManifest.xml") : n \in names \ {""}}

\* addTagAttrPair: the attributes that name a class in a layout and in other XML.
LayoutPairs == {<<"view", NoNs, "class">>, <<"fragment", NoNs, "class">>, <<"fragment", Android, "name">>}
XmlPairs == {<<"PreferenceScreen", Android, "fragment">>, <<"header", Android, "fragment">>}
StartTags == [layout |-> {}, xml |-> {"PreferenceScreen", "preference-headers"}, menu |-> {"menu"}]

\* writeProguardForXml: of a file with a start tag the first element itself names nothing.
XmlRules(doc, type, file) ==
    LET pairs == IF type = "layout" THEN LayoutPairs ELSE IF type = "xml" THEN XmlPairs ELSE {}
        first == CHOOSE i \in Elements(doc) : \A j \in Elements(doc) : i <= j
        read == IF StartTags[type] = {} THEN Elements(doc) ELSE Elements(doc) \ {first}
        Classes(i) ==
            IF HasDot(doc[i].name) THEN {doc[i].name}
            ELSE {TextOf(doc[i], p[2], p[3]) : p \in {q \in pairs : q[1] = doc[i].name}} \ {""}
    IN  IF Elements(doc) = {} \/ (StartTags[type] # {} /\ doc[first].name \notin StartTags[type]) THEN {}
        ELSE {Rule("class", c, file) : c \in UNION {Classes(i) : i \in read}}
             \cup {Rule("member", m, file) : m \in {TextOf(doc[i], Android, "onClick") : i \in read} \ {""}}
=============================================================================
