---------------------------- MODULE MCResourceBuild ----------------------------
(***************************************************************************)
(* Small projects for ResourceBuild: a host, the same host after it was    *)
(* changed, a bundle that links against it, and one variant per thing that *)
(* a build does differently or fails at.                                   *)
(***************************************************************************)
EXTENDS ResourceBuild

C(parts) == Parse(parts).config
W(word) == <<word, 0, 0>>
En == [DefaultConfig EXCEPT !.locale = <<"en", "", "", "">>]
Fr == [DefaultConfig EXCEPT !.locale = <<"fr", "", "", "">>]
Hdpi == C(<<W("hdpi")>>)
Xhdpi == C(<<W("xhdpi")>>)
Xxhdpi == C(<<W("xxhdpi")>>)
V17 == C(<<<<"v", 17, 0>>>>)
V21 == C(<<<<"v", 21, 0>>>>)
Fr17 == C(<<W("fr"), <<"v", 17, 0>>>>)
XB == [DefaultConfig EXCEPT !.locale = PseudoLocale["bidi"]]
XA == [DefaultConfig EXCEPT !.locale = PseudoLocale["accented"]]

MCTypeNameOrder == <<"1complex", "2value">>
MCConfigOrder == <<DefaultConfig, V17, V21, Hdpi, Xhdpi, Xxhdpi,
                   [Hdpi EXCEPT !.sdk = 21], XB, En, XA, Fr, Fr17>>
MCLeafOrder == <<"a.png", "a.xml", "b.xml", "bad-name.png", "icon.png", "icon.xml", "main.xml", "strings.xml", "styles.xml">>
MCHashOf(key) == key[3]
MCParentByName(name) == IF name = "Theme.Dark" THEN "Theme" ELSE ""
MCPseudolocalize(method, v) == "[" \o v \o "]"
MCDirName(c) ==
    (IF c.locale = NoLocale THEN "" ELSE "-" \o c.locale[1] \o c.locale[3])
    \o (IF c.density = 0 THEN "" ELSE "-" \o ToString(c.density) \o "dpi")
    \o (IF c.sdk \in {0, 4} THEN "" ELSE "-v" \o ToString(c.sdk))
MCCaseFold(name) == IF name = "Icon.png" THEN "icon.png" ELSE name
MCValidName(name) == TRUE
MCCharsOf(s) ==
    {CASE CharAt(s, i) = "." -> "dot" [] CharAt(s, i) = "-" -> "dash" [] CharAt(s, i) = "$" -> "dollar"
       [] CharAt(s, i) = ":" -> "colon" [] CharAt(s, i) = "/" -> "slash"
       [] CharAt(s, i) \in {"0", "1", "2"} -> "digit" [] OTHER -> "letter" : i \in 1..Len(s)}
MCLastPart(s) == IF Places(s, ".") = {} THEN ""
                 ELSE SubSeq(s, 1 + CHOOSE i \in Places(s, ".") : \A j \in Places(s, ".") : j <= i, Len(s))

-----------------------------------------------------------------------------
(* Files *)

Text1(v) == [k |-> "string", v |-> v]
None == [k |-> "none", v |-> ""]
Number(n) == [k |-> "integer", v |-> ToString(n), n |-> n]
Ref(pkg, type, name) == [k |-> "reference", v |-> "@" \o type \o "/" \o name, pkg |-> pkg, type |-> type,
                         name |-> name, create |-> FALSE]
NewId(name) == [Ref(Own, "id", name) EXCEPT !.create = TRUE]

File(leaf, base, ext) ==
    [leaf |-> leaf, base |-> base, ext |-> ext, wellFormed |-> TRUE, translatable |-> TRUE,
     tags |-> << >>, events |-> << >>, imageOk |-> TRUE]
Png(base) == File(base \o ".png", base, "png")
ValuesXml(leaf, tags) == [File(leaf, "", "xml") EXCEPT !.tags = tags]
Xml(base, events) == [File(base \o ".xml", base, "xml") EXCEPT !.events = events]
Dir(type, parts, files) ==
    [name |-> type, kind |-> "dir", type |-> type, parts |-> parts, files |-> files]

StringOf(name, value) == [tag |-> "string", name |-> name, value |-> value]
PublicOf(type, name, id) == [tag |-> "public", type |-> type, name |-> name, id |-> id]
A(ns, name, raw) == [ns |-> ns, name |-> name, raw |-> raw]
Start1(name, attrs) == [e |-> "startElement", ns |-> NoNs, name |-> name, attrs |-> attrs]
EndE == [e |-> "endElement"]
Doc(body) == <<[e |-> "startNamespace", ns |-> Android]>> \o body \o <<[e |-> "endNamespace"]>>
Auto == <<"auto", "">>
Dimen(v) == [k |-> "dimension", v |-> v]

-----------------------------------------------------------------------------
(* The framework and the command lines *)

Platform(n, type, name, formats, fromL) ==
    <<"android", type, name>> :> [id |-> <<1, IF type = "attr" THEN 1 ELSE 2, n>>, public |-> TRUE,
                                  format |-> formats, fromL |-> fromL, enums |-> << >>]
MCFramework ==
    Platform(1, "attr", "textSize", {"dimension"}, FALSE)
    @@ Platform(2, "attr", "name", {"any"}, FALSE)
    @@ Platform(3, "attr", "minSdkVersion", {"any"}, FALSE)
    @@ Platform(4, "attr", "targetSdkVersion", {"any"}, FALSE)
    @@ Platform(5, "attr", "versionCode", {"any"}, FALSE)
    @@ Platform(6, "attr", "hasCode", {"any"}, FALSE)
    @@ Platform(7, "attr", "required", {"any"}, FALSE)
    @@ Platform(8, "attr", "debuggable", {"any"}, FALSE)
    @@ Platform(9, "attr", "targetPackage", {"any"}, FALSE)
    @@ Platform(10, "attr", "onClick", {"string"}, FALSE)
    @@ Platform(101, "attr", "elevation", {"dimension"}, TRUE)
    @@ Platform(102, "attr", "translationZ", {"dimension"}, TRUE)

Options ==
    [autoAddOverlay |-> FALSE, packageId |-> 127, typeIdOffset |-> 0, products |-> {}, pseudo |-> {},
     minSdk |-> [codeName |-> FALSE, n |-> 15], output |-> TRUE, splits |-> FALSE, errorOnMissing |-> TRUE,
     requireLocalization |-> FALSE, publicOutput |-> FALSE,
     libraries |-> {}, included |-> << >>]
Args(trees) == [assets |-> << >>, res |-> trees, raw |-> << >>, ignore |-> {}, env |-> {},
                maxResVersion |-> 0, filter |-> << >>, density |-> << >>]
Massage == [versionCode |-> None, versionName |-> None, minSdkVersion |-> None, targetSdkVersion |-> None,
            maxSdkVersion |-> None, platformBuildVersionCode |-> None, platformBuildVersionName |-> None,
            debuggable |-> None, replaceVersion |-> FALSE, errorOnFailedInsert |-> FALSE,
            rename |-> "", renameTarget |-> ""]
ManifestOf(children) ==
    [wellFormed |-> TRUE,
     events |-> Doc(<<Start1("manifest", <<A(NoNs, "package", Text1(Own))>>)>> \o children \o <<EndE>>)]
App == <<Start1("application", <<>>), Start1("activity", <<A(Android, "name", Text1("Main"))>>), EndE, EndE>>

Project(package, trees) ==
    [package |-> package, args |-> Args(trees), splits |-> << >>, kind |-> "App",
     apkModule |-> [kind |-> "none", n |-> 0], opt |-> Options, framework |-> MCFramework,
     includes |-> {}, publicR |-> "", manifest |-> ManifestOf(App), platformOk |-> TRUE, massage |-> Massage,
     r |-> [rClassDir |-> TRUE, makePackageDirs |-> FALSE, customPackage |-> "", extraPackages |-> << >>,
            publicR |-> << >>, textSymbols |-> FALSE]]

-----------------------------------------------------------------------------
(* The host *)

HostStrings(more) ==
    ValuesXml("strings.xml",
        <<PublicOf("string", "title", <<127, 3, 1>>)>> \o more \o
        <<StringOf("app", Text1("App")), StringOf("title", Text1("Title")),
          StringOf("again", Ref(Own, "string", "title"))>>)
HostStyles ==
    ValuesXml("styles.xml",
        <<[tag |-> "attr", name |-> "mode", children |->
             <<[tag |-> "enum", name |-> "on", value |-> Number(1)]>>],
          [tag |-> "attr", name |-> "textSize", format |-> {"dimension"}],
          [tag |-> "style", name |-> "Theme", children |->
             <<[tag |-> "item", name |-> <<"android", "elevation">>, value |-> Dimen("2dp")],
               [tag |-> "item", name |-> <<Own, "mode">>, value |-> Text1("on")]>>],
          [tag |-> "style", name |-> "Theme.Dark", children |->
             <<[tag |-> "item", name |-> <<"android", "textSize">>, value |-> Dimen("3dp")]>>],
          [tag |-> "declare-styleable", name |-> "View", children |-> <<[tag |-> "attr", name |-> "mode"]>>]>>)
Layout(attrs) ==
    Xml("main", Doc(<<Start1("View", <<A(NoNs, "id", NewId("top")), A(Android, "textSize", Dimen("4dp"))>> \o attrs),
                     Start1("Text", <<A(Auto, "textSize", Dimen("5dp"))>>), EndE, EndE>>))
HostTree(more, attrs) ==
    <<Dir("values", << >>, <<HostStyles, HostStrings(more)>>),
      Dir("values", <<W("fr")>>, <<ValuesXml("strings.xml", <<StringOf("title", Text1("Titre"))>>)>>),
      Dir("drawable", <<W("hdpi")>>, <<Png("icon")>>),
      Dir("drawable", <<W("xhdpi")>>, <<Png("icon")>>),
      Dir("layout", << >>, <<Layout(attrs)>>)>>

Elevated == <<A(Android, "elevation", Dimen("1dp"))>>
Host1 == Project("host", <<HostTree(<< >>, << >>)>>)
\* Later there are more strings in front, and an attribute of L.
Host2 == Project("host", <<HostTree(<<StringOf("new", Text1("New")), StringOf("more", Text1("App"))>>, Elevated)>>)

\* The bundle has resources of a type of its own, and shows a string of the host.
BundleTree ==
    <<Dir("values", << >>,
          <<ValuesXml("strings.xml", <<StringOf("go", Ref("host", "string", "title")),
                                       StringOf("app", Text1("Bundle"))>>)>>),
      Dir("layout", << >>, <<Layout(<<A(Auto, "mode", Text1("on"))>>)>>),
      Dir("anim", << >>, <<Xml("a", Doc(<<Start1("set", << >>), EndE>>))>>)>>
Bundle == [Project("bundle", <<BundleTree>>) EXCEPT
             !.apkModule = [kind |-> "hex", n |-> 49], !.includes = {"host"}, !.publicR = "host",
             !.r.customPackage = ""]

-----------------------------------------------------------------------------
(* Variants of the host.  Overlay: a second directory replaces a string, an image and a layout, *)
(* and adds a string it declares. *)

OverlayTree ==
    <<Dir("values", << >>, <<ValuesXml("strings.xml",
          <<[tag |-> "add-resource", type |-> "string", name |-> "extra"],
            StringOf("app", Text1("Overlaid")), StringOf("extra", Ref(Own, "string", "app"))>>)>>),
      Dir("drawable", <<W("xhdpi")>>, <<Png("icon")>>),
      Dir("layout", << >>, <<Layout(<<A(Auto, "mode", Text1("on"))>>)>>)>>
Overlaid == [Host1 EXCEPT !.args = Args(<<Host1.args.res[1], OverlayTree>>)]
Undeclared == [Host1 EXCEPT !.package = "demo",
    !.args = Args(<<Host1.args.res[1], <<Dir("values", << >>, <<ValuesXml("strings.xml", <<StringOf("extra", Text1("E"))>>)>>)>>>>)]

\* A split per density, with icons for the launcher in it; French only, and pseudolocales; hidden
\* files, raw files, and a directory for a later platform than is wanted.
Launcher == Dir("mipmap", <<W("hdpi")>>, <<Png("icon")>>)
\* The theme has a variant for L already.
ForL == Dir("values", <<<<"v", 21, 0>>>>, <<ValuesXml("styles.xml",
            <<[tag |-> "style", name |-> "Theme", children |->
                 <<[tag |-> "item", name |-> <<"android", "elevation">>, value |-> Dimen("9dp")]>>]>>)>>)
SplitHost == [Project("host", <<Host1.args.res[1] \o <<Launcher, ForL>>>>) EXCEPT
    !.splits = <<<<<<W("hdpi")>>>>, <<<<W("xhdpi")>>>>>>, !.opt.splits = TRUE,
    !.massage.versionCode = Number(7), !.massage.rename = "renamed"]
FrenchHost == [Host1 EXCEPT !.opt.requireLocalization = TRUE, !.opt.publicOutput = TRUE, !.r.textSymbols = TRUE,
    !.args.filter = <<[tags |-> <<"fr">>, parts |-> <<W("fr")>>]>>]
PseudoHost == [Host2 EXCEPT !.opt.pseudo = {"accented"}, !.args.maxResVersion = 20,
    !.args.res = <<Append(Host2.args.res[1], Dir("layout", <<<<"v", 21, 0>>>>, <<Layout(<< >>)>>))>>,
    !.args.assets = <<<< <<<<".svn", "x">>, "file">>, <<<<"sound.mp3">>, "file">> >>>>]

\* A device with a density that no image is made for, and one that an image is made for.
DensityTree(base) ==
    <<Dir("values", << >>, <<ValuesXml("strings.xml", <<StringOf("app", Text1("App"))>>)>>),
      Dir("drawable", <<W("hdpi")>>, <<Png("icon"), Png("a")>>),
      Dir("drawable", <<W("xhdpi")>>, <<Png("icon")>>),
      Dir("drawable", <<W("xxhdpi")>>, <<Png("icon"), Png("a")>>)>>
Dense(density) == [Project("demo", <<DensityTree("icon")>>) EXCEPT !.args.density = density]

\* The manifest: what the command line puts into it, permissions, a feature.
Element(name, attrs, children) == <<Start1(name, attrs)>> \o children \o <<EndE>>
Called(name) == <<A(Android, "name", Text1(name))>>
Permissions ==
    Element("permission", Called("own.READ"), << >>) \o Element("permission-group", Called("own.G"), << >>)
Massaged == [Host2 EXCEPT !.manifest = ManifestOf(Permissions \o App),
    !.massage.minSdkVersion = Number(21), !.massage.targetSdkVersion = Number(21), !.massage.debuggable = Text1("true"),
    !.massage.rename = "other", !.massage.renameTarget = "target"]
NoJava == [Host1 EXCEPT !.package = "demo", !.r.rClassDir = FALSE, !.opt.output = FALSE]
Empty == Project("demo", << >>)
Private == [Project("demo", <<<<Dir("values", << >>, <<ValuesXml("strings.xml",
                <<[tag |-> "private-symbols", package |-> "own.private"],
                  [tag |-> "java-symbol", type |-> "string", name |-> "app"],
                  StringOf("app", Text1("App")), StringOf("secret", Text1("S"))>>)>>)>>>>) EXCEPT
              !.r.makePackageDirs = TRUE]

\* Every element a values file can have, a document with text and comments in it, and a menu.
ItemOf1(value) == [tag |-> "item", value |-> value]
RichValues ==
    ValuesXml("strings.xml",
        <<[tag |-> "public-padding", type |-> "string", name |-> "pad", start |-> <<127, 6, 0>>, end |-> <<127, 6, 1>>],
          [tag |-> "attr", name |-> "size", format |-> {"integer"}, min |-> Number(1)],
          [tag |-> "attr", name |-> "flavour", children |->
             <<[tag |-> "flag", name |-> "sweet", value |-> Number(1)], [tag |-> "flag", name |-> "sour", value |-> Number(2)]>>],
          [tag |-> "string", name |-> "rich", value |-> [k |-> "styled", v |-> "bold",
             spans |-> <<[name |-> "b", first |-> 0, last |-> 3]>>]],
          StringOf("app", Text1("App")),
          [tag |-> "string", name |-> "device", product |-> "tablet", value |-> Text1("Tablet")],
          [tag |-> "string", name |-> "device", product |-> "default", value |-> Text1("Device")],
          [tag |-> "color", name |-> "red", value |-> [k |-> "color", v |-> "#f00"]],
          [tag |-> "item", type |-> "dimen", name |-> "gap", format |-> {"dimension"}, value |-> Dimen("1dp")],
          [tag |-> "string-array", name |-> "words", children |-> <<ItemOf1(Text1("one")), ItemOf1(Text1("App"))>>],
          [tag |-> "plurals", name |-> "files", children |->
             <<[tag |-> "item", quantity |-> "one", value |-> Text1("file")],
               [tag |-> "item", quantity |-> "other", value |-> Text1("files")]>>],
          [tag |-> "style", name |-> "Box", children |->
             <<[tag |-> "item", name |-> <<Own, "size">>, value |-> Number(4)],
               [tag |-> "item", name |-> <<Own, "flavour">>,
                value |-> [k |-> "flags", v |-> "sweet|sour", names |-> {"sweet", "sour"}]]>>],
          [tag |-> "declare-styleable", name |-> "Box", children |->
             <<[tag |-> "attr", name |-> "size"], [tag |-> "attr", name |-> "late", format |-> {"boolean"}],
               [tag |-> "attr", name |-> "flavour"]>>]>>)
RichLayout ==
    Xml("main", Doc(<<[e |-> "comment", chars |-> <<"c">>], Start1("own.Box", <<A(Auto, "size", Number(3)), A(Tools, "x", Text1("y"))>>),
                      [e |-> "characterData", chars |-> <<" ", "a">>], [e |-> "characterData", chars |-> <<"b", " ", " ">>],
                      Start1("fragment", <<A(NoNs, "class", Text1("Part"))>>), EndE, EndE>>))
Rich == [Project("demo", <<<<Dir("values", << >>, <<RichValues>>),
            Dir("values", <<W("fr"), <<"v", 17, 0>>>>, <<ValuesXml("strings.xml", <<StringOf("app", Text1("Appli"))>>)>>),
            Dir("layout", << >>, <<RichLayout>>),
            Dir("menu", << >>, <<Xml("a", Doc(<<Start1("menu", << >>), Start1("item", <<A(Android, "onClick", Text1("go"))>>), EndE, EndE>>))>>),
            [Dir("values", << >>, << >>) EXCEPT !.name = ".git", !.type = "none"]>>>>) EXCEPT
          !.opt.pseudo = {"accented", "bidi"}]

-----------------------------------------------------------------------------
(* Builds that fail, each for a reason of its own. *)

Demo(tree) == Project("demo", <<tree>>)
Strings(tags) == Dir("values", << >>, <<ValuesXml("strings.xml", tags)>>)
Broken ==
    {Demo(<<[Dir("nonsense", << >>, << >>) EXCEPT !.parts = <<>>]>>),
     [Demo(<<Strings(<< >>)>>) EXCEPT !.manifest = [wellFormed |-> FALSE, events |-> << >>]],
     Demo(<<Dir("drawable", << >>, <<[Png("icon") EXCEPT !.imageOk = FALSE]>>)>>),
     Demo(<<Dir("drawable", << >>, <<Png("bad-name")>>)>>),
     Demo(<<Dir("drawable", << >>, <<Png("a"), Xml("a", Doc(<<Start1("shape", << >>), EndE>>))>>)>>),
     Demo(<<Strings(<<PublicOf("string", "gone", <<127, 2, 0>>), StringOf("app", Text1("A"))>>)>>),
     Demo(<<Dir("layout", << >>, <<[Layout(<< >>) EXCEPT !.wellFormed = FALSE]>>)>>),
     [Demo(<<Strings(<<StringOf("app", Text1("A"))>>)>>) EXCEPT !.platformOk = FALSE],
     Demo(<<Strings(<<StringOf("app", Ref(Own, "string", "gone"))>>)>>),
     [Demo(<<Strings(<<StringOf("app", Text1("A"))>>)>>) EXCEPT
        !.manifest = ManifestOf(Element("permission", Called("own.1-READ"), << >>))],
     Demo(<<Strings(<<[tag |-> "java-symbol", type |-> "string", name |-> "gone"], StringOf("app", Text1("A"))>>)>>)}

Variants1 == {Overlaid, Undeclared, SplitHost, FrenchHost, PseudoHost, Dense(W("mdpi")), Dense(W("xhdpi")),
              Massaged, NoJava, Empty, Private, Rich}
\* The lengths in a string block are read back as they were.
ASSUME LengthsReadBack ==
    \A bits \in {8, 16} : \A n \in {0, 1, 127, 128, 255, 256, 32767} : DecodeLength(EncodeLength(n, bits), bits) = n

MCPlan == <<{Host1} \cup Variants1 \cup Broken, {Bundle, Host2}, {Host2, Bundle}>>

\* Two attributes of L next to each other, and an app for older platforms too.
Adjacent == Project("demo", <<HostTree(<< >>, Elevated \o <<A(Android, "translationZ", Dimen("1dp"))>>)>>)
CompatPlan == <<{Adjacent}>>
\* The bundle has a type of resources the host has not.
MergePlan == <<{Host1}, {Bundle}>>
=============================================================================
