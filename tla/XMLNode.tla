------------------------------- MODULE XMLNode -------------------------------
(***************************************************************************)
(* The XML of layouts, drawables and the manifest: XMLNode.cpp.  A         *)
(* document is the sequence of its nodes in document order, each with the  *)
(* place of its parent, 0 for the root.  A namespace is <<kind, package>>: *)
(* "res" for .../apk/res/<package>, "prv" for .../apk/prv/res/<package>,   *)
(* "auto" for res-auto, "tools", "other", and << >> for none.              *)
(***************************************************************************)
EXTENDS ResourceTable

CONSTANTS
    HostPackage,  \* "ctrip.android.view"
    DirName(_)    \* the qualifiers of a configuration as a directory name has them

NoNs == << >>
Tools == <<"tools", "">>

\* getNamespaceResourcePackage
GetNamespaceResourcePackage(app, ns) ==
    CASE ns = NoNs \/ ns[1] \in {"tools", "other"} -> [package |-> "", public |-> TRUE]
      [] ns[1] = "auto" -> [package |-> app, public |-> TRUE]
      [] OTHER -> [package |-> ns[2], public |-> ns[1] = "res"]

-----------------------------------------------------------------------------
(* Reading a document. *)

Node(kind, parent, ns, name) ==
    [kind |-> kind, parent |-> parent, ns |-> ns, name |-> name, attrs |-> << >>,
     chars |-> << >>, comment |-> << >>]

\* addAttribute: what is for the tools only is dropped.
AddAttribute(n, ns, name, raw) ==
    IF ns = Tools THEN n
    ELSE [n EXCEPT !.attrs = Append(@, [ns |-> ns, name |-> name, raw |-> raw, id |-> NoId,
                                        value |-> <<"null">>])]

Top(p) == IF p.stack = << >> THEN 0 ELSE Last(p.stack)
Push(p, n) == [p EXCEPT !.nodes = Append(@, n), !.stack = Append(@, Len(p.nodes) + 1)]

StartNamespace(p, ev) == Push(p, Node("namespace", Top(p), ev.ns, ""))
\* A comment goes to the element that follows it, or to the one it ends.
StartElement(p, ev) ==
    LET n == [Node("element", Top(p), ev.ns, ev.name) EXCEPT !.comment = p.comment]
    IN  [Push(p, FoldLeft(LAMBDA m, a : AddAttribute(m, a.ns, a.name, a.raw), n, ev.attrs))
            EXCEPT !.comment = << >>]
\* Characters join the text before them, when it is the last child of its parent.
CharacterData(p, ev) ==
    LET children == {i \in DOMAIN p.nodes : p.nodes[i].parent = Top(p)}
        last == CHOOSE i \in children : \A j \in children : j <= i
    IN  IF p.stack = << >> THEN p
        ELSE IF children # {} /\ p.nodes[last].kind = "cdata"
        THEN [p EXCEPT !.nodes[last].chars = @ \o ev.chars]
        ELSE [p EXCEPT !.nodes = Append(@, [Node("cdata", Top(p), NoNs, "") EXCEPT !.chars = ev.chars])]
CommentData(p, ev) ==
    [p EXCEPT !.comment = IF @ = << >> THEN ev.chars ELSE @ \o <<"\n">> \o ev.chars]
EndElement(p) ==
    [p EXCEPT !.stack = Front(@), !.comment = << >>,
              !.nodes = [p.nodes EXCEPT ![Last(p.stack)].comment =
                           IF p.comment = << >> THEN @ ELSE IF @ = << >> THEN p.comment
                           ELSE @ \o <<"\n">> \o p.comment]]
EndNamespace(p) == [p EXCEPT !.stack = Front(@)]

ParseXml(events) ==
    FoldLeft(LAMBDA p, ev :
                CASE ev.e = "startNamespace" -> StartNamespace(p, ev)
                  [] ev.e = "startElement" -> StartElement(p, ev)
                  [] ev.e = "characterData" -> CharacterData(p, ev)
                  [] ev.e = "comment" -> CommentData(p, ev)
                  [] ev.e = "endElement" -> EndElement(p)
                  [] ev.e = "endNamespace" -> EndNamespace(p),
             [nodes |-> << >>, stack |-> << >>, comment |-> << >>], events).nodes

SearchElement(doc, ns, name) ==
    {i \in DOMAIN doc : doc[i].kind = "element" /\ doc[i].ns = ns /\ doc[i].name = name}
GetChildElement(doc, i, ns, name) == {j \in SearchElement(doc, ns, name) : doc[j].parent = i}
Attribute(n, ns, name) == {i \in DOMAIN n.attrs : n.attrs[i].ns = ns /\ n.attrs[i].name = name}

\* The document without the other nodes: those that stay keep their parents.
Keep(doc, kept) ==
    LET New(i) == Cardinality({j \in 1..i : j \in kept})
    IN  [k \in 1..New(Len(doc)) |->
           LET i == CHOOSE j \in kept : New(j) = k
           IN  [doc[i] EXCEPT !.parent = New(@)]]

\* removeWhitespace: white text goes, or becomes one space; around other text one space stays.
White(chars) == ToSet(chars) \subseteq {" ", "\n"}
Compact(chars) ==
    LET ink == {i \in DOMAIN chars : chars[i] \notin {" ", "\n"}}
        first == CHOOSE i \in ink : \A j \in ink : i <= j
        last == CHOOSE i \in ink : \A j \in ink : j <= i
    IN  IF ink = {} THEN <<" ">>
        ELSE SubSeq(chars, IF first > 1 THEN first - 1 ELSE 1,
                    IF last < Len(chars) THEN last + 1 ELSE last)
CompactText(doc) ==
    [i \in DOMAIN doc |-> IF doc[i].kind # "cdata" THEN doc[i] ELSE [doc[i] EXCEPT !.chars = Compact(@)]]
RemoveWhitespace(doc, stripAll) ==
    CompactText(Keep(doc, {i \in DOMAIN doc : ~(stripAll /\ doc[i].kind = "cdata" /\ White(doc[i].chars))}))

-----------------------------------------------------------------------------
(* Compiling it.  [t, doc, ok]: the table, the document, and whether there was no error. *)

\* The attributes of a document in its order, each as its element and its place there.
EachAttribute(doc) ==
    FlattenSeq([i \in DOMAIN doc |-> [j \in DOMAIN doc[i].attrs |-> <<i, j>>]])

\* assignResourceIds: an attribute of a package has an id of its table or, what this tool adds,
\* of the included host of the same name.
InHost(t, a) ==
    LET host == <<GetNamespaceResourcePackage(HostPackage, a.ns).package, "attr", a.name>>
    IN  IF host \in DOMAIN t.opt.included THEN t.opt.included[host].id ELSE NoId
WithAttributeId(s, x, t, id) ==
    [s EXCEPT !.t = IF id = NoId THEN Fail(t) ELSE t, !.doc[x[1]].attrs[x[2]].id = id,
              !.ok = @ /\ id # NoId]
OwnOrHost(s, x, a, own) ==
    WithAttributeId(s, x, own.t, IF own.id # NoId THEN own.id ELSE InHost(s.t, a))
AssignAttributeId(s, x, a, p) ==
    IF p.package = "" THEN s
    ELSE OwnOrHost(s, x, a, GetResId(s.t, <<p.package, "attr", a.name>>, p.public))
AssignResourceIdsOf(s) ==
    FoldLeft(LAMBDA u, x : LET a == u.doc[x[1]].attrs[x[2]]
                           IN  AssignAttributeId(u, x, a, GetNamespaceResourcePackage(Own, a.ns)),
             s, EachAttribute(s.doc))

\* parseValues
WithValue(s, x, a, r) ==
    [s EXCEPT !.t = r.t, !.ok = @ /\ r.t.ok,
              !.doc[x[1]].attrs[x[2]].value = IF r.value[1] = "string" THEN <<"string", a.raw.v>> ELSE r.value]
ParseValue(s, x, a) ==
    WithValue(s, x, a, StringToValue(s.t, EmptyPool, a.raw, a.id, {"any"}, NoType, DefaultConfig))
ParseValues(s) ==
    FoldLeft(LAMBDA u, x : ParseValue(u, x, u.doc[x[1]].attrs[x[2]]), s, EachAttribute(s.doc))

\* removeAttribute, by the place it has now.
RemoveAttribute(n, j) ==
    IF j > Len(n.attrs) THEN n ELSE [n EXCEPT !.attrs = RemoveAt(@, j)]

\* modifyForCompat of a file: without an entry for L the file is to be compiled for one later on;
\* then the attributes are removed at the places where they were found.
PathOf(file) == "res/" \o file.type \o DirName(file.config) \o "/" \o file.name \o ".xml"
FoundLAttributes(t, doc, i) ==
    SelectSeq([j \in DOMAIN doc[i].attrs |-> j],
              LAMBDA j : IsAttributeFromL(t, doc[i].attrs[j].id))
PutOff(t, file) ==
    IF <<file.type, file.name, file.config>> \in DOMAIN t.entries THEN t
    ELSE [Good(AddEntry(t, file.type, file.name, [k |-> "string", v |-> PathOf(file)], file.config,
                        {"any"}, FALSE, FALSE)) EXCEPT !.work = Append(@, file)]
WithoutFound(s, file, found) ==
    IF \A i \in DOMAIN found : found[i] = << >> THEN s
    ELSE [s EXCEPT !.t = PutOff(s.t, [file EXCEPT !.config = AtL(@)]),
                   !.doc = [i \in DOMAIN @ |-> FoldLeft(RemoveAttribute, @[i], found[i])]]
ModifyFileForCompat(s, file) ==
    IF IsMinSdkVersionLOrAbove(s.t) \/ file.type = "" \/ file.config.sdk >= SDK_L THEN s
    ELSE WithoutFound(s, file, [i \in DOMAIN s.doc |-> FoundLAttributes(s.t, s.doc, i)])

-----------------------------------------------------------------------------
(* flatten: the strings first, those of attribute names with an id before all the others, so that *)
(* the list of ids has no holes. *)

Chars(seq) == FoldLeft(LAMBDA a, b : a \o b, "", seq)
OffsetsForString(pool, value) == {i \in DOMAIN pool.array : StringAt(pool, i) = value}

\* collect_attr_strings of one attribute; acc: [pool, ids, at], the place of each name so far.
NewAttrString(acc, key, a, added) ==
    [pool |-> added.pool, at |-> Set(acc.at, key, added.at),
     ids |-> IF a.id = NoId THEN acc.ids
             ELSE [i \in 1..added.at |-> IF i = added.at THEN a.id
                                         ELSE IF i <= Len(acc.ids) THEN acc.ids[i] ELSE NoId]]
CollectAttrString(acc, key, a) ==
    LET known == {i \in OffsetsForString(acc.pool, a.name) :
                    IF i > Len(acc.ids) THEN a.id = NoId ELSE acc.ids[i] = a.id}
    IN  IF known # {} THEN [acc EXCEPT !.at = Set(@, key, Min(known))]
        ELSE NewAttrString(acc, key, a, Add(acc.pool, a.name, FALSE, NoType, {}))
CollectAttrStrings(acc, i, n, all) ==
    FoldLeft(LAMBDA u, j : IF all \/ n.attrs[j].id # NoId
                           THEN CollectAttrString(u, <<i, j>>, n.attrs[j]) ELSE u,
             acc, [j \in DOMAIN n.attrs |-> j])

NeedStringValue(a) == a.value[1] \in {"null", "string"}
CollectStrings(acc, i, n, stripComments, stripRaw) ==
    LET texts ==
            (IF n.ns \in {NoNs, Tools} THEN << >> ELSE <<Chars(n.ns)>>)
            \o (IF n.kind = "element" THEN <<n.name>> ELSE << >>)
            \o (IF stripComments \/ n.comment = << >> THEN << >> ELSE <<Chars(n.comment)>>)
            \o FlattenSeq([j \in DOMAIN n.attrs |->
                 (IF n.attrs[j].ns = NoNs THEN << >> ELSE <<Chars(n.attrs[j].ns)>>)
                 \o IF ~stripRaw \/ NeedStringValue(n.attrs[j]) THEN <<n.attrs[j].raw.v>> ELSE << >>])
            \o (IF n.kind = "cdata" THEN <<Chars(n.chars)>> ELSE << >>)
    IN  FoldLeft(LAMBDA u, s : [u EXCEPT !.pool = Add(@, s, TRUE, NoType, {}).pool],
                 CollectAttrStrings(acc, i, n, TRUE), texts)

\* The order of the attributes of an element: those with an id by their ids, the others behind.
AttributeOrder(n) ==
    LET Before(i, j) == LET a == n.attrs[i].id
                            b == n.attrs[j].id
                        IN  IF a = b THEN i < j
                            ELSE IF a = NoId THEN FALSE ELSE b = NoId \/ Compare(a, b)
    IN  Ordered(DOMAIN n.attrs, Before)
\* Two attributes of one id: the program ends.
AttributesMessedUp(doc) ==
    \E i \in DOMAIN doc : \E j, k \in DOMAIN doc[i].attrs :
        j # k /\ doc[i].attrs[j].id # NoId /\ doc[i].attrs[j].id = doc[i].attrs[k].id

FlattenNode(acc, i, n, stripRaw) ==
    LET order == AttributeOrder(n)
        P(s) == OffsetForString(acc.pool, s)
        Uri(ns) == IF ns = NoNs THEN 0 ELSE P(Chars(ns))
    IN  [kind |-> n.kind, parent |-> n.parent, ns |-> Uri(n.ns), name |-> P(n.name),
         chars |-> IF n.kind = "cdata" THEN P(Chars(n.chars)) ELSE 0,
         attrs |-> [k \in DOMAIN order |->
             LET a == n.attrs[order[k]]
             IN  [ns |-> Uri(a.ns), name |-> acc.at[<<i, order[k]>>],
                  raw |-> IF ~stripRaw \/ NeedStringValue(a) THEN P(a.raw.v) ELSE 0,
                  value |-> IF NeedStringValue(a) THEN <<"string", P(a.raw.v)>> ELSE a.value]]]
\* Tools namespaces are not written.
WriteXml(doc, acc, stripRaw) ==
    LET written == SelectSeq([i \in DOMAIN doc |-> i],
                             LAMBDA i : ~(doc[i].kind = "namespace" /\ doc[i].ns = Tools))
    IN  [strings |-> Block(acc.pool).strings, ids |-> acc.ids,
         nodes |-> [k \in DOMAIN written |-> FlattenNode(acc, written[k], doc[written[k]], stripRaw)]]
FlattenXml(doc, stripComments, stripRaw) ==
    LET nodes == [i \in DOMAIN doc |-> i]
        withIds == FoldLeft(LAMBDA u, i : CollectAttrStrings(u, i, doc[i], FALSE),
                            [pool |-> EmptyPool, ids |-> << >>, at |-> << >>], nodes)
    IN  WriteXml(doc, FoldLeft(LAMBDA u, i : CollectStrings(u, i, doc[i], stripComments, stripRaw),
                               withIds, nodes), stripRaw)

\* compileXmlFile with XML_COMPILE_STANDARD_RESOURCE; nothing is written after an error.
NotWritten(t, doc) == [t |-> Fail(t), ok |-> FALSE, doc |-> doc, flat |-> << >>]
WriteNodes(s) ==
    [t |-> s.t, ok |-> ~AttributesMessedUp(s.doc), doc |-> s.doc, flat |-> FlattenXml(s.doc, TRUE, TRUE)]
WriteParsed(s, file) ==
    IF s.ok THEN WriteNodes(ModifyFileForCompat(s, file)) ELSE NotWritten(s.t, s.doc)
CompileNodes(t, file, doc) ==
    WriteParsed(ParseValues(AssignResourceIdsOf(
        [t |-> Good(t), ok |-> TRUE, doc |-> RemoveWhitespace(doc, TRUE)])), file)
CompileXmlFile(t, file) ==
    IF file.wellFormed THEN CompileNodes(t, file, ParseXml(file.events)) ELSE NotWritten(t, << >>)
=============================================================================
