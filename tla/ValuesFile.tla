------------------------------ MODULE ValuesFile ------------------------------
(***************************************************************************)
(* The values files of res/values*: compileResourceFile and what it calls  *)
(* in ResourceTable.cpp.  A file is [config, translatable, wellFormed,     *)
(* tags], a tag a record of its element name, "tag", its XML attributes    *)
(* (an attribute that is missing is no field), its text, "value", and its  *)
(* children.  Reading a file takes and gives [t, sym, next, skipped, loc,  *)
(* errors, stop]: the table, the symbols, nextPublicId,                    *)
(* skippedResourceNames, mLocalizations, hasErrors, and an early return.   *)
(***************************************************************************)
EXTENDS ResourceTable

CONSTANTS
    ParentByName(_),       \* the name of a style up to its last dot, "" without a dot
    Pseudolocalize(_, _)   \* a pseudolocale and a text: the text in it

Has(e, a) == a \in DOMAIN e
Of(e, attribute, default) == IF Has(e, attribute) THEN e[attribute] ELSE default
Bad(v) == [v EXCEPT !.errors = TRUE]
Stop(v) == [v EXCEPT !.stop = TRUE]
\* The status of a call to the table joins the errors of the file.
With(v, t) == [v EXCEPT !.t = t, !.errors = @ \/ ~t.ok]

NoSymbols == [public |-> {}, java |-> {}, styleables |-> << >>, privatePackage |-> ""]

-----------------------------------------------------------------------------
(* <attr> *)

FormatNames == {"reference", "string", "integer", "boolean", "color", "float", "dimension",
                "fraction", "enum", "flags"}
\* parse_flags of a format: one name that is unknown makes it zero, and so an error.
ParseFlags(names) == IF names \subseteq FormatNames THEN names ELSE {}
AnyType == (FormatNames \ {"enum", "flags"}) \cup {"any"}

\* A PendingAttribute [t, ident, type, added, bad]: what it does unless it has an error.
Pending(a, Op(_)) == IF a.bad THEN a ELSE Op(a)
AttrError(a) == [a EXCEPT !.bad = TRUE, !.t = Fail(@)]
WithItem(a, t) == [a EXCEPT !.t = t, !.bad = @ \/ ~t.ok]
AttrItem(a, key, value, replace, isId) ==
    WithItem(a, AddBag(a.t, "attr", a.ident, NoRef, key, value, DefaultConfig, replace, isId, {"any"}))
FormatItem(a, replace) ==
    AttrItem(a, Key("type"), [k |-> "formats", formats |-> a.type], replace, FALSE)

\* PendingAttribute::createIfNeeded
CreateIfNeeded(a) ==
    IF a.added \/ a.bad THEN a
    ELSE IF HasBagOrEntry(a.t, Own, "attr", a.ident) THEN AttrError([a EXCEPT !.added = TRUE])
    ELSE FormatItem([a EXCEPT !.added = TRUE], FALSE)

\* The name, the format, and what they create; an attribute of a styleable that only names one
\* creates nothing.
StartAttribute(t, e, inStyleable) ==
    LET a == [t |-> t, ident |-> IF Has(e, "name") THEN e.name ELSE "",
              type |-> IF Has(e, "format") THEN ParseFlags(e.format) ELSE AnyType,
              added |-> FALSE, bad |-> FALSE]
        said == IF ~Has(e, "name") \/ a.type = {} THEN AttrError(a) ELSE a
    IN  IF Has(e, "format") \/ ~inStyleable THEN CreateIfNeeded(said) ELSE said

\* min, max and localization.  A maximum, accepted, counts as an error of which nobody is told.
AttributeLimit(a, e, name) ==
    LET Numeric(u) == IF Has(e[name], "n") THEN u ELSE AttrError(u)
        Limited(u) == [u EXCEPT !.bad = @ \/ name = "max"]
    IN  IF ~Has(e, name) THEN a
        ELSE Pending(CreateIfNeeded(Numeric(a)),
                     LAMBDA u : Limited(AttrItem(u, Key(name), e[name], FALSE, FALSE)))
RequireInteger(a, e, types) ==
    IF (Has(e, "min") \/ Has(e, "max")) /\ "integer" \notin types THEN AttrError(a) ELSE a
AttributeLimits(a, e) ==
    AttributeLimit(RequireInteger(AttributeLimit(AttributeLimit(a, e, "min"), e, "max"), e, a.type),
                   e, "localization")

\* An <enum> or <flag>: the first one makes the attribute an enum or a set of flags, the other
\* kind is then an error.
OfKind(a, kind) ==
    LET plain == IF a.type = AnyType THEN {} ELSE a.type
        is == plain \cap {"enum", "flags"}
    IN  IF is = {} THEN Pending([a EXCEPT !.type = plain \cup {kind}], LAMBDA b : FormatItem(b, TRUE))
        ELSE IF is # {kind} THEN AttrError(a) ELSE a
EnumOrFlag(acc, c) ==
    LET Constant(a) ==
            IF Has(c, "name") /\ Has(c, "value") /\ Has(c.value, "n")
            THEN Pending(a, LAMBDA b : AttrItem(b, <<Own, c.name>>, c.value, FALSE, TRUE))
            ELSE AttrError(a)
    IN  Constant(OfKind(CreateIfNeeded(acc), IF c.tag = "enum" THEN "enum" ELSE "flags"))

\* compileAttribute: its own errors are printed, and the caller is told of a wrong tag only.
CompileAttribute(t, e, inStyleable) ==
    LET children == Of(e, "children", << >>)
        Constants(a, c) == IF c.tag \in {"enum", "flag"} THEN EnumOrFlag(a, c) ELSE a
    IN  [t |-> FoldLeft(Constants, AttributeLimits(StartAttribute(t, e, inStyleable), e), children).t,
         ok |-> \A i \in DOMAIN children : children[i].tag \in {"enum", "flag"}]
WithAttribute(v, a) == [v EXCEPT !.t = a.t, !.errors = @ \/ ~a.ok]

DeclareStyleable(v, e) ==
    LET named == Has(e, "name")
        Name(u, c) == IF named /\ Has(c, "name")
                      THEN [u EXCEPT !.sym.styleables = [u.sym.styleables EXCEPT ![e.name] = Append(@, c.name)]] ELSE u
        Child(u, c) ==
            IF u.stop \/ c.tag \in {"skip", "eat-comment"} THEN u
            ELSE IF c.tag # "attr" THEN Stop([u EXCEPT !.t = Fail(@)])
            ELSE Name(WithAttribute(u, CompileAttribute(u.t, c, TRUE)), c)
        start == IF named
                 THEN [v EXCEPT !.sym.styleables = SetNew(@, e.name, << >>)]
                 ELSE Bad([v EXCEPT !.t = Fail(@)])
    IN  FoldLeft(Child, start, e.children)

-----------------------------------------------------------------------------
(* Declarations *)

MakePublic(v, type, name) == [v EXCEPT !.sym.public = @ \cup {<<type, name>>}]
NextId(id) == [id EXCEPT ![3] = @ + 1]

\* <public>: an id that is given, or the one after the last of its type in this file.
PublicUnlessFailed(v, type, name) == IF v.t.ok THEN MakePublic(v, type, name) ELSE v
Public(v, e) ==
    LET known == Has(e, "type") /\ e.type \in DOMAIN v.next
        id == IF Has(e, "id") THEN e.id ELSE v.next[e.type]
    IN  IF ~Has(e, "type") \/ ~Has(e, "name") \/ ~(Has(e, "id") \/ known)
        THEN Bad([v EXCEPT !.t = Fail(@)])
        ELSE PublicUnlessFailed(With([v EXCEPT !.next = Set(@, e.type, NextId(id))],
                                     AddPublic(v.t, e.type, e.name, id)), e.type, e.name)

\* <public-padding>: placeholders for ids from start to end, the last one numbered one.
PadId(v, type, name, id) ==
    IF ~v.t.ok THEN v ELSE PublicUnlessFailed(With(v, AddPublic(v.t, type, name, id)), type, name)
Pad(v, type, name, id) ==
    IF v.errors THEN v
    ELSE PadId(With(v, AddEntry(v.t, type, name, [k |-> "string", v |-> "padding"], v.config, {"string"},
                                v.overwrite, FALSE)), type, name, id)
PublicPadding(v, e) ==
    LET known == Has(e, "type") /\ e.type \in DOMAIN v.next
        start == IF Has(e, "start") THEN e.start ELSE v.next[e.type]
        ids == [i \in 1..(e.end[3] - start[3] + 1) |-> start[3] + i - 1]
        Padding(u, n) == Pad(u, e.type, e.name \o ToString(e.end[3] - n + 1), [start EXCEPT ![3] = n])
    IN  IF \/ ~Has(e, "type") \/ ~Has(e, "name") \/ ~Has(e, "end") \/ ~(Has(e, "start") \/ known)
           \/ e.end[3] < start[3]
        THEN Bad([v EXCEPT !.t = Fail(@)])
        ELSE [FoldLeft(Padding, [v EXCEPT !.errors = FALSE], ids) EXCEPT
                !.next = Set(@, e.type, NextId(e.end)), !.errors = @ \/ v.errors]

PrivateSymbols(v, e) ==
    IF Has(e, "package") THEN [v EXCEPT !.sym.privatePackage = e.package]
    ELSE Bad([v EXCEPT !.t = Fail(@)])

JavaSymbol(v, e) ==
    IF Has(e, "type") /\ Has(e, "name") THEN [v EXCEPT !.sym.java = @ \cup {<<e.type, e.name>>}]
    ELSE Bad([v EXCEPT !.t = Fail(@)])

AddResource(v, e) ==
    IF Has(e, "type") /\ Has(e, "name") THEN [v EXCEPT !.t = CanAddEntry(@, e.type, e.name)]
    ELSE Bad([v EXCEPT !.t = Fail(@)])

-----------------------------------------------------------------------------
(* Entries and bags *)

Untranslatable(e) == Of(e, "translatable", "") = "false"

\* What an element name says of its resource: type, format, and how it is made.
PlainFormat == [drawable |-> "color", color |-> "color", bool |-> "boolean",
                integer |-> "integer", dimen |-> "dimension", fraction |-> "fraction"]
Item(e) == [type |-> Of(e, "type", ""), ok |-> Has(e, "type") /\ (Has(e, "format") => ParseFlags(e.format) # {}),
            format |-> IF Has(e, "format") THEN ParseFlags(e.format) ELSE AnyType,
            styled |-> TRUE, pseudo |-> FALSE]
StringTag(v, e) == [type |-> "string", ok |-> TRUE, format |-> {"reference", "string"},
                    styled |-> TRUE, pseudo |-> v.translatable /\ ~Untranslatable(e)]
Plain(e) == [type |-> e.tag, ok |-> TRUE, format |-> {"reference", PlainFormat[e.tag]},
             styled |-> FALSE, pseudo |-> FALSE]
\* The arrays are replaced by an overlay; a string-array is never pseudolocalized.
BagTag(v, e) ==
    LET array == e.tag \in {"array", "string-array", "integer-array"}
    IN  [type |-> IF array THEN "array" ELSE IF e.tag = "bag" THEN Of(e, "type", "") ELSE e.tag,
         ok |-> /\ e.tag = "bag" => Has(e, "type")
                /\ e.tag = "array" /\ Has(e, "format") => ParseFlags(e.format) # {},
         format |-> CASE e.tag = "string-array" -> {"reference", "string"}
                      [] e.tag = "integer-array" -> {"reference", "integer"}
                      [] e.tag = "array" /\ Has(e, "format") -> ParseFlags(e.format)
                      [] OTHER -> AnyType,
         styled |-> TRUE, replace |-> array, pseudo |-> e.tag = "plurals" /\ v.translatable]

\* For what can be pseudolocalized in no locale, the pseudolocales that were asked for.
PseudoLocale == [accented |-> <<"en", "", "XA", "">>, bidi |-> <<"ar", "", "XB", "">>]
Asked(v, method) == IF method \in v.t.opt.pseudo THEN <<method>> ELSE << >>
Variants(v, pseudo) ==
    IF pseudo /\ v.config.locale = NoLocale THEN Asked(v, "accented") \o Asked(v, "bidi") ELSE << >>
ConfigOf(v, method) ==
    IF method = "no" THEN v.config ELSE [v.config EXCEPT !.locale = PseudoLocale[method]]
\* parseStyledString: the text of an element, in its variant.  The accents put a bracket in front
\* of everything, of a reference as well; without spans a text has no style.
Text(value, method) ==
    LET pseudo == [k |-> IF value.k = "styled" THEN "styled" ELSE "string",
                   v |-> Pseudolocalize(method, value.v), spans |-> Of(value, "spans", << >>)]
        text == IF method = "no" \/ (method = "bidi" /\ value.k = "reference") THEN value ELSE pseudo
    IN  IF text.k = "styled" /\ text.spans = << >> THEN [text EXCEPT !.k = "string"] ELSE text
\* Tags in a value that takes no style are an error, and so is a value that does not parse.
Parses(value, styled) == value.k # "broken" /\ (value.k = "styled" => styled)

\* parseAndAddEntry: the product decides whether there is an entry at all.
ParseAndAddEntry(v, e, c, method) ==
    LET product == Of(e, "product", "")
        products == v.t.opt.products
        config == ConfigOf(v, method)
        skip == products = {} /\ product \notin {"", "default"}
        drop == /\ products # {} /\ product \notin products \cup {""}
                /\ ~(product = "default" /\ ~HasEntryFor(v.t, c.type, e.name, config))
    IN  IF ~Parses(e.value, c.styled) THEN Bad([v EXCEPT !.t = Fail(@)])
        ELSE IF skip THEN [v EXCEPT !.skipped = @ \cup {<<c.type, e.name>>}]
        ELSE IF drop THEN v
        ELSE With(v, AddEntry(v.t, c.type, e.name, Text(e.value, method), config,
                              c.format, v.overwrite, FALSE))

\* The parent is said, or in the name.
ParentOf(e) ==
    IF Has(e, "parent") THEN e.parent
    ELSE IF ParentByName(e.name) = "" THEN NoRef ELSE <<Own, "style", ParentByName(e.name)>>

\* parseAndAddBag
ParseAndAddBag(v, e, c, key, item, method) ==
    IF ~Parses(item.value, TRUE) THEN Bad([v EXCEPT !.t = Fail(@)])
    ELSE With(v, AddBag(v.t, c.type, e.name, ParentOf(e), key, Text(item.value, method),
                        ConfigOf(v, method), v.overwrite, FALSE, c.format))

\* A string is remembered with its locale, unless it is not to be translated.
AddLocalization(v, e) ==
    IF Untranslatable(e) \/ ~Has(e, "name") THEN v
    ELSE [v EXCEPT !.loc = Set(@, e.name, Of(@, e.name, {}) \cup {v.config.locale})]

AddVariants(v, e, c, plain) ==
    IF ~plain.t.ok THEN plain
    ELSE FoldLeft(LAMBDA u, m : ParseAndAddEntry([u EXCEPT !.errors = v.errors], e, c, m),
                  plain, Variants(v, c.pseudo))
Entry(v, e, c) ==
    IF ~c.ok \/ ~Has(e, "name") THEN Bad([v EXCEPT !.t = Fail(@)])
    ELSE AddVariants(v, e, c, ParseAndAddEntry(v, e, c, "no"))

\* The key of an item: its place in an array, the quantity, or the attribute it sets.
Quantities == {"other", "zero", "one", "two", "few", "many"}
BagKey(c, item, i) ==
    CASE c.type = "array" -> Key("index_" \o ToString(i - 1))
      [] c.type = "plurals" -> IF Of(item, "quantity", "") \in Quantities
                               THEN Key(item.quantity) ELSE Key("")
      [] OTHER -> Of(item, "name", Key(""))

\* startBag, then the items, those that are pseudolocalized in each of their variants.  The
\* status of the last variant is the one that counts.
AddItemVariants(v, e, c, key, item, plain) ==
    IF ~plain.t.ok THEN plain
    ELSE FoldLeft(LAMBDA u, m : ParseAndAddBag([u EXCEPT !.errors = v.errors], e, c, key, item, m),
                  plain, Variants(v, c.pseudo))
AddItem(v, e, c, key, item) ==
    CASE v.stop -> v
      [] ~v.stop /\ item.tag # "item" -> Stop([v EXCEPT !.t = Fail(@)])
      [] ~v.stop /\ item.tag = "item" /\ key = Key("") -> Bad([v EXCEPT !.t = Fail(@)])
      [] OTHER -> AddItemVariants(v, e, c, key, item, ParseAndAddBag(v, e, c, key, item, "no"))
Bag(v, e, c) ==
    IF ~c.ok \/ ~Has(e, "name") THEN Bad([v EXCEPT !.t = Fail(@)])
    ELSE FoldLeft(LAMBDA u, i : AddItem(u, e, c, BagKey(c, e.children[i], i), e.children[i]),
                  With(v, StartBag(v.t, c.type, e.name, ParentOf(e), v.config, v.overwrite, Of(c, "replace", FALSE))),
                  [i \in DOMAIN e.children |-> i])

-----------------------------------------------------------------------------
(* compileResourceFile *)

CompileTag(v, e) ==
    CASE v.stop \/ e.tag \in {"skip", "eat-comment"} -> v
      [] e.tag = "public" -> Public(v, e)
      [] e.tag = "public-padding" -> PublicPadding(v, e)
      [] e.tag = "private-symbols" -> PrivateSymbols(v, e)
      [] e.tag = "java-symbol" -> JavaSymbol(v, e)
      [] e.tag = "add-resource" -> AddResource(v, e)
      [] e.tag = "declare-styleable" -> DeclareStyleable(v, e)
      [] e.tag = "attr" -> WithAttribute(v, CompileAttribute(v.t, e, FALSE))
      [] e.tag = "item" -> Entry(v, e, Item(e))
      [] e.tag = "string" -> Entry(AddLocalization(v, e), e, StringTag(v, e))
      [] e.tag \in DOMAIN PlainFormat -> Entry(v, e, Plain(e))
      [] e.tag \in {"bag", "style", "plurals", "array", "string-array", "integer-array"} ->
           Bag(v, e, BagTag(v, e))
      [] OTHER -> Stop([v EXCEPT !.t = Fail(@)])

\* The products that were skipped and are not there in another variant.
LostProducts(v) == {k \in v.skipped : ~HasBagOrEntry(v.t, Own, k[1], k[2])}

EndOfFile(v) == [v EXCEPT !.errors = @ \/ v.stop \/ LostProducts(v) # {}]
\* A file of a pseudolocale that is made here is left out.
CompileResourceFile(t, sym, loc, file, overwrite) ==
    LET start == [t |-> Good(t), sym |-> sym, loc |-> loc, next |-> << >>, skipped |-> {},
                  errors |-> FALSE, stop |-> ~file.wellFormed,
                  config |-> file.config, translatable |-> file.translatable,
                  overwrite |-> overwrite]
    IN  IF \E m \in t.opt.pseudo : file.config.locale = PseudoLocale[m] THEN start
        ELSE EndOfFile(FoldLeft(LAMBDA v, e : CompileTag([v EXCEPT !.t = Good(@)], e), start, file.tags))
=============================================================================
