----------------------------- MODULE ResourceTable -----------------------------
(***************************************************************************)
(* The resource table of caapt: ResourceTable.cpp and ResourceIdCache.cpp. *)
(* A table is a record; an operation takes one and returns the next one,   *)
(* whose field ok is the status the method returns and whose field errors  *)
(* says whether an error was ever printed (SourcePos::hasErrors).          *)
(* A resource is named <<package, type, name>>, an id is <<package id,     *)
(* type index, entry index>>, type indices counting from one.              *)
(***************************************************************************)
EXTENDS AaptConfig, StringPool

CONSTANTS
    Own,           \* the package being built
    HashOf(_),     \* the hash code of a cached name
    MaxCacheEntries

NoId == <<0, 0, 0>>
NoRef == <<"", "", "">>
Internal(id) == Len(id) = 2  \* the id of a key that is no attribute: "^type", "^index_0"
Hole == "<empty>"  \* a NULL in mOrderedTypes or mOrderedConfigs
SDK_L == 21

\* The constructor: the attributes are the first type.  opt: what the command line and the
\* included packages say.
NewTable(opt) ==
    [types |-> <<"attr">>, order |-> [x \in {"attr"} |-> << >>], index |-> [x \in {"attr"} |-> 1],
     entryIndex |-> << >>, entries |-> << >>,
     pub |-> << >>, pubType |-> << >>, isPublic |-> {}, canAdd |-> {}, numLocal |-> 0,
     cache |-> << >>, work |-> << >>, opt |-> opt, ok |-> TRUE, errors |-> FALSE]

\* packageId: of the kind of package, or what --apk-module says, taken as it reads: a string
\* that does not start with a digit is -1, other characters later on make zero.
ApkStringToInt(s) ==
    CASE s.kind = "hex" -> s.n [] s.kind = "decimal" -> s.n
      [] s.kind = "nonDigitFirst" \/ s.kind = "badHex" -> -1
      [] s.kind = "badDecimal" -> 0
KindId == [App |-> 127, AppFeature |-> 127, System |-> 1, SharedLibrary |-> 0]
PackageId(kind, apkModule) ==
    IF apkModule.kind = "none" THEN KindId[kind] ELSE ApkStringToInt(apkModule)

Good(t) == [t EXCEPT !.ok = TRUE]
Fail(t) == [t EXCEPT !.ok = FALSE, !.errors = TRUE]
\* What comes next unless it failed.
Then(t, Op(_)) == IF t.ok THEN Op(t) ELSE t

Included(t, pkg, type, name) == <<pkg, type, name>> \in DOMAIN t.opt.included
HasList(t, type, name) == type \in DOMAIN t.order /\ name \in ToSet(t.order[type])
Configs(t, type, name) == {k[3] : k \in {e \in DOMAIN t.entries : e[1] = type /\ e[2] = name}}
HasBagOrEntry(t, pkg, type, name) ==
    Included(t, pkg, type, name) \/ (pkg = Own /\ HasList(t, type, name))
HasEntryFor(t, type, name, config) ==
    Included(t, Own, type, name) \/ <<type, name, config>> \in DOMAIN t.entries

-----------------------------------------------------------------------------
(* Types and entries. *)

BlankEntry == [kind |-> "unknown", item |-> [k |-> "null", v |-> ""], format |-> {"any"},
               bag |-> << >>, parent |-> NoRef, parentId |-> NoId]

\* Package::getType
GetType(t, type, setIndex) ==
    IF type \in DOMAIN t.order THEN t
    ELSE [t EXCEPT !.types = Append(@, type), !.order = SetNew(@, type, << >>),
                   !.index = SetNew(@, type, IF setIndex THEN Len(t.types) + 1 ELSE 0)]

\* Type::getEntry: an overlay may only add what is declared with add-resource.
EntryIn(t, type, name, config, overlay, setIndex) ==
    LET new == ~HasList(t, type, name)
    IN  IF new /\ overlay /\ ~t.opt.autoAddOverlay /\ <<type, name>> \notin t.canAdd
        THEN Fail(t)
        ELSE [t EXCEPT
                !.ok = TRUE,
                !.order = IF new THEN [t.order EXCEPT ![type] = Append(@, name)] ELSE @,
                !.entryIndex = IF new THEN SetNew(@, <<type, name>>, IF setIndex THEN Len(t.order[type]) ELSE -1)
                               ELSE @,
                !.entries = SetNew(@, <<type, name, config>>, BlankEntry)]
GetEntry(t, type, name, config, overlay, setIndex) ==
    EntryIn(GetType(t, type, setIndex), type, name, config, overlay, setIndex)

\* Entry::setItem
SetItem(t, key, value, format, overwrite) ==
    LET e == t.entries[key]
    IN  IF e.kind = "bag" \/ (e.kind # "unknown" /\ ~overwrite) THEN Fail(t)
        ELSE [t EXCEPT !.ok = TRUE, !.entries =
                [@ EXCEPT ![key] = [e EXCEPT !.kind = "item", !.item = value, !.format = format]]]

Counted(t) == [t EXCEPT !.numLocal = IF t.ok THEN @ + 1 ELSE @]
AddEntry(t, type, name, value, config, format, overwrite, setIndex) ==
    IF Included(t, Own, type, name) THEN Fail(t)
    ELSE Then(GetEntry(t, type, name, config, overwrite, setIndex),
              LAMBDA u : Counted(SetItem(u, <<type, name, config>>, value, format, overwrite)))

\* Entry::makeItABag
MakeItABag(t, key) ==
    IF t.entries[key].kind = "item" THEN Fail(t)
    ELSE [t EXCEPT !.ok = TRUE, !.entries = [@ EXCEPT ![key].kind = "bag"]]

SetParent(t, key, parent) ==
    IF parent = NoRef THEN t ELSE [t EXCEPT !.entries = [@ EXCEPT ![key].parent = parent]]

\* The entry, as a bag with this parent.
BagEntry(t, key, parent, overlay) ==
    Then(GetEntry(t, key[1], key[2], key[3], overlay, FALSE),
         LAMBDA u : MakeItABag(SetParent(u, key, parent), key))

\* startBag: an overlay replaces an array as a whole, and adds to a style.
StartBag(t, type, name, parent, config, overlay, replace) ==
    LET key == <<type, name, config>>
        Emptied(b) == IF overlay /\ replace THEN [b EXCEPT !.entries = [@ EXCEPT ![key].bag = << >>]] ELSE b
    IN  IF \/ Included(t, Own, type, name)
           \/ /\ overlay /\ ~t.opt.autoAddOverlay
              /\ ~HasBagOrEntry(t, Own, type, name) /\ <<type, name>> \notin t.canAdd
        THEN Fail(t)
        ELSE Then(BagEntry(t, key, parent, overlay), Emptied)

\* addBag and Entry::addToBag; a bag of an included package is left alone without a word.
AddToBag(t, key, bagKey, item, replace) ==
    LET there == bagKey \in DOMAIN t.entries[key].bag
    IN  IF there /\ ~replace THEN Fail(t)
        ELSE [t EXCEPT !.entries = [t.entries EXCEPT ![key].bag = Set(@, bagKey, item)],
                       !.numLocal = IF there THEN @ ELSE @ + 1]
AddBag(t, type, name, parent, bagKey, value, config, replace, isId, format) ==
    LET key == <<type, name, config>>
        item == [value |-> value, isId |-> isId, format |-> format, keyId |-> NoId]
    IN  IF Included(t, Own, type, name) THEN Good(t)
        ELSE Then(BagEntry(t, key, parent, replace), LAMBDA b : AddToBag(b, key, bagKey, item, replace))

CanAddEntry(t, type, name) ==
    [GetType(t, type, FALSE) EXCEPT !.canAdd = @ \cup {<<type, name>>}]

\* addPublic and Type::addPublic: one type index per type, one id per name.
AddPublic(t, type, name, ident) ==
    LET u == GetType(t, type, FALSE)
        key == <<type, name>>
    IN  IF \/ Included(t, Own, type, name)
           \/ type \in DOMAIN u.pubType /\ u.pubType[type] # ident[2]
           \/ key \in DOMAIN u.pub /\ u.pub[key] # ident
        THEN Fail(u)
        ELSE [u EXCEPT !.ok = TRUE, !.pub = SetNew(@, key, ident),
                       !.pubType = SetNew(@, type, ident[2])]

-----------------------------------------------------------------------------
(* Resource ids and their cache. *)

\* getResId without the cache.
Resolve(t, ref, onlyPublic) ==
    LET type == ref[2]
        name == ref[3]
    IN  IF ref \in DOMAIN t.opt.included
        THEN IF onlyPublic /\ ~t.opt.included[ref].public THEN NoId
             ELSE t.opt.included[ref].id
        ELSE IF ref[1] = Own /\ HasList(t, type, name) /\ t.entryIndex[<<type, name>>] >= 0
        THEN <<t.opt.packageId, t.index[type], t.entryIndex[<<type, name>>]>>
        ELSE NoId

\* Mutant: the hash code decides.
Lookup_AnyKey(cache, key) ==
    LET slot == HashOf(key)
    IN  [id |-> IF slot \in DOMAIN cache THEN cache[slot].id ELSE NoId, cache |-> cache]
\* ResourceIdCache::lookup: another name of the same hash code is evicted.  The code compares the
\* name, type, package and flag written after one another; the key is the tuple of them, which
\* says the same: no type of caapt ends in another, and none has a dot, which packages do.
Lookup(cache, key) ==
    LET slot == HashOf(key)
        taken == slot \in DOMAIN cache
        hit == taken /\ cache[slot].key = key
    IN  [id |-> IF hit THEN cache[slot].id ELSE NoId,
         cache |-> IF taken /\ ~hit THEN [s \in DOMAIN cache \ {slot} |-> cache[s]] ELSE cache]
\* ResourceIdCache::store
Store(cache, key, id) ==
    IF Cardinality(DOMAIN cache) < MaxCacheEntries
    THEN Set(cache, HashOf(key), [key |-> key, id |-> id]) ELSE cache

\* getResId: what was found in the table is stored.
Resolved(t, key, cached, id) ==
    [id |-> id, t |-> [t EXCEPT !.cache = IF cached.id # NoId \/ id = NoId THEN cached.cache
                                          ELSE Store(cached.cache, key, id)]]
LookedUp(t, ref, onlyPublic, cached) ==
    Resolved(t, ref \o <<onlyPublic>>, cached,
             IF cached.id # NoId THEN cached.id ELSE Resolve(t, ref, onlyPublic))
GetResId(t, ref, onlyPublic) == LookedUp(t, ref, onlyPublic, Lookup(t.cache, ref \o <<onlyPublic>>))

\* getEntry(resID) in the configuration nobody qualified.
EntryAmong(t, keys) == IF keys = {} THEN BlankEntry ELSE t.entries[CHOOSE k \in keys : TRUE]
EntryOf(t, id) ==
    EntryAmong(t, {k \in DOMAIN t.entries :
                     k[3] = DefaultConfig /\ Resolve(t, <<Own, k[1], k[2]>>, FALSE) = id})

FalseValue == [k |-> "boolean", v |-> "false"]
\* getCustomResourceWithCreation: "@+id/name" makes the id it does not find.
Created(t, ref) == IF t.ok THEN GetResId(t, ref, TRUE) ELSE [id |-> NoId, t |-> t]
CreatedUnless(t, ref, create, own) ==
    IF own # NoId \/ ~create THEN [id |-> own, t |-> t]
    ELSE IF ref[1] # Own THEN [id |-> NoId, t |-> Fail(t)]
    ELSE Created(AddEntry(t, ref[2], ref[3], FalseValue, DefaultConfig, {"any"}, FALSE, TRUE), ref)
WithCreation(t, ref, create) ==
    CreatedUnless(t, ref, create, IF ref[1] = Own THEN Resolve(t, ref, FALSE) ELSE NoId)

-----------------------------------------------------------------------------
(* What an attribute takes, and the values. *)

Key(name) == <<"^", name>>
\* getItemValue of a bag item that is a number or a format.
ItemOf(t, attrId, key) == EntryOf(t, attrId).bag[key].value
HasItem(t, attrId, key) == key \in DOMAIN EntryOf(t, attrId).bag

IncludedAttr(t, id) ==
    {r \in DOMAIN t.opt.included : r[2] = "attr" /\ t.opt.included[r].id = id}
AttributeType(t, attrId) ==
    IF attrId = NoId THEN {"any"}
    ELSE IF IncludedAttr(t, attrId) # {}
    THEN t.opt.included[CHOOSE r \in IncludedAttr(t, attrId) : TRUE].format
    ELSE IF HasItem(t, attrId, Key("type")) THEN ItemOf(t, attrId, Key("type")).formats
    ELSE {"any"}
Within(bag, n) ==
    /\ Key("min") \in DOMAIN bag => n >= bag[Key("min")].value.n
    /\ Key("max") \in DOMAIN bag => n <= bag[Key("max")].value.n
InRange(t, attrId, n) == Within(EntryOf(t, attrId).bag, n)
AttributeKeys(t, attrId) == {k \in DOMAIN EntryOf(t, attrId).bag : k[1] = Own}
\* getAttributeEnum, and getAttributeFlags for one flag or several: of an attribute of an included
\* package the platform finds the constants itself.
EnumOf(t, attrId) ==
    IF IncludedAttr(t, attrId) # {} THEN t.opt.included[CHOOSE r \in IncludedAttr(t, attrId) : TRUE].enums
    ELSE [n \in {k[2] : k \in AttributeKeys(t, attrId)} |-> ItemOf(t, attrId, <<Own, n>>).n]

\* ResTable::stringToValue of the platform with this table as its accessor, and
\* ResourceTable::stringToValue around it: a string goes into the pool, when there is one.
\* The result is a value of the table: a position, an id, a number.
Stored(t, pool, value) == [t |-> Good(t), pool |-> pool, value |-> value]
NotStored(t, pool) == [t |-> Fail(t), pool |-> pool, value |-> <<"null">>]
Pooled(t, added) == Stored(t, added.pool, <<"string", added.at>>)
Referenced(r, pool) == IF r.id = NoId THEN NotStored(r.t, pool) ELSE Stored(r.t, pool, <<"reference", r.id>>)
Target(t, ref, create) ==
    IF ref \in DOMAIN t.opt.included THEN [id |-> Resolve(t, ref, TRUE), t |-> t]
    ELSE WithCreation(t, ref, create)

\* types are the formats the attribute takes, enums its constants.
ToValue(t, pool, value, attrId, types, enums, typeName, config) ==
    LET Takes(kind) == types \cap {"any", kind} # {}
    IN  CASE value.k = "styled" ->
               Pooled(t, AddStyled(pool, value.v, value.spans, typeName, {config}))
          [] value.k = "reference" ->
               Referenced(Target(t, <<value.pkg, value.type, value.name>>, value.create), pool)
          [] value.k = "integer" /\ Takes("integer") ->
               IF InRange(t, attrId, value.n) THEN Stored(t, pool, <<"integer", value.n>>)
               ELSE NotStored(t, pool)
          [] value.k = "flags" /\ "flags" \in types /\ value.names # {} /\ value.names \subseteq DOMAIN enums ->
               Stored(t, pool, <<"flags", {enums[n] : n \in value.names}>>)
          [] value.k = "string" /\ "enum" \in types /\ value.v \in DOMAIN enums ->
               Stored(t, pool, <<"integer", enums[value.v]>>)
          [] value.k = "formats" -> Stored(t, pool, <<"formats", value.formats>>)
          [] value.k \notin {"integer", "flags", "string", "reference", "styled", "formats"}
             /\ Takes(value.k) -> Stored(t, pool, <<value.k, value.v>>)
          [] OTHER -> IF Takes("string") THEN Pooled(t, Add(pool, value.v, TRUE, typeName, {config}))
                      ELSE NotStored(t, pool)
StringToValue(t, pool, value, attrId, format, typeName, config) ==
    ToValue(t, pool, value, attrId,
            IF attrId = NoId \/ Internal(attrId) THEN format ELSE AttributeType(t, attrId),
            EnumOf(t, attrId), typeName, config)

-----------------------------------------------------------------------------
(* assignResourceIds *)

\* Places the given things at their indices (from one) and the others, in order, in what is free.
Place(at, others, size) ==
    LET Taken(i) == {x \in DOMAIN at : at[x] = i}
        rank(i) == Cardinality({j \in 1..i : Taken(j) = {}})
    IN  [i \in 1..size |->
           IF Taken(i) # {} THEN CHOOSE x \in Taken(i) : TRUE
           ELSE IF rank(i) <= Len(others) THEN others[rank(i)] ELSE Hole]

\* applyPublicTypeOrder: the list grows to the largest public index.
ApplyPublicTypeOrder(t) ==
    LET at == t.pubType
        size == CHOOSE n \in {Len(t.types)} \cup {at[x] : x \in DOMAIN at} :
                   \A m \in {Len(t.types)} \cup {at[x] : x \in DOMAIN at} : m <= n
    IN  IF \E x, y \in DOMAIN at : x # y /\ at[x] = at[y] THEN Fail(t)
        ELSE [t EXCEPT !.ok = TRUE,
                !.types = Place(at, SelectSeq(t.types, LAMBDA x : x \notin DOMAIN at), size)]

\* Mutant: the names stay where they were added.
ApplyPublicEntryOrder_Unmoved(t, type) ==
    LET names == {k[2] : k \in {p \in DOMAIN t.pub : p[1] = type}}
    IN  IF names \ ToSet(t.order[type]) # {} THEN Fail(t)
        ELSE [t EXCEPT !.ok = TRUE, !.isPublic = @ \cup {<<type, n>> : n \in names}]
\* Type::applyPublicEntryOrder: every public name is defined, has an index below the number of
\* entries, and its own one.
ApplyPublicEntryOrder(t, type) ==
    LET names == {k[2] : k \in {p \in DOMAIN t.pub : p[1] = type}}
        at == [n \in names |-> t.pub[<<type, n>>][3] + 1]
        list == t.order[type]
    IN  IF \/ names \ ToSet(list) # {} \/ \E n \in names : at[n] > Len(list)
           \/ \E n, m \in names : n # m /\ at[n] = at[m]
        THEN Fail(t)
        ELSE [t EXCEPT !.ok = TRUE,
                !.order = [@ EXCEPT ![type] =
                    Place(at, SelectSeq(list, LAMBDA x : x \notin names), Len(list))],
                !.isPublic = @ \cup {<<type, n>> : n \in names}]

\* Entry::generateAttributes: the constants of enums and flags become ids.
GenerateAttributes(t) ==
    LET Ids == {<<k, b>> : k \in DOMAIN t.entries, b \in UNION {DOMAIN t.entries[k].bag : k \in DOMAIN t.entries}}
        new == {x[2] : x \in {y \in Ids : /\ y[2] \in DOMAIN t.entries[y[1]].bag
                                          /\ t.entries[y[1]].bag[y[2]].isId}}
    IN  FoldSet(LAMBDA b, u : IF HasBagOrEntry(u, b[1], "id", b[2]) THEN u
                              ELSE AddEntry(u, "id", b[2], FalseValue,
                                            DefaultConfig, {"any"}, FALSE, FALSE),
                t, new)

\* Entry::assignResourceIds: the parent is a style, the keys are attributes, or ids of enums.
Known(r) == IF r.id = NoId THEN Fail(r.t) ELSE r.t
WithParentId(key, r) == [Known(r) EXCEPT !.entries = [@ EXCEPT ![key].parentId = r.id]]
WithKeyId(key, b, r) == [Known(r) EXCEPT !.entries = [@ EXCEPT ![key].bag[b].keyId = r.id]]
AssignKeyId(t, key, e, b) ==
    WithKeyId(key, b, IF b[1] = "^" THEN [id |-> b, t |-> t]
                      ELSE GetResId(t, <<b[1], IF e.bag[b].isId THEN "id" ELSE "attr", b[2]>>, TRUE))
AssignParentId(t, key, e) ==
    IF e.parent = NoRef THEN t ELSE WithParentId(key, GetResId(t, e.parent, TRUE))
AssignBagIds(key, t) ==
    LET e == t.entries[key]
    IN  IF e.kind # "bag" THEN t
        ELSE FoldSet(LAMBDA b, u : AssignKeyId(u, key, e, b), AssignParentId(t, key, e), DOMAIN e.bag)

\* Indices for the types and their entries; a feature counts on from the types of its base.
AssignIndices(t) ==
    [t EXCEPT
       !.index = [x \in DOMAIN t.order |->
                    (CHOOSE i \in DOMAIN t.types : t.types[i] = x) + t.opt.typeIdOffset],
       !.entryIndex = [k \in DOMAIN t.entryIndex |->
                         (CHOOSE i \in DOMAIN t.order[k[1]] : t.order[k[1]][i] = k[2]) - 1]]

\* An error in one part lets the others go on and report theirs; the build ends with the first
\* one in any case, and at once when the attributes lost the first place.
OrderEntries(t) ==
    FoldLeft(LAMBDA u, x : IF x = Hole THEN u ELSE [ApplyPublicEntryOrder(u, x) EXCEPT !.ok = u.ok /\ @],
             t, t.types)
AssignAllBags(t) == FoldSet(AssignBagIds, t, DOMAIN t.entries)
AssignOrdered(typed, t) ==
    IF ~typed.ok \/ ~t.ok \/ t.types[1] \notin {"attr", Hole} THEN Fail(t)
    ELSE AssignAllBags(AssignIndices(t))
AssignTyped(typed) == AssignOrdered(typed, OrderEntries(GenerateAttributes(typed)))
AssignResourceIds(t) == AssignTyped(ApplyPublicTypeOrder(t))

-----------------------------------------------------------------------------
(* What is left to do for older platforms, once everything has its id. *)

IsAttributeFromL(t, id) ==
    \E r \in IncludedAttr(t, id) : t.opt.included[r].public /\ t.opt.included[r].fromL
\* A code name from L on, or a number from 21 on.
IsMinSdkVersionLOrAbove(t) == t.opt.minSdk.codeName \/ t.opt.minSdk.n >= SDK_L

Earlier(c, d) == RankIn(ConfigOrder, c) < RankIn(ConfigOrder, d)
AtL(c) == [c EXCEPT !.sdk = SDK_L]
LAttributes(t, key) ==
    {b \in DOMAIN t.entries[key].bag :
       b[1] # "^" /\ IsAttributeFromL(t, Resolve(t, <<b[1], "attr", b[2]>>, TRUE))}
RemoveFromBag(e, keys) == [e EXCEPT !.bag = [b \in DOMAIN @ \ keys |-> @[b]]]

\* The bags that are for earlier platforms and have attributes of L.
BagsWithL(t) ==
    {k \in DOMAIN t.entries :
       t.entries[k].kind = "bag" /\ k[3].sdk < SDK_L /\ LAttributes(t, k) # {}}
CopyOf(k) == <<k[1], k[2], AtL(k[3])>>
SplitBags(t, hit) ==
    LET new == {CopyOf(k) : k \in hit} \ DOMAIN t.entries
        Original(n) == CHOOSE k \in hit :
            n = CopyOf(k) /\ \A l \in hit : n = CopyOf(l) => ~Earlier(l[3], k[3])
    IN  [t EXCEPT !.entries =
            [k \in DOMAIN @ \cup new |->
               IF k \in new THEN @[Original(k)]
               ELSE IF k \in hit THEN RemoveFromBag(@[k], LAttributes(t, k)) ELSE @[k]]]
\* Mutant: nothing is done to an entry when there is one for L.
ModifyForCompat_LeftAlone(t) ==
    IF IsMinSdkVersionLOrAbove(t) THEN t
    ELSE SplitBags(t, {k \in BagsWithL(t) : CopyOf(k) \notin DOMAIN t.entries})
\* modifyForCompat of the table: a bag with attributes of L is copied for L, unless there is
\* an entry for L, and loses them.  Of two copies under one key that of the first configuration
\* stays; they differ in their SDK version alone, where ConfigOrder is the order of the code.
\* What getResId leaves in the cache here (ResourceTable.cpp:4460) is not modelled.
ModifyForCompat(t) == IF IsMinSdkVersionLOrAbove(t) THEN t ELSE SplitBags(t, BagsWithL(t))

-----------------------------------------------------------------------------
(* flatten: the table of one split. *)

ComplexTypes == {"drawable", "layout", "color", "anim", "interpolator", "animator", "xml",
                 "menu", "mipmap", "raw"}
ConfigTypeName(type) == IF type \in ComplexTypes THEN "1complex" ELSE "2value"

\* Entry::prepareFlatten: the values of an entry, its strings in the pool; the first value that
\* is not one ends it.
Slots(e) == IF e.kind = "bag" THEN e.bag
            ELSE [s \in {<< >>} |-> [value |-> e.item, keyId |-> NoId, format |-> e.format]]
Prepared(acc, key, slot, r) ==
    [t |-> r.t, pool |-> r.pool, values |-> Set(acc.values, <<key, slot>>, r.value)]
PrepareValue(acc, key, slot, x) ==
    IF ~acc.t.ok THEN acc
    ELSE Prepared(acc, key, slot, StringToValue(acc.t, acc.pool, x.value, x.keyId, x.format,
                                                ConfigTypeName(key[1]), key[3]))
PrepareSlots(acc, key, slots) ==
    FoldSet(LAMBDA s, a : PrepareValue(a, key, s, slots[s]), acc, DOMAIN slots)
PrepareEntry(acc, key, e) ==
    IF e.kind = "unknown" THEN [acc EXCEPT !.t = Fail(@)] ELSE PrepareSlots(acc, key, Slots(e))
\* A NULL entry is passed over.
PrepareFlatten(acc, key) ==
    IF key \in DOMAIN acc.t.entries THEN PrepareEntry(acc, key, acc.t.entries[key]) ELSE acc

\* Entry::remapStringValue
RemapStringValue(pool, v) ==
    IF v[1] = "string" THEN <<"string", MapOriginalPosToNewPos(pool, v[2])>> ELSE v

\* The type strings: the position of a type is its index.
TypeStrings(t) ==
    FoldLeft(LAMBDA acc, x :
                IF x = Hole THEN Append(acc, Hole)
                ELSE acc \o [i \in 1..(t.index[x] - 1 - Len(acc)) |-> Hole] \o <<x>>,
             << >>, t.types)

\* Entry::flatten: an item, or a bag by the ids of its keys.
FlatEntry(t, values, key) ==
    LET e == t.entries[key]
        V(slot) == IF <<key, slot>> \in DOMAIN values THEN values[<<key, slot>>] ELSE <<"null">>
    IN  IF e.kind # "bag" THEN [key |-> key[2], value |-> V(<< >>)]
        ELSE [key |-> key[2], parent |-> e.parentId,
              map |-> [id \in {e.bag[b].keyId : b \in DOMAIN e.bag} |->
                         V(CHOOSE b \in DOMAIN e.bag : e.bag[b].keyId = id)]]

\* The configurations that match are in the table; mipmaps are never filtered and stay in the base.
Written(t, matches, isBase) ==
    {k \in DOMAIN t.entries : IF k[1] = "mipmap" THEN isBase ELSE k[3] \in matches}

\* The first pass: every value of the table in turn, type by type, name by name; a Hole is no type.
Collect(t, written) ==
    LET Keys(type) == FlattenSeq([n \in DOMAIN t.order[type] |->
                        LET name == t.order[type][n]
                            cs == Ordered({c \in Configs(t, type, name) : <<type, name, c>> \in written},
                                          Earlier)
                        IN  [i \in DOMAIN cs |-> <<type, name, cs[i]>>]])
        keys == FlattenSeq([i \in DOMAIN t.types |-> IF t.types[i] \in DOMAIN t.order THEN Keys(t.types[i]) ELSE << >>])
    IN  FoldLeft(PrepareFlatten, [t |-> Good(t), pool |-> EmptyPool, values |-> << >>], keys)

\* The typeSpec chunks: per resource whether it is public and what its configurations differ in.
TypeSpecs(t, written) ==
    LET Kept(k) == {c \in Configs(t, k[1], k[2]) : <<k[1], k[2], c>> \in written}
    IN  [k \in DOMAIN t.entryIndex |->
           [public |-> k \in t.isPublic, diff |-> UNION {Diff(c, d) : c, d \in Kept(k)}]]

\* The type chunks: per type and configuration the entries at their indices.
TypeChunks(t, strings, written, values) ==
    LET Entries(type, c) ==
            [n \in {x \in DOMAIN t.order[type] : <<type, t.order[type][x], c>> \in written} |->
               FlatEntry(t, values, <<type, t.order[type][n], c>>)]
        chunks == {[id |-> i, config |-> c, entries |-> Entries(strings[i], c)] :
                     i \in {j \in DOMAIN strings : strings[j] # Hole}, c \in {k[3] : k \in written}}
    IN  {x \in chunks : DOMAIN x.entries # {}}

\* A resource of which no entry was written; without splits it may be an error.
MissingEntry(t, written, isBase) ==
    \E type \in DOMAIN t.order : \E n \in ToSet(t.order[type]) :
        (isBase \/ type # "mipmap") /\ ~\E k \in written : k[1] = type /\ k[2] = n

\* The libraries an included package names are written into the base.
FlattenLibraryTable(t, isBase) == IF isBase THEN t.opt.libraries ELSE {}

Reported(t, written, isBase) ==
    IF t.ok /\ ~t.opt.splits /\ t.opt.errorOnMissing /\ MissingEntry(t, written, isBase) THEN Fail(t) ELSE t
Remap(t, pool, values) ==
    IF t.opt.output THEN [s \in DOMAIN values |-> RemapStringValue(pool, values[s])] ELSE values
\* prepared is the table as the first pass leaves it.
FlattenPrepared(t, prepared, written, isBase, values, pool) ==
    LET strings == TypeStrings(t)
    IN  [t |-> Reported(prepared, written, isBase),
         packageId |-> t.opt.packageId, block |-> Block(pool), types |-> strings,
         specs |-> TypeSpecs(prepared, written),
         chunks |-> TypeChunks(prepared, strings, written, Remap(t, pool, values)),
         libs |-> FlattenLibraryTable(t, isBase)]
\* The strings are sorted, and the values follow them, when the output will be written.
FlattenCollected(t, c, matches, isBase) ==
    FlattenPrepared(t, c.t, Written(c.t, matches, isBase), isBase, c.values,
                    IF t.opt.output THEN SortByConfig(c.pool) ELSE c.pool)
Flatten(t, matches, isBase) ==
    FlattenCollected(t, Collect(t, Written(t, matches, isBase)), matches, isBase)

IdOf(t, k) == <<t.opt.packageId, t.index[k[1]], t.entryIndex[k]>>
\* addSymbols: an id the package byte cannot hold gives no symbol.
Symbols(t) ==
    {[type |-> k[1], name |-> k[2], id |-> IdOf(t, k)] :
        k \in {e \in DOMAIN t.entryIndex : t.opt.packageId \in 0..255}}

\* writePublicDefinitions: the public resources with their ids, or the private ones.
PublicDefinitions(t, pub) ==
    {<<k, IdOf(t, k)>> : k \in {e \in DOMAIN t.entryIndex : (e \in t.isPublic) = pub}}

LanguageOf(l) == <<l[1], "", "", "">>
\* validateLocalizations: the warnings for strings that lack the default locale, or one that is
\* required and has neither its language nor the default.
MissingLocales(localizations, required) ==
    {<<s, NoLocale>> : s \in {n \in DOMAIN localizations : NoLocale \notin localizations[n]}}
    \cup UNION {{<<s, l>> : l \in {r \in required :
                    localizations[s] \cap {r, LanguageOf(r), NoLocale} = {}}}
                : s \in DOMAIN localizations}
=============================================================================
