------------------------------ MODULE StringPool ------------------------------
(***************************************************************************)
(* The string pool of caapt: StringPool.cpp.  A client keeps the position  *)
(* at which it added a string; sortByConfig moves the strings afterwards,  *)
(* and the client translates what it kept with mapOriginalPosToNewPos.     *)
(* Positions count from one here.                                          *)
(***************************************************************************)
EXTENDS Integers, Sequences, SequencesExt, FiniteSets, TLC

CONSTANTS
    TypeNameOrder,  \* names of resource types in the order of their characters
    ConfigOrder,    \* the configurations in their logical order
    Ties            \* "kept" or "reversed": what qsort does with strings that compare equal

ASSUME StringPoolAssumption == Ties \in {"kept", "reversed"}

\* A map with one more value, in the place of one of the same key or after it; and one map over
\* another.
Set(f, key, value) == [k \in {key} \cup DOMAIN f |-> IF k = key THEN value ELSE f[k]]
SetNew(f, key, value) == IF key \in DOMAIN f THEN f ELSE Set(f, key, value)
Over(f, g) == [k \in DOMAIN f \cup DOMAIN g |-> IF k \in DOMAIN f THEN f[k] ELSE g[k]]

NoType == ""
Mixed == " "  \* the type name of a string of several types

\* mEntries, mEntryArray, mValues, mEntryStyleArray and mOriginalPosToNewPos.
EmptyPool == [entries |-> << >>, array |-> << >>, values |-> << >>, styles |-> << >>,
              newPos |-> << >>]

SpansAt(p, pos) == IF pos \in DOMAIN p.styles THEN p.styles[pos] ELSE << >>
StringAt(p, pos) == p.entries[p.array[pos]].value

\* What an entry remembers of who uses it, for the sort.
Used(ent, typeName, configs) ==
    [ent EXCEPT !.type = IF typeName = NoType \/ @ = typeName THEN @
                         ELSE IF @ = NoType THEN typeName ELSE Mixed,
                !.configs = @ \cup configs]

\* add: a string that is there is given its first position again when the caller merges and that
\* position has no style, and a new position of the same entry otherwise.
Add(p, value, merge, typeName, configs) ==
    LET known == value \in DOMAIN p.values
        first == p.values[value]
        e == IF known THEN p.array[first] ELSE Len(p.entries) + 1
        ent == IF known THEN p.entries[e]
               ELSE [value |-> value, type |-> NoType, configs |-> {}, styled |-> FALSE]
        same == known /\ merge /\ SpansAt(p, first) = << >>
        at == IF same THEN first ELSE Len(p.array) + 1
    IN  [at |-> at,
         pool |-> [p EXCEPT
            !.entries = IF known THEN [@ EXCEPT ![e] = Used(ent, typeName, configs)]
                        ELSE Append(@, Used(ent, typeName, configs)),
            !.array = IF same THEN @ ELSE Append(@, e),
            !.values = SetNew(@, value, at)]]

\* addStyleSpans: blank styles up to the position, and the mark of the entry.
AddStyleSpans(p, at, spans) ==
    IF spans = << >> THEN p
    ELSE [p EXCEPT
            !.styles = [i \in 1..(IF at > Len(@) THEN at ELSE Len(@)) |->
                          SpansAt(p, i) \o (IF i = at THEN spans ELSE << >>)],
            !.entries = [@ EXCEPT ![p.array[at]].styled = TRUE]]

Styled(r, spans) == [r EXCEPT !.pool = AddStyleSpans(@, r.at, spans)]
AddStyled(p, value, spans, typeName, configs) == Styled(Add(p, value, FALSE, typeName, configs), spans)

-----------------------------------------------------------------------------
(* sortByConfig *)

\* A set in the order Before says, a strict total one.
Ordered(S, Before(_, _)) ==
    [i \in 1..Cardinality(S) |->
       CHOOSE x \in S : Cardinality({y \in S : Before(y, x)}) = i - 1]
RankIn(order, x) == IF x \in ToSet(order) THEN CHOOSE i \in DOMAIN order : order[i] = x ELSE 0

\* entry::compare: styled strings first, in any order, then by type and by the configurations one
\* after the other; a prefix comes first.
SortKey(ent) ==
    IF ent.styled THEN <<0>>
    ELSE <<1, RankIn(TypeNameOrder, ent.type)>>
         \o Ordered({RankIn(ConfigOrder, c) : c \in ent.configs}, LAMBDA i, j : i < j)
Compare(a, b) ==
    LET differ == {i \in DOMAIN a \cap DOMAIN b : a[i] # b[i]}
        i == CHOOSE j \in differ : \A k \in differ : j <= k
    IN  IF differ = {} THEN Len(a) < Len(b) ELSE a[i] < b[i]

\* qsort: the positions in the order of their keys.
Sorted(keys) ==
    Ordered(DOMAIN keys,
            LAMBDA i, j : \/ Compare(keys[i], keys[j])
                          \/ keys[i] = keys[j] /\ IF Ties = "kept" THEN i < j ELSE i > j)

\* The pool that has these entries at its positions, old the positions they had: an entry per
\* position, as the map that was to share them is never filled, and styles up to the last one.
MovedPool(p, old, entries) ==
    [entries |-> entries,
     array |-> [i \in DOMAIN old |-> i],
     values |-> [v \in {e.value : e \in ToSet(entries)} |->
                   Max({i \in DOMAIN entries : entries[i].value = v})],
     styles |-> [i \in 1..Max({0} \cup {i \in DOMAIN old : SpansAt(p, old[i]) # << >>}) |-> SpansAt(p, old[i])],
     newPos |-> [i \in DOMAIN old |-> CHOOSE j \in DOMAIN old : old[j] = i]]
MovedTo(p, old) == MovedPool(p, old, [i \in DOMAIN old |-> p.entries[p.array[old[i]]]])
SortByConfig(p) == MovedTo(p, Sorted([i \in DOMAIN p.array |-> SortKey(p.entries[p.array[i]])]))

\* Mutant: the position at which the string was added.
MapOriginalPosToNewPos_Original(p, pos) == pos
\* mapOriginalPosToNewPos
MapOriginalPosToNewPos(p, pos) == p.newPos[pos]

-----------------------------------------------------------------------------
(* writeStringBlock *)

\* The names of the spans are strings of the pool too, added behind the others.
AddedName(acc, r) == [pool |-> r.pool, at |-> Append(acc.at, r.at)]
AddSpanNames(p) ==
    FoldLeft(LAMBDA acc, span : AddedName(acc, Add(acc.pool, span.name, TRUE, NoType, {})),
             [pool |-> p, at |-> << >>], FlattenSeq(p.styles))

\* The block: a string per position, and for the first positions a list of spans, each with the
\* position of its name.
BlockOf(p, named) ==
    LET Before(i) == Len(FlattenSeq(SubSeq(p.styles, 1, i - 1)))
    IN  [strings |-> [i \in DOMAIN named.pool.array |-> StringAt(named.pool, i)],
         styles |-> [i \in DOMAIN p.styles |->
                       [j \in DOMAIN p.styles[i] |->
                          [p.styles[i][j] EXCEPT !.name = named.at[Before(i) + j]]]]]
Block(p) == BlockOf(p, AddSpanNames(p))

\* offsetForString: the first position of a string; none has position zero.
OffsetForString(p, value) == IF value \in DOMAIN p.values THEN p.values[value] ELSE 0

\* ENCODE_LENGTH with units of so many bits: one unit, or two with the high bit of the first set.
EncodeLength(n, bits) ==
    LET half == 2^(bits - 1)
    IN  IF n > half - 1 THEN <<half + ((n \div 2^bits) % half), n % 2^bits>> ELSE <<n>>
\* What the platform makes of it.
DecodeLength(units, bits) ==
    LET half == 2^(bits - 1)
    IN  IF units[1] >= half THEN (units[1] - half) * 2^bits + units[2] ELSE units[1]
=============================================================================
