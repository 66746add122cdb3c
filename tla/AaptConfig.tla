------------------------------ MODULE AaptConfig ------------------------------
(***************************************************************************)
(* Resource configurations of caapt: AaptConfig.cpp, the locale values of  *)
(* AaptAssets.cpp and ResourceFilter.cpp.  A directory name has been split *)
(* at its dashes and lower-cased; a part <<word, n, m>> is a word with the *)
(* numbers in it ("sw600dp" is <<"sw", 600, 0>>, "land" is <<"land",0,0>>, *)
(* "640x480" is <<"x", 640, 480>>), a BCP-47 part <<"b+", tags, 0>>.  A    *)
(* configuration gives every axis a value.                                 *)
(***************************************************************************)
EXTENDS Integers, Sequences, SequencesExt, FiniteSets

\* The axes in the order in which a directory name has them.
AxisOrder == <<"mcc", "mnc", "locale", "layoutDir", "sw", "w", "h", "size", "long",
               "orientation", "uiType", "night", "density", "touch", "keysHidden",
               "keyboard", "navHidden", "navigation", "screen", "sdk">>
Axes == ToSet(AxisOrder)

NoLocale == <<"", "", "", "">>  \* language, script, region, variant
DefaultConfig ==
    [a \in Axes |-> CASE a = "locale" -> NoLocale
                      [] a = "screen" -> <<0, 0>>
                      [] a \in {"mcc", "mnc", "sw", "w", "h", "density", "sdk"} -> 0
                      [] OTHER -> ""]

\* ResTable_config::diff: the bits in which two configurations differ.
BitOf(a) ==
    CASE a \in {"w", "h", "screen"} -> "screenSize"
      [] a \in {"size", "long"} -> "screenLayout"
      [] a \in {"uiType", "night"} -> "uiMode"
      [] a \in {"keysHidden", "navHidden"} -> "keyboardHidden"
      [] OTHER -> a
Diff(c, d) == {BitOf(a) : a \in {b \in Axes : c[b] # d[b]}}
IsSameExcept(c, d, bits) == Diff(c, d) = bits

-----------------------------------------------------------------------------
(* One axis, one part: what it reads, and the value it sets.  "any" is read by all of them. *)

LayoutDirection(p) == p[1] \in {"ldltr", "ldrtl"}
ScreenLayoutSize(p) == p[1] \in {"small", "normal", "large", "xlarge"}
ScreenLayoutLong(p) == p[1] \in {"long", "notlong"}
Orientation(p) == p[1] \in {"port", "land", "square"}
UiModeType(p) == p[1] \in {"desk", "car", "television", "appliance", "watch"}
UiModeNight(p) == p[1] \in {"night", "notnight"}
Touchscreen(p) == p[1] \in {"notouch", "stylus", "finger"}
KeysHidden(p) == p[1] \in {"keysexposed", "keyshidden", "keyssoft"}
Keyboard(p) == p[1] \in {"nokeys", "qwerty", "12key"}
NavHidden(p) == p[1] \in {"navexposed", "navhidden"}
Navigation(p) == p[1] \in {"nonav", "dpad", "trackball", "wheel"}

Mcc(p) == p[1] = "mcc" /\ p[2] \in 1..999
Mnc(p) == p[1] = "mnc" /\ p[2] \in 0..999
MncZero == 65535
SmallestWidth(p) == p[1] = "sw"
Width(p) == p[1] = "w"
Height(p) == p[1] = "h"
ScreenSize(p) == p[1] = "x" /\ p[2] >= p[3]
Version(p) == p[1] = "v"

AnyDensity == 65534
DensityWords == [anydpi |-> AnyDensity, nodpi |-> 65535, ldpi |-> 120, mdpi |-> 160,
                 tvdpi |-> 213, hdpi |-> 240, xhdpi |-> 320, xxhdpi |-> 480, xxxhdpi |-> 640]
Density(p) == p[1] \in DOMAIN DensityWords \/ (p[1] = "dpi" /\ p[2] # 0)

Reads(a, p) ==
    \/ p[1] = "any"
    \/ CASE a = "mcc" -> Mcc(p) [] a = "mnc" -> Mnc(p)
         [] a = "layoutDir" -> LayoutDirection(p)
         [] a = "sw" -> SmallestWidth(p) [] a = "w" -> Width(p) [] a = "h" -> Height(p)
         [] a = "size" -> ScreenLayoutSize(p) [] a = "long" -> ScreenLayoutLong(p)
         [] a = "orientation" -> Orientation(p)
         [] a = "uiType" -> UiModeType(p) [] a = "night" -> UiModeNight(p)
         [] a = "density" -> Density(p) [] a = "touch" -> Touchscreen(p)
         [] a = "keysHidden" -> KeysHidden(p) [] a = "keyboard" -> Keyboard(p)
         [] a = "navHidden" -> NavHidden(p) [] a = "navigation" -> Navigation(p)
         [] a = "screen" -> ScreenSize(p) [] a = "sdk" -> Version(p)

ValueOf(a, p) ==
    CASE p[1] = "any" -> DefaultConfig[a]
      [] a = "mnc" /\ p[1] # "any" -> IF p[2] = 0 THEN MncZero ELSE p[2]
      [] a = "screen" /\ p[1] # "any" -> <<p[2], p[3]>>
      [] a = "density" /\ p[1] \in DOMAIN DensityWords -> DensityWords[p[1]]
      [] a \in {"mcc", "sw", "w", "h", "sdk"} \/ p[1] = "dpi" -> p[2]
      [] OTHER -> p[1]

\* parseMnc clears the country code, not the network code, for "any".
Put(a, p, c) ==
    IF a = "mnc" /\ p[1] = "any" THEN [c EXCEPT !["mcc"] = 0]
    ELSE [c EXCEPT ![a] = ValueOf(a, p)]

-----------------------------------------------------------------------------
(* Locales. *)

\* A BCP-47 tag: the tags after the language are told apart by their lengths.
TagLocale(tags) ==
    LET n == Len(tags)
        Second == Len(tags[2])
    IN  CASE n = 1 -> <<tags[1], "", "", "">>
          [] n = 2 /\ Second \in 2..3 -> <<tags[1], "", tags[2], "">>
          [] n = 2 /\ Second = 4 -> <<tags[1], tags[2], "", "">>
          [] n = 2 /\ Second \in 5..8 -> <<tags[1], "", "", tags[2]>>
          [] n = 3 /\ Second = 4 /\ Len(tags[3]) > 4 -> <<tags[1], tags[2], "", tags[3]>>
          [] n = 3 /\ Second = 4 /\ Len(tags[3]) <= 4 -> <<tags[1], tags[2], tags[3], "">>
          [] n = 3 /\ Second \in 2..3 /\ Len(tags[3]) > 4 -> <<tags[1], "", tags[2], tags[3]>>
          [] n = 3 /\ Second \in 2..3 /\ Len(tags[3]) <= 4 -> <<tags[1], "", tags[3], "">>
          [] n = 4 -> <<tags[1], tags[2], tags[3], tags[4]>>
          [] OTHER -> NoLocale

IsWord(p) == p[1] # "b+" /\ p[2] = 0
\* A language is any word of two or three letters, "car" and "any" among them.
IsLanguage(p) == IsWord(p) /\ Len(p[1]) \in 2..3
IsRegion(p) == IsWord(p) /\ Len(p[1]) = 3 /\ SubSeq(p[1], 1, 1) = "r"

\* initFromDirName: the locale at part i and how many parts it takes; -1 is a bad tag.
DirLocale(parts, i) ==
    LET p == parts[i]
        regionNext == i < Len(parts) /\ IsRegion(parts[i + 1])
    IN  CASE p[1] = "b+" -> [value |-> TagLocale(p[2]),
                             takes |-> IF TagLocale(p[2]) = NoLocale THEN -1 ELSE 1]
          [] p[1] # "b+" /\ IsLanguage(p) /\ regionNext ->
                [value |-> <<p[1], "", SubSeq(parts[i + 1][1], 2, 3), "">>, takes |-> 2]
          [] p[1] # "b+" /\ IsLanguage(p) /\ ~regionNext ->
                [value |-> <<p[1], "", "", "">>, takes |-> 1]
          [] OTHER -> [value |-> NoLocale, takes |-> 0]

\* initFromFilterString on the tags of "en_US" and the like; NoLocale is no locale.
IsVariant(t) == Len(t) \in 5..8
FilterLocale(tags) ==
    LET n == Len(tags)
        region2 == n >= 2 /\ Len(tags[2]) \in 2..3
        script2 == n >= 2 /\ Len(tags[2]) = 4
        region3 == n >= 3 /\ Len(tags[3]) \in 2..3 /\ script2
        L(script, region, variant) == <<tags[1], script, region, variant>>
    IN  CASE n = 0 \/ Len(tags[1]) \notin 2..3 -> NoLocale
          [] n = 1 -> L("", "", "")
          [] n = 2 /\ region2 -> L("", tags[2], "")
          [] n = 2 /\ script2 -> L(tags[2], "", "")
          [] n = 2 /\ IsVariant(tags[2]) -> L("", "", tags[2])
          [] n = 3 /\ region3 -> L(tags[2], tags[3], "")
          [] n = 3 /\ region2 /\ IsVariant(tags[3]) -> L("", tags[2], tags[3])
          [] n = 3 /\ script2 /\ IsVariant(tags[3]) -> L(tags[2], "", tags[3])
          [] n = 4 /\ region3 /\ IsVariant(tags[4]) -> L(tags[2], tags[3], tags[4])
          [] OTHER -> NoLocale

-----------------------------------------------------------------------------
(* parse *)

\* The axes added after the first release raise the version; "anydpi" is a density like any
\* other when it is tested.
SinceVersion == [sw |-> 13, w |-> 13, h |-> 13, uiType |-> 8, night |-> 8, size |-> 4, long |-> 4, density |-> 4]
ApplyVersionForCompatibility(c) ==
    LET used == {a \in DOMAIN SinceVersion : c[a] # DefaultConfig[a]}
    IN  [c EXCEPT !["sdk"] = Max({@} \cup {SinceVersion[a] : a \in used})]

\* One axis: it takes the part at hand, or leaves it to the next one.
TakeLocale(s, l) ==
    [i |-> s.i + l.takes, bad |-> l.takes < 0,
     c |-> IF l.takes > 0 THEN [s.c EXCEPT !["locale"] = l.value] ELSE s.c]
TakePart(parts, s, a) ==
    IF s.i > Len(parts) \/ s.bad THEN s
    ELSE IF a = "locale" THEN TakeLocale(s, DirLocale(parts, s.i))
    ELSE IF Reads(a, parts[s.i]) THEN [s EXCEPT !.i = @ + 1, !.c = Put(a, parts[s.i], @)]
    ELSE s

Invalid == [ok |-> FALSE, config |-> DefaultConfig]
\* No part may be left over.
AllTaken(parts, end) ==
    IF end.bad \/ end.i <= Len(parts) THEN Invalid
    ELSE [ok |-> TRUE, config |-> ApplyVersionForCompatibility(end.c)]
Parse(parts) ==
    AllTaken(parts, FoldLeft(LAMBDA s, a : TakePart(parts, s, a),
                             [i |-> 1, bad |-> FALSE, c |-> DefaultConfig], AxisOrder))

\* The splits of "-split a,b": all configurations must parse.
AllParsed(parsed) ==
    IF \A r \in parsed : r.ok THEN [ok |-> TRUE, configs |-> {r.config : r \in parsed}]
    ELSE [ok |-> FALSE, configs |-> {}]
ParseCommaSeparatedList(list) == AllParsed({Parse(parts) : parts \in ToSet(list)})

-----------------------------------------------------------------------------
(* ResourceFilter.  An item of the filter -c is [tags |-> locale tags, parts |-> parts]. *)

\* An item is a locale or else parts like those of a directory.
FilterConfig(item, locale) ==
    IF locale = NoLocale THEN Parse(item.parts)
    ELSE [ok |-> TRUE, config |-> [DefaultConfig EXCEPT !["locale"] = locale]]
FilterEntry(c) == [config |-> c, bits |-> Diff(DefaultConfig, c) \ {"sdk"}]
AllEntries(parsed) ==
    [ok |-> \A r \in parsed : r.ok, entries |-> {FilterEntry(r.config) : r \in parsed}]
WeakParse(items) == AllEntries({FilterConfig(item, FilterLocale(item.tags)) : item \in ToSet(items)})

ConfigMask(entries) == UNION {e.bits : e \in entries}

\* The bits of a configuration that an entry of the filter accounts for: all of its own, or the
\* one in which they differ when that is the country of a locale or a smaller width.
MatchedBits(e, c, off) ==
    CASE off = {} -> e.bits
      [] /\ off = {"locale"}
         /\ c["locale"][1] # "" /\ c["locale"][1] = e.config["locale"][1] /\ c["locale"][3] = "" -> off
      [] off = {"sw"} /\ c["sw"] # 0 /\ c["sw"] < e.config["sw"] -> off
      [] OTHER -> {}

WeakMatch(entries, c) ==
    LET common == ConfigMask(entries) \cap Diff(DefaultConfig, c)
    IN  common # {} => UNION {MatchedBits(e, c, Diff(e.config, c) \cap e.bits) : e \in entries} = common

\* The filters of the base APK, which is the first, and of the splits: what is asked for goes to
\* the split that names the configuration, and to the base when none does.
StrongMatch(configs, c) == c \in configs
ApkMatch(entries, splits, i, c) ==
    /\ WeakMatch(entries, c)
    /\ IF i = 1 THEN \A j \in DOMAIN splits : ~StrongMatch(splits[j], c)
       ELSE StrongMatch(splits[i - 1], c)
=============================================================================
