--------------------------- MODULE ApkWriterProofs ---------------------------
(***************************************************************************)
(* Theorems about ApkWriter and the archive under it, for all contents,    *)
(* output sets and arguments, and any number of processes and failures.    *)
(* Both properties follow from WriterInv, which says where every byte of   *)
(* the archive is between the methods of ZipFile and in the middle of them.*)
(***************************************************************************)
EXTENDS ApkWriter, SequenceTheorems, TLAPS

-----------------------------------------------------------------------------
(* Lists.                                                                  *)

\* A sequence, whatever its elements are.
IsList(q) == Len(q) \in Nat /\ q = [i \in 1..Len(q) |-> q[i]]

\* A list is a sequence of its own elements.
LEMMA ListIsSeq ==
  ASSUME NEW q, IsList(q), NEW T, \A i \in 1..Len(q) : q[i] \in T
  PROVE  q \in Seq(T)
<1>1. q \in [1..Len(q) -> T] /\ Len(q) \in Nat
  BY DEF IsList
<1> QED BY <1>1

\* A sequence is a list.
LEMMA SeqIsList ==
  ASSUME NEW T, NEW q \in Seq(T)
  PROVE  IsList(q)
  BY DEF IsList

\* A function on an initial segment is a list.
LEMMA FunctionIsList ==
  ASSUME NEW q, NEW n \in Nat, q = [i \in 1..n |-> q[i]]
  PROVE  IsList(q) /\ Len(q) = n
<1> DEFINE T == {q[i] : i \in 1..n}
<1>1. q \in [1..n -> T]
  OBVIOUS
<1> HIDE DEF T
<1>2. q \in Seq(T) /\ Len(q) = n
  BY <1>1
<1> QED BY <1>2 DEF IsList

\* Append.
LEMMA AppendList ==
  ASSUME NEW q, IsList(q), NEW e
  PROVE  /\ IsList(Append(q, e)) /\ Len(Append(q, e)) = Len(q) + 1
         /\ Append(q, e)[Len(q) + 1] = e
         /\ \A i \in 1..Len(q) : Append(q, e)[i] = q[i]
<1> DEFINE T == {q[i] : i \in 1..Len(q)} \cup {e}
<1>1. q \in Seq(T) /\ e \in T
  BY ListIsSeq
<1> HIDE DEF T
<1>2. Append(q, e) \in Seq(T) /\ Len(Append(q, e)) = Len(q) + 1
  BY <1>1
<1>3. Append(q, e)[Len(q) + 1] = e /\ \A i \in 1..Len(q) : Append(q, e)[i] = q[i]
  BY <1>1
<1>4. IsList(Append(q, e))
  BY <1>2, SeqIsList
<1> QED BY <1>2, <1>3, <1>4

\* s is q and r behind it.
IsConcat(s, q, r) ==
  /\ IsList(s) /\ Len(s) = Len(q) + Len(r)
  /\ \A i \in 1..Len(q) : s[i] = q[i]
  /\ \A i \in 1..Len(r) : s[Len(q) + i] = r[i]

\* Concatenation.
LEMMA ConcatList ==
  ASSUME NEW q, IsList(q), NEW r, IsList(r)
  PROVE  IsConcat(q \o r, q, r)
<1> DEFINE T == {q[i] : i \in 1..Len(q)} \cup {r[i] : i \in 1..Len(r)}
<1>1. q \in Seq(T) /\ r \in Seq(T)
  BY ListIsSeq
<1> HIDE DEF T
<1>2. q \o r \in Seq(T) /\ Len(q \o r) = Len(q) + Len(r)
  BY <1>1
<1>3. /\ \A i \in 1..Len(q) : (q \o r)[i] = q[i]
      /\ \A i \in 1..Len(r) : (q \o r)[Len(q) + i] = r[i]
  BY <1>1
<1>4. IsList(q \o r)
  BY <1>2, SeqIsList
<1> QED BY <1>2, <1>3, <1>4 DEF IsConcat

\* A part of a list.
LEMMA SubList ==
  ASSUME NEW q, IsList(q), NEW m \in Nat \ {0}, NEW n \in Nat, n <= Len(q), m <= n + 1
  PROVE  /\ IsList(SubSeq(q, m, n)) /\ Len(SubSeq(q, m, n)) = n - m + 1
         /\ \A i \in 1..(n - m + 1) : SubSeq(q, m, n)[i] = q[m + i - 1]
<1> DEFINE T == {q[i] : i \in 1..Len(q)}
<1>1. \A i \in m..n : q[i] \in T
  BY DEF IsList
<1> HIDE DEF T
<1>2. /\ SubSeq(q, m, n) \in Seq(T) /\ Len(SubSeq(q, m, n)) = IF m <= n THEN n - m + 1 ELSE 0
      /\ \A i \in 1..(n - m + 1) : SubSeq(q, m, n)[i] = q[m + i - 1]
  BY <1>1, SubSeqProperties
<1>3. IsList(SubSeq(q, m, n))
  BY <1>2, SeqIsList
<1> QED BY <1>2, <1>3

\* RemoveAt closes the gap.
LEMMA RemoveAtList ==
  ASSUME NEW q, IsList(q), NEW k \in 1..Len(q)
  PROVE  /\ IsList(RemoveAt(q, k)) /\ Len(RemoveAt(q, k)) = Len(q) - 1
         /\ \A i \in 1..(k - 1) : RemoveAt(q, k)[i] = q[i]
         /\ \A i \in k..(Len(q) - 1) : RemoveAt(q, k)[i] = q[i + 1]
<1> DEFINE a == SubSeq(q, 1, k - 1)
           b == SubSeq(q, k + 1, Len(q))
<1>0. Len(q) \in Nat /\ k \in Nat /\ 1 <= k /\ k <= Len(q)
  BY DEF IsList
<1>1. IsList(a) /\ Len(a) = k - 1 /\ \A i \in 1..(k - 1) : a[i] = q[i]
  <2>1. k - 1 \in Nat /\ 1 \in Nat \ {0} /\ k - 1 <= Len(q) /\ 1 <= (k - 1) + 1
    BY <1>0
  <2>2. /\ IsList(a) /\ Len(a) = (k - 1) - 1 + 1
        /\ \A i \in 1..((k - 1) - 1 + 1) : a[i] = q[1 + i - 1]
    BY <2>1, SubList
  <2> HIDE DEF a
  <2>3. (k - 1) - 1 + 1 = k - 1 /\ \A i \in 1..(k - 1) : 1 + i - 1 = i
    BY <1>0
  <2> QED BY <2>2, <2>3
<1>2. IsList(b) /\ Len(b) = Len(q) - k /\ \A i \in 1..(Len(q) - k) : b[i] = q[k + i]
  <2>1. k + 1 \in Nat \ {0} /\ Len(q) <= Len(q) /\ k + 1 <= Len(q) + 1
    BY <1>0
  <2>2. /\ IsList(b) /\ Len(b) = Len(q) - (k + 1) + 1
        /\ \A i \in 1..(Len(q) - (k + 1) + 1) : b[i] = q[(k + 1) + i - 1]
    BY <1>0, <2>1, SubList
  <2> HIDE DEF b
  <2>3. Len(q) - (k + 1) + 1 = Len(q) - k /\ \A i \in 1..(Len(q) - k) : (k + 1) + i - 1 = k + i
    BY <1>0
  <2> QED BY <2>2, <2>3
<1> HIDE DEF a, b
<1>3. /\ IsList(a \o b) /\ Len(a \o b) = Len(a) + Len(b)
      /\ \A i \in 1..Len(a) : (a \o b)[i] = a[i]
      /\ \A i \in 1..Len(b) : (a \o b)[Len(a) + i] = b[i]
  <2>1. IsList(a) /\ IsList(b)
    BY <1>1, <1>2
  <2>2. IsConcat(a \o b, a, b)
    BY <2>1, ConcatList
  <2> QED BY <2>2 DEF IsConcat
<1>4. \A i \in k..(Len(q) - 1) : (a \o b)[i] = q[i + 1]
  <2>1. TAKE i \in k..(Len(q) - 1)
  <2>2. PICK j : j = i - (k - 1)
    OBVIOUS
  <2>3. j \in 1..(Len(q) - k) /\ i = (k - 1) + j /\ k + j = i + 1
    BY <1>0, <2>2
  <2> QED BY <1>1, <1>2, <1>3, <2>3
<1>5. PICK r : r = a \o b
  OBVIOUS
<1>6. RemoveAt(q, k) = r
  BY <1>5 DEF RemoveAt, a, b
<1>7. IsList(r) /\ Len(r) = Len(q) - 1
  <2>1. IsList(r) /\ Len(r) = Len(a) + Len(b)
    BY <1>3, <1>5, Zenon
  <2> QED BY <1>0, <1>1, <1>2, <2>1
<1>8. \A i \in 1..(k - 1) : r[i] = q[i]
  BY <1>1, <1>3, <1>5
<1>9. \A i \in k..(Len(q) - 1) : r[i] = q[i + 1]
  BY <1>4, <1>5
<1> QED BY <1>6, <1>7, <1>8, <1>9

\* g is f after cells are written behind its first off cells.
Wrote(g, f, off, cells) ==
  /\ IsList(g)
  /\ Len(g) = IF off + Len(cells) <= Len(f) THEN Len(f) ELSE off + Len(cells)
  /\ \A i \in 1..off : g[i] = f[i]
  /\ \A i \in 1..Len(cells) : g[off + i] = cells[i]
  /\ \A i \in (off + Len(cells) + 1)..Len(f) : g[i] = f[i]

\* Writing into a file: the cells before and behind stay.
LEMMA WriteAtList ==
  ASSUME NEW f, IsList(f), NEW off \in Nat, off <= Len(f), NEW cells, IsList(cells)
  PROVE  Wrote(WriteAt(f, off, cells), f, off, cells)
<1> DEFINE g == WriteAt(f, off, cells)
           end == off + Len(cells)
           a == SubSeq(f, 1, off)
           b == SubSeq(f, end + 1, Len(f))
<1>0. Len(f) \in Nat /\ Len(cells) \in Nat /\ end \in Nat
  BY DEF IsList
<1>1. IsList(a) /\ Len(a) = off /\ \A i \in 1..off : a[i] = f[i]
  <2>1. 1 \in Nat \ {0} /\ 1 <= off + 1
    OBVIOUS
  <2>2. /\ IsList(a) /\ Len(a) = off - 1 + 1
        /\ \A i \in 1..(off - 1 + 1) : a[i] = f[1 + i - 1]
    BY <2>1, SubList
  <2> HIDE DEF a
  <2>3. off - 1 + 1 = off /\ \A i \in 1..off : 1 + i - 1 = i
    OBVIOUS
  <2> QED BY <2>2, <2>3
<1>2. /\ IsList(b) /\ Len(b) = IF end <= Len(f) THEN Len(f) - end ELSE 0
      /\ end <= Len(f) => \A i \in 1..(Len(f) - end) : b[i] = f[end + i]
  <2>1. CASE end <= Len(f)
    <3>1. end + 1 \in Nat \ {0} /\ Len(f) <= Len(f) /\ end + 1 <= Len(f) + 1
      BY <1>0, <2>1
    <3>2. /\ IsList(b) /\ Len(b) = Len(f) - (end + 1) + 1
          /\ \A i \in 1..(Len(f) - (end + 1) + 1) : b[i] = f[(end + 1) + i - 1]
      <4> HIDE DEF end
      <4> QED BY <1>0, <3>1, SubList
    <3> HIDE DEF b, end
    <3>3. /\ Len(f) - (end + 1) + 1 = Len(f) - end
          /\ \A i \in 1..(Len(f) - end) : (end + 1) + i - 1 = end + i
      BY <1>0
    <3> QED BY <2>1, <3>2, <3>3
  <2>2. CASE ~(end <= Len(f))
    <3>1. b = << >>
      <4>1. end + 1 \in Int /\ Len(f) \in Int /\ Len(f) < end + 1
        BY <1>0, <2>2
      <4> HIDE DEF end
      <4> QED BY <4>1, SubSeqEmpty
    <3>2. IsList(b) /\ Len(b) = 0
      <4>1. b \in Seq({0}) /\ Len(b) = 0
        BY <3>1
      <4> QED BY <4>1, SeqIsList
    <3> QED BY <2>2, <3>2
  <2> QED BY <2>1, <2>2
<1> HIDE DEF a, b
<1>3. /\ IsList(a \o cells) /\ Len(a \o cells) = end
      /\ \A i \in 1..off : (a \o cells)[i] = f[i]
      /\ \A i \in 1..Len(cells) : (a \o cells)[off + i] = cells[i]
  <2>1. /\ IsList(a \o cells) /\ Len(a \o cells) = Len(a) + Len(cells)
        /\ \A i \in 1..Len(a) : (a \o cells)[i] = a[i]
        /\ \A i \in 1..Len(cells) : (a \o cells)[Len(a) + i] = cells[i]
    <3>1. IsList(a) /\ IsList(cells)
      BY <1>1
    <3>2. IsConcat(a \o cells, a, cells)
      BY <3>1, ConcatList
    <3> QED BY <3>2 DEF IsConcat
  <2>2. PICK c : c = a \o cells
    OBVIOUS
  <2> QED BY <1>1, <2>1, <2>2
<1> HIDE DEF end
<1>4. /\ IsList((a \o cells) \o b) /\ Len((a \o cells) \o b) = end + Len(b)
      /\ \A i \in 1..end : ((a \o cells) \o b)[i] = (a \o cells)[i]
      /\ \A i \in 1..Len(b) : ((a \o cells) \o b)[end + i] = b[i]
  <2>1. PICK c : c = a \o cells
    OBVIOUS
  <2>2. IsList(c) /\ IsList(b) /\ Len(c) = end
    BY <1>2, <1>3, <2>1
  <2>3. /\ IsList(c \o b) /\ Len(c \o b) = Len(c) + Len(b)
        /\ \A i \in 1..Len(c) : (c \o b)[i] = c[i]
        /\ \A i \in 1..Len(b) : (c \o b)[Len(c) + i] = b[i]
    <3>1. IsConcat(c \o b, c, b)
      BY <2>2, ConcatList
    <3> QED BY <3>1 DEF IsConcat
  <2> QED BY <2>1, <2>2, <2>3
<1>5. g = (a \o cells) \o b
  BY DEF WriteAt, a, b, end
<1> HIDE DEF g
<1>6. end = off + Len(cells)
  BY DEF end
<1>7. IsList(g) /\ Len(g) = IF end <= Len(f) THEN Len(f) ELSE end
  BY <1>0, <1>2, <1>4, <1>5
<1>8. \A i \in 1..off : g[i] = f[i]
  BY <1>0, <1>3, <1>4, <1>5, <1>6
<1>9. \A i \in 1..Len(cells) : g[off + i] = cells[i]
  BY <1>0, <1>3, <1>4, <1>5, <1>6
<1>10. \A i \in (end + 1)..Len(f) : g[i] = f[i]
  <2>1. TAKE i \in (end + 1)..Len(f)
  <2>2. PICK j : j = i - end
    OBVIOUS
  <2>3. end <= Len(f) /\ j \in 1..(Len(f) - end) /\ i = end + j
    BY <1>0, <2>2
  <2> QED BY <1>2, <1>4, <1>5, <2>3
<1> QED BY <1>7, <1>8, <1>9, <1>10 DEF g, end, Wrote
-----------------------------------------------------------------------------
(* The invariant.                                                          *)

\* An entry has its fields and no others.
Plain(e) ==
  e = [name |-> e.name, off |-> e.off, method |-> e.method, crc |-> e.crc, len |-> e.len,
       mod |-> e.mod, deleted |-> e.deleted, marked |-> e.marked]
EntryList(es) == IsList(es) /\ \A i \in 1..Len(es) : Plain(es[i])
NamedOnce(es) ==
  \A i, j \in 1..Len(es) :
    i # j /\ es[i].name = es[j].name => es[i].deleted \/ es[j].deleted

\* What the command works on.
SourceInv ==
  /\ src \in [Names -> [ver : 0..MaxEdits, mod : Nat]]
  /\ outputs \in Seq(Output) /\ todo \in Seq(Output)
  /\ pc \in {"added", "specAdded"} => todo # << >>
  /\ NoClasses => \A i \in 1..Len(todo) : todo[i].kind # "class"

\* Where the command and the method are, and what the result is there.
PcInv ==
  /\ faults \in Nat /\ needRewrite \in BOOLEAN
  /\ op \in {"closed", "ready", "adding", "crunch", "central", "end"}
  /\ pc \in {"idle", "files", "added", "specAdded", "removed", "flushed", "close", "closing"}
  /\ pc = "idle" <=> op = "closed"
  /\ pc \in {"files", "added", "specAdded"} => op \in {"ready", "adding"}
  /\ pc \in {"idle", "removed", "flushed", "close", "closing"} => op # "adding"
  /\ pc = "removed" => op = "ready" /\ command = "remove"
  /\ pc = "specAdded" => command = "add"
  /\ pc \in {"files", "added", "specAdded", "flushed"} => result = "ok"
  /\ pc = "flushed" /\ op = "ready" /\ status = "ok" => ~needRewrite
  /\ Packaging /\ pc = "close" /\ result = "ok" => op = "ready" /\ ~needRewrite
  /\ Packaging /\ pc = "closing" => result # "ok"

\* What cur holds.
CurInv ==
  /\ op = "closed" => entries = << >>
  /\ op = "adding" =>
       /\ cur = [name |-> cur.name, v |-> cur.v, method |-> cur.method, when |-> cur.when,
                  head |-> cur.head]
       /\ cur.v \in Contents /\ cur.head \in {0, 1} /\ (cur.head = 0 => unreported)
       /\ pc = "files" => ~NoClasses
  /\ op = "crunch" =>
       /\ cur = [i |-> cur.i, adjust |-> cur.adjust, del |-> cur.del]
       /\ cur.i \in Nat \ {0}

\* No two live entries have a name, nor has one the name of the entry that is being added.
Listed == EntryList(entries) /\ NamedOnce(entries)
Free == op = "adding" => Found(entries, cur.name) = {}
UniqueInv == before.sound => Listed /\ Free

\* The entries that are not deleted are whole, and all are in order in front of the central
\* directory, or the place for it.
Kept(f, es) == \A i \in 1..Len(es) : ~es[i].deleted => Whole(f, es[i])
Placed(f, es, end) ==
  IsList(f) /\ end \in Nat /\ end <= Len(f) /\ InOrder(es, end) /\ Kept(f, es)
InPlace == Placed(file, entries, eocd.off) /\ eocd.num = Len(entries)

\* In a crunch the entries before the i-th are in their new place, the others where they were,
\* and what is free between them is adjust wide.
EndOf(e) == e.off + e.len
Shifted(es, end, i, adjust) ==
  /\ i <= Len(es) + 1 /\ adjust \in Nat
  /\ \A j \in 1..Len(es) : es[j].off \in Nat /\ es[j].len \in Nat
  /\ \A j \in 1..i - 1 : ~es[j].deleted
  /\ \A j \in 1..i - 1 : \A k \in j + 1..i - 1 : EndOf(es[j]) < es[k].off
  /\ \A j \in 1..i - 1 : \A k \in i..Len(es) + 1 : EndOf(es[j]) < Border(es, end, k) - adjust
  /\ \A j \in i..Len(es) : \A k \in j + 1..Len(es) + 1 : EndOf(es[j]) < Border(es, end, k)
  /\ \A k \in i..Len(es) + 1 : adjust <= Border(es, end, k)
Crunching ==
  /\ IsList(file) /\ eocd.off \in Nat /\ eocd.off <= Len(file)
  /\ cur.del \in Nat /\ eocd.num = Len(entries) + cur.del
  /\ Shifted(entries, eocd.off, cur.i, cur.adjust)
  /\ Kept(file, entries)

\* Behind the crunch nothing is deleted, and then the CDEs are behind the entries.
AllLive == \A i \in 1..Len(entries) : ~entries[i].deleted
DirectoryBehind ==
  /\ eocd.off + Len(entries) <= Len(file)
  /\ \A i \in 1..Len(entries) : file[eocd.off + i] = Cde(entries[i])

\* The command can still report success, and everything it was told is true.
Sane ==
  /\ Trusted /\ before.opened /\ pc # "idle" /\ result = "ok"
  /\ ~(pc \in {"added", "flushed"} /\ op = "ready" /\ status # "ok")

\* The archive between and inside the methods of ZipFile.
Layout ==
  /\ op = "ready" =>
       /\ InPlace
       /\ ~needRewrite => file = NoFile \/ Sound(file)
       /\ pc = "closing" => ~needRewrite
  /\ op = "adding" => InPlace /\ needRewrite /\ eocd.off + 1 <= Len(file)
  /\ op = "crunch" => Crunching
  /\ op \in {"central", "end"} => InPlace /\ AllLive
  /\ op = "end" => DirectoryBehind
LayInv == Sane => Layout

WriterInv == SourceInv /\ PcInv /\ CurInv /\ UniqueInv /\ LayInv /\ SuccessIsSound

\* Initially.
LEMMA WriterInit ==
  Init => WriterInv
<1> SUFFICES ASSUME Init PROVE WriterInv
  OBVIOUS
<1> USE DEF Init, ZipInit
<1>1. SourceInv
  <2>1. \A s \in Names : [ver |-> 0, mod |-> 1] \in [ver : 0..MaxEdits, mod : Nat]
    BY WriterAssumption
  <2> QED BY <2>1 DEF SourceInv
<1>2. PcInv
  BY DEF PcInv, Packaging
<1>3. CurInv
  BY DEF CurInv
<1>4. UniqueInv
  <2>1. entries \in Seq({0}) /\ Len(entries) = 0
    OBVIOUS
  <2>2. IsList(entries)
    BY <2>1, SeqIsList
  <2>3. EntryList(entries) /\ NamedOnce(entries)
    BY <2>1, <2>2 DEF EntryList, NamedOnce
  <2> QED BY <2>3 DEF UniqueInv, Listed, Free
<1>5. LayInv
  BY DEF LayInv, Sane
<1>6. SuccessIsSound
  BY DEF SuccessIsSound, Reports
<1> QED BY <1>1, <1>2, <1>3, <1>4, <1>5, <1>6 DEF WriterInv

\* The sources and what is asked of the command.
LEMMA SourceStep ==
  SourceInv /\ [Next]_vars => SourceInv'
<1> SUFFICES ASSUME SourceInv, [Next]_vars PROVE SourceInv'
  OBVIOUS
<1> USE DEF SourceInv
<1>1. ASSUME NEW s \in Names, NEW t \in 1..MaxClock, Edit(s, t) PROVE SourceInv'
  <2>1. src[s].ver + 1 \in 0..MaxEdits /\ t \in Nat
    BY <1>1, WriterAssumption DEF Edit
  <2>2. src' \in [Names -> [ver : 0..MaxEdits, mod : Nat]]
    BY <1>1, <2>1 DEF Edit
  <2> QED BY <1>1, <2>2 DEF Edit, NoClasses
<1>2. ASSUME NEW cmd, NEW outs \in Seq(Output), Begin(cmd, outs) PROVE SourceInv'
  BY <1>2 DEF Begin, NoClasses
<1>3. ASSUME NEW outs \in OutputSets, NEW jars \in JarLists PROVE outs \o jars \in Seq(Output)
  BY <1>3, WriterAssumption
<1>4. ASSUME NEW outs \in FileSpecs PROVE outs \in Seq(Output)
  BY <1>4, WriterAssumption
<1>5. ASSUME UNCHANGED <<src, outputs>>, todo' = todo \/ todo' = << >>,
             pc' \in {"added", "specAdded"} => todo' # << >>
      PROVE  SourceInv'
  <2>1. << >> \in Seq(Output)
    OBVIOUS
  <2>2. todo' \in Seq(Output)
    BY <1>5, <2>1
  <2>3. src' \in [Names -> [ver : 0..MaxEdits, mod : Nat]] /\ outputs' \in Seq(Output)
    BY <1>5
  <2>4. pc' \in {"added", "specAdded"} => todo' # << >>
    BY <1>5
  <2>5. NoClasses' => \A i \in 1..Len(todo') : todo'[i].kind # "class"
    BY <1>5 DEF NoClasses
  <2> QED BY <2>2, <2>3, <2>4, <2>5
<1>6. ASSUME UNCHANGED <<src, outputs>>, todo # << >>, todo' = Tail(todo),
             pc' \notin {"added", "specAdded"}
      PROVE  SourceInv'
  <2>1. /\ Tail(todo) \in Seq(Output) /\ Len(Tail(todo)) = Len(todo) - 1
        /\ \A i \in 1..Len(Tail(todo)) : Tail(todo)[i] = todo[i + 1] /\ i + 1 \in 1..Len(todo)
    BY <1>6, HeadTailProperties
  <2>2. NoClasses' => \A i \in 1..Len(todo') : todo'[i].kind # "class"
    BY <1>6, <2>1 DEF NoClasses
  <2> QED BY <1>6, <2>1, <2>2
<1>7. CASE Kill
  BY <1>7, <1>5 DEF Kill
<1>8. CASE ProcessFile
  <2>1. /\ UNCHANGED <<src, outputs>> /\ todo # << >>
        /\ \/ pc' \in {"added", "close"} /\ (todo' = todo \/ (pc' = "close" /\ todo' = << >>))
           \/ pc' = "files" /\ todo' = Tail(todo)
    BY <1>8 DEF ProcessFile, AddOutput, Done, Goes
  <2> QED BY <1>5, <1>6, <2>1
<1>9. CASE Added
  BY <1>9, <1>5, <1>6 DEF Added, Done, Goes
<1>10. CASE ProcessClass
  BY <1>10, <1>5, <1>6 DEF ProcessClass, Done, Goes
<1>11. CASE CruftAndFlush \/ Flushed \/ AddSpec \/ RemoveSpecs \/ RemoveFlush \/ SpecsDone
  BY <1>11, <1>5 DEF CruftAndFlush, Flushed, AddSpec, RemoveSpecs, RemoveFlush, SpecsDone, Goes
<1>12. CASE SpecAdded
  BY <1>12, <1>5, <1>6 DEF SpecAdded, Done, Goes
<1>13. CASE DestructorFlush \/ Bail \/ ZipSteps
  BY <1>13, <1>5 DEF DestructorFlush, Bail, ZipSteps, Goes
<1>14. CASE UNCHANGED vars
  BY <1>14 DEF vars, NoClasses
<1> QED BY <1>1, <1>2, <1>3, <1>4, <1>7, <1>8, <1>9, <1>10, <1>11, <1>12, <1>13, <1>14 DEF Next

\* processFile gives up on a name that it met before, or on the time of a source.
FileFails ==
  /\ todo' = << >> /\ result' = "error" /\ Goes("close") /\ (NoIOError \/ Reported)
  /\ UNCHANGED <<file, entries, eocd, needRewrite, op, cur, status>>

\* The alternatives of processFile.
LEMMA ProcessFileCases ==
  ASSUME ProcessFile
  PROVE  /\ pc = "files" /\ op = "ready" /\ Packaging /\ todo # << >>
         /\ \/ Touch(entries) /\ Done("files")
            \/ FileFails
            \/ /\ Found(entries, Head(todo).name) # {} /\ Done("files")
               /\ Touch(SetMarked(entries, EntryByName(entries, Head(todo).name)))
            \/ /\ Found(entries, Head(todo).name) # {}
               /\ AddOutput(SetDeleted(entries, EntryByName(entries, Head(todo).name)),
                            Head(todo))
            \/ AddOutput(entries, Head(todo))
<1>1. pc = "files" /\ op = "ready" /\ Packaging /\ todo # << >>
  BY DEF ProcessFile
<1>2. \/ Touch(entries) /\ Done("files")
      \/ FileFails
      \/ /\ Found(entries, Head(todo).name) # {} /\ Done("files")
         /\ Touch(SetMarked(entries, EntryByName(entries, Head(todo).name)))
      \/ /\ Found(entries, Head(todo).name) # {}
         /\ AddOutput(SetDeleted(entries, EntryByName(entries, Head(todo).name)),
                      Head(todo))
      \/ AddOutput(entries, Head(todo))
  BY Zenon DEF ProcessFile, FileFails
<1> QED BY <1>1, <1>2

\* What adding an output comes to.
LEMMA AddOutputCases ==
  ASSUME NEW es, NEW o, AddOutput(es, o)
  PROVE  /\ UNCHANGED <<todo, result>> /\ Goes("added")
         /\ \/ \E when : AddBegin(es, o.name, Content(o.src), o.method, when)
            \/ AddRefused(es, o.name)
BY Zenon DEF AddOutput

\* What starts to be added has a content.
LEMMA HeadContent ==
  ASSUME SourceInv, todo # << >>
  PROVE  Content(Head(todo).src) \in Contents
<1>1. Head(todo) \in Output
  BY DEF SourceInv
<1>2. Head(todo).src \in Names /\ src[Head(todo).src].ver \in 0..MaxEdits
  BY <1>1 DEF Output, SourceInv
<1> QED BY <1>2, WriterAssumption DEF Content

\* What both ways to start an addition do to the control.
LEMMA AddEffect ==
  ASSUME NEW es, NEW name, NEW v, NEW method, NEW when, faults \in Nat, needRewrite \in BOOLEAN,
         AddBegin(es, name, v, method, when) \/ AddRefused(es, name)
  PROVE  /\ op = "ready" /\ op' \in {"ready", "adding"}
         /\ faults' \in Nat /\ needRewrite' \in BOOLEAN /\ entries' = es
<1>1. CASE AddBegin(es, name, v, method, when)
  BY <1>1 DEF AddBegin, NoIOError, Unreported, IOError
<1>2. CASE AddRefused(es, name)
  BY <1>2 DEF AddRefused, NoIOError, Reported, IOError
<1> QED BY <1>1, <1>2

\* The control of the command.
LEMMA PcStep ==
  PcInv /\ [Next]_vars => PcInv'
<1> SUFFICES ASSUME PcInv, [Next]_vars PROVE PcInv'
  OBVIOUS
<1> USE DEF PcInv, Packaging, NoIOError, Reported, Unreported, IOError, Goes, Done
<1>1. ASSUME NEW s \in Names, NEW t \in 1..MaxClock, Edit(s, t) PROVE PcInv'
  BY <1>1 DEF Edit, zipVars
<1>2. ASSUME NEW cmd \in {"update", "force", "plain", "add", "remove"}, NEW outs,
             Begin(cmd, outs)
      PROVE  PcInv'
  <2>1. CASE /\ pc' = "idle" /\ UNCHANGED zipVars
    BY <1>2, <2>1 DEF Begin, zipVars
  <2>2. CASE \E f : /\ Open(f) /\ op' = "ready"
                    /\ \/ pc' = "files" /\ result' = "ok"
                       \/ /\ pc' = "close" /\ f # NoFile
    BY <1>2, <2>2 DEF Begin, Open
  <2>3. \/ pc' = "idle" /\ UNCHANGED zipVars
        \/ \E f : /\ Open(f) /\ op' = "ready"
                  /\ \/ pc' = "files" /\ result' = "ok"
                     \/ /\ pc' = "close" /\ f # NoFile
    BY <1>2, Zenon DEF Begin, Open
  <2> QED BY <2>1, <2>2, <2>3
<1>3. CASE Kill
  BY <1>3 DEF Kill, ZipKilled, Close
<1>4. ASSUME NEW es, NEW o, AddOutput(es, o), pc = "files", op = "ready" PROVE PcInv'
  <2>1. pc' = "added" /\ UNCHANGED <<result, command>>
    BY <1>4, AddOutputCases
  <2>2. op' \in {"ready", "adding"} /\ faults' \in Nat /\ needRewrite' \in BOOLEAN
    BY <1>4, AddOutputCases, AddEffect
  <2> QED BY <1>4, <2>1, <2>2
<1>5. CASE ProcessFile
  BY <1>4, <1>5, ProcessFileCases DEF Touch, FileFails
<1>6. CASE Added
  BY <1>6 DEF Added, Touch, zipVars
<1>7. CASE ProcessClass
  <2>1. CASE /\ pc' = "files" /\ UNCHANGED <<result, command>> /\ op' \in {"ready", "adding"}
             /\ faults' \in Nat /\ needRewrite' \in BOOLEAN
    BY <1>7, <2>1 DEF ProcessClass
  <2>2. CASE /\ pc' = "close" /\ result' = "error" /\ UNCHANGED <<op, command, needRewrite>>
             /\ faults' \in Nat
    BY <1>7, <2>2 DEF ProcessClass
  <2>3. CASE /\ \E when : AddBegin(entries, Head(todo).name, Content(Head(todo).src),
                                   Head(todo).method, when)
             /\ Done("files")
    BY <2>1, <2>3, AddEffect
  <2>4. CASE AddRefused(entries, Head(todo).name) /\ Done("files")
    BY <2>1, <2>4, AddEffect
  <2>5. CASE result' = "error" /\ Goes("close") /\ Reported /\ UNCHANGED <<op, needRewrite>>
    BY <2>2, <2>5
  <2>6. \/ /\ \E when : AddBegin(entries, Head(todo).name, Content(Head(todo).src),
                                Head(todo).method, when)
           /\ Done("files")
        \/ AddRefused(entries, Head(todo).name) /\ Done("files")
        \/ result' = "error" /\ Goes("close") /\ Reported /\ UNCHANGED <<op, needRewrite>>
    BY <1>7, Zenon DEF ProcessClass
  <2> QED BY <2>3, <2>4, <2>5, <2>6
<1>8. CASE CruftAndFlush
  BY <1>8 DEF CruftAndFlush, FlushBegin
<1>9. CASE Flushed
  BY <1>9 DEF Flushed, Close, zipVars
<1>10. CASE AddSpec
  <2>1. /\ \/ AddBegin(entries, Head(todo).name, Content(Head(todo).src), Head(todo).method,
                       src[Head(todo).src].mod)
           \/ AddRefused(entries, Head(todo).name)
        /\ pc' = "specAdded" /\ UNCHANGED <<result, command>> /\ command = "add" /\ pc = "files"
    BY <1>10 DEF AddSpec
  <2>2. op = "ready" /\ op' \in {"ready", "adding"} /\ faults' \in Nat /\ needRewrite' \in BOOLEAN
    BY <2>1, AddEffect
  <2> QED BY <2>1, <2>2
<1>11. CASE SpecAdded
  BY <1>11 DEF SpecAdded, zipVars
<1>12. CASE RemoveSpecs
  BY <1>12 DEF RemoveSpecs
<1>13. CASE RemoveFlush
  BY <1>13 DEF RemoveFlush, FlushBegin, zipVars
<1>14. CASE SpecsDone
  BY <1>14 DEF SpecsDone, zipVars
<1>15. CASE DestructorFlush
  BY <1>15 DEF DestructorFlush, FlushBegin
<1>16. CASE Bail
  BY <1>16 DEF Bail, Close
<1>17. CASE ZipSteps
  <2> USE DEF ZipSteps
  <2>a. ASSUME NEW f, NEW n, NEW method, AddData(f, n, method)
        PROVE  op' = "ready" /\ (faults' = faults \/ faults' = faults + 1)
    BY <2>a DEF AddData, AddEnd, AddBlank, AddLost, AddEntry
  <2>1. CASE AddDeflated
    <3>1. /\ op = "adding" /\ op' = "ready" /\ UNCHANGED needRewrite
          /\ faults' = faults \/ faults' = faults + 1
      BY <2>1, <2>a, Zenon DEF AddDeflated, Store, AddFails, AddEnd, AddEntry
    <3> QED BY <1>17, <3>1
  <2>2. CASE AddStored
    <3>1. /\ op = "adding" /\ op' = "ready" /\ UNCHANGED needRewrite
          /\ faults' = faults \/ faults' = faults + 1
      BY <2>2, <2>a, Zenon DEF AddStored, Store, AddFails
    <3> QED BY <1>17, <3>1
  <2>3. CASE AddGzip
    <3>1. /\ op = "adding" /\ op' = "ready" /\ UNCHANGED needRewrite
          /\ faults' = faults \/ faults' = faults + 1
      BY <2>3, <2>a, Zenon DEF AddGzip, AddFails
    <3> QED BY <1>17, <3>1
  <2>4. CASE CrunchDeleted
    BY <1>17, <2>4 DEF CrunchDeleted
  <2>5. CASE CrunchMove
    BY <1>17, <2>5 DEF CrunchMove
  <2>6. CASE CrunchDone
    BY <1>17, <2>6 DEF CrunchDone
  <2>7. CASE WriteCentralDir
    <3>1. /\ op = "central"
          /\ faults' = faults \/ faults' = faults + 1
          /\ \/ op' = "end" /\ UNCHANGED <<needRewrite, status>>
             \/ op' = "ready" /\ ~needRewrite' /\ needRewrite' \in BOOLEAN
             \/ op' = "ready" /\ status' = "error" /\ UNCHANGED needRewrite
      BY <2>7, Zenon DEF WriteCentralDir
    <3> QED BY <1>17, <3>1
  <2>8. CASE WriteEocd
    <3>1. /\ op = "end"
          /\ faults' = faults \/ faults' = faults + 1
          /\ op' = "ready" /\ ~needRewrite' /\ needRewrite' \in BOOLEAN
      BY <2>8, Zenon DEF WriteEocd
    <3> QED BY <1>17, <3>1
  <2> QED BY <1>17, <2>1, <2>2, <2>3, <2>4, <2>5, <2>6, <2>7, <2>8 DEF ZipStep
<1>18. CASE UNCHANGED vars
  BY <1>18 DEF vars, zipVars
<1> QED BY <1>1, <1>2, <1>3, <1>5, <1>6, <1>7, <1>8, <1>9, <1>10, <1>11, <1>12, <1>13, <1>14,
           <1>15, <1>16, <1>17, <1>18 DEF Next

\* Starting an addition sets cur.
LEMMA AddBeginCur ==
  ASSUME NEW es, NEW name, NEW v \in Contents, NEW method, NEW when,
         AddBegin(es, name, v, method, when) \/ (AddRefused(es, name) /\ op = "ready"),
         pc' = "files" => ~NoClasses'
  PROVE  CurInv'
<1>1. CASE AddBegin(es, name, v, method, when)
  BY <1>1 DEF AddBegin, CurInv, Unreported
<1>2. CASE AddRefused(es, name)
  BY <1>2 DEF AddRefused, CurInv
<1> QED BY <1>1, <1>2

\* The current entry and the current crunch.
LEMMA CurStep ==
  SourceInv /\ PcInv /\ CurInv /\ [Next]_vars => CurInv'
<1> SUFFICES ASSUME SourceInv, PcInv, CurInv, [Next]_vars PROVE CurInv'
  OBVIOUS
<1>a. ASSUME op' \in {"ready", "central", "end"} PROVE CurInv'
  BY <1>a DEF CurInv
<1>b. ASSUME Close PROVE CurInv'
  BY <1>b DEF CurInv, Close
<1>c. ASSUME UNCHANGED zipVars, op # "adding" \/ UNCHANGED <<pc, outputs>> PROVE CurInv'
  BY <1>c DEF CurInv, zipVars, NoClasses
<1>d. ASSUME FlushBegin PROVE CurInv'
  BY <1>d DEF CurInv, FlushBegin
<1>1. ASSUME NEW s \in Names, NEW t \in 1..MaxClock, Edit(s, t) PROVE CurInv'
  BY <1>1, <1>c DEF Edit, PcInv
<1>2. ASSUME NEW cmd \in {"update", "force", "plain", "add", "remove"}, NEW outs,
             Begin(cmd, outs)
      PROVE  CurInv'
  <2>1. (UNCHANGED zipVars \/ \E f : Open(f)) /\ pc = "idle"
    BY <1>2, Zenon DEF Begin
  <2>3. op # "adding"
    BY <2>1 DEF PcInv
  <2>2. ASSUME NEW f, Open(f) PROVE op' = "ready"
    BY <2>2 DEF Open
  <2> QED BY <1>a, <1>c, <2>1, <2>2, <2>3
<1>3. CASE Kill
  BY <1>3, <1>b DEF Kill, ZipKilled
<1>4. ASSUME todo # << >>, NEW es, AddOutput(es, Head(todo)), op = "ready" PROVE CurInv'
  <2>1. Content(Head(todo).src) \in Contents
    BY <1>4, HeadContent
  <2>2. pc' = "added"
    BY <1>4, AddOutputCases DEF Goes
  <2> QED BY <1>4, <2>1, <2>2, AddOutputCases, AddBeginCur
<1>5. CASE ProcessFile
  BY <1>4, <1>5, <1>a, ProcessFileCases DEF Touch, FileFails
<1>6. CASE Added
  BY <1>6, <1>a, <1>c DEF Added, Touch
<1>7. CASE ProcessClass
  <2>1. Content(Head(todo).src) \in Contents
    BY <1>7, HeadContent DEF ProcessClass
  <2>2. /\ op = "ready"
        /\ \/ \E when : AddBegin(entries, Head(todo).name, Content(Head(todo).src),
                                Head(todo).method, when)
           \/ AddRefused(entries, Head(todo).name)
           \/ op' = "ready"
    BY <1>7, Zenon DEF ProcessClass
  <2>3. Head(todo).kind = "class" /\ Head(todo) = todo[1] /\ 1 \in 1..Len(todo)
    BY <1>7 DEF ProcessClass, SourceInv
  <2>4. ~NoClasses'
    BY <1>7, <2>3, Zenon DEF ProcessClass, SourceInv, NoClasses, Goes, Done
  <2> QED BY <2>1, <2>2, <2>4, <1>a, AddBeginCur
<1>8. CASE CruftAndFlush
  BY <1>8, <1>a, <1>d DEF CruftAndFlush
<1>9. CASE Flushed
  BY <1>9, <1>b, <1>c DEF Flushed
<1>10. CASE AddSpec
  <2>1. Content(Head(todo).src) \in Contents
    BY <1>10, HeadContent DEF AddSpec
  <2>2. pc' = "specAdded"
    BY <1>10 DEF AddSpec, Goes
  <2> QED BY <1>10, <2>1, <2>2, AddBeginCur DEF AddSpec
<1>11. CASE SpecAdded \/ SpecsDone
  BY <1>11, <1>c DEF SpecAdded, SpecsDone
<1>12. CASE RemoveSpecs
  BY <1>12, <1>a DEF RemoveSpecs
<1>13. CASE RemoveFlush
  BY <1>13, <1>c, <1>d DEF RemoveFlush
<1>15. CASE DestructorFlush
  BY <1>15, <1>d DEF DestructorFlush
<1>16. CASE Bail
  BY <1>16, <1>b DEF Bail
<1>17. CASE ZipSteps
  <2>1. CASE AddDeflated \/ AddStored \/ AddGzip
    <3>1. op' = "ready"
      BY <2>1, Zenon DEF AddDeflated, AddStored, AddGzip, Store, AddFails, AddData, AddEnd,
                         AddBlank, AddLost, AddEntry
    <3> QED BY <3>1, <1>a
  <2>4. CASE CrunchDeleted
    BY <2>4 DEF CrunchDeleted, CurInv
  <2>5. CASE CrunchMove
    <3>1. \/ op = "crunch" /\ UNCHANGED op /\ cur' = [cur EXCEPT !.i = @ + 1]
          \/ op' = "ready"
      BY <2>5 DEF CrunchMove
    <3> QED BY <3>1, <1>a DEF CurInv
  <2>6. CASE CrunchDone
    BY <2>6, <1>a DEF CrunchDone
  <2>7. CASE WriteCentralDir \/ WriteEocd
    <3>1. op' \in {"ready", "end"}
      BY <2>7, Zenon DEF WriteCentralDir, WriteEocd
    <3> QED BY <3>1, <1>a
  <2> QED BY <1>17, <2>1, <2>4, <2>5, <2>6, <2>7 DEF ZipStep, ZipSteps
<1>18. CASE UNCHANGED vars
  BY <1>18, <1>c DEF vars
<1> QED BY <1>1, <1>2, <1>3, <1>5, <1>6, <1>7, <1>8, <1>9, <1>10, <1>11, <1>12, <1>13,
           <1>15, <1>16, <1>17, <1>18 DEF Next

-----------------------------------------------------------------------------
(* Lists of entries.                                                       *)

\* The domain of a list.
LEMMA ListDomain ==
  ASSUME NEW q, IsList(q)
  PROVE  DOMAIN q = 1..Len(q)
BY DEF IsList

\* r is q with another element in one place.
IsReplaced(r, q, i, x) ==
  IsList(r) /\ Len(r) = Len(q) /\ r[i] = x /\ \A j \in 1..Len(q) : j # i => r[j] = q[j]

\* Another element at a place of a list.
LEMMA ReplaceList ==
  ASSUME NEW q, IsList(q), NEW i \in 1..Len(q), NEW x
  PROVE  IsReplaced([q EXCEPT ![i] = x], q, i, x)
<1>1. DOMAIN q = 1..Len(q) /\ Len(q) \in Nat
  BY ListDomain DEF IsList
<1>2. PICK r : r = [q EXCEPT ![i] = x]
  OBVIOUS
<1>3. r = [j \in 1..Len(q) |-> r[j]]
  BY <1>1, <1>2
<1>4. IsList(r) /\ Len(r) = Len(q)
  BY <1>1, <1>3, FunctionIsList
<1>5. r[i] = x /\ \A j \in 1..Len(q) : j # i => r[j] = q[j]
  BY <1>1, <1>2
<1> QED BY <1>2, <1>4, <1>5 DEF IsReplaced

\* ds are the entries of es, some of them now deleted, with any marks.
Thinned(ds, es) ==
  /\ EntryList(ds) /\ Len(ds) = Len(es)
  /\ \A i \in 1..Len(es) :
       /\ ds[i].name = es[i].name /\ ds[i].off = es[i].off /\ ds[i].method = es[i].method
       /\ ds[i].crc = es[i].crc /\ ds[i].len = es[i].len /\ ds[i].mod = es[i].mod
       /\ es[i].deleted => ds[i].deleted

\* The list itself.
LEMMA ThinnedSelf ==
  ASSUME NEW es, EntryList(es)
  PROVE  Thinned(es, es)
BY DEF Thinned

\* Marking an entry.
LEMMA MarkedThinned ==
  ASSUME NEW es, EntryList(es), NEW i \in 1..Len(es)
  PROVE  Thinned(SetMarked(es, i), es)
<1>1. PICK x : x = [es[i] EXCEPT !.marked = TRUE]
  OBVIOUS
<1>2. /\ Plain(x) /\ x.name = es[i].name /\ x.off = es[i].off /\ x.method = es[i].method
      /\ x.crc = es[i].crc /\ x.len = es[i].len /\ x.mod = es[i].mod
      /\ x.deleted = es[i].deleted
  <2>1. Plain(es[i])
    BY DEF EntryList
  <2> QED BY <1>1, <2>1 DEF Plain
<1>3. PICK ds : ds = [es EXCEPT ![i] = x]
  OBVIOUS
<1>4. /\ IsList(ds) /\ Len(ds) = Len(es) /\ ds[i] = x
      /\ \A j \in 1..Len(es) : j # i => ds[j] = es[j]
  <2>1. IsReplaced([es EXCEPT ![i] = x], es, i, x)
    BY ReplaceList DEF EntryList
  <2> QED BY <1>3, <2>1 DEF IsReplaced
<1>5. SetMarked(es, i) = ds
  BY <1>1, <1>3 DEF SetMarked
<1>6. EntryList(ds)
  BY <1>2, <1>4 DEF EntryList
<1>7. Thinned(ds, es)
  BY <1>2, <1>4, <1>6 DEF Thinned
<1> QED BY <1>5, <1>7

\* Deleting an entry.
LEMMA DeletedThinned ==
  ASSUME NEW es, EntryList(es), NEW i \in 1..Len(es)
  PROVE  Thinned(SetDeleted(es, i), es)
<1>1. PICK x : x = [es[i] EXCEPT !.deleted = TRUE]
  OBVIOUS
<1>2. /\ Plain(x) /\ x.name = es[i].name /\ x.off = es[i].off /\ x.method = es[i].method
      /\ x.crc = es[i].crc /\ x.len = es[i].len /\ x.mod = es[i].mod /\ x.deleted
  <2>1. Plain(es[i])
    BY DEF EntryList
  <2> QED BY <1>1, <2>1 DEF Plain
<1>3. PICK ds : ds = [es EXCEPT ![i] = x]
  OBVIOUS
<1>4. /\ IsList(ds) /\ Len(ds) = Len(es) /\ ds[i] = x
      /\ \A j \in 1..Len(es) : j # i => ds[j] = es[j]
  <2>1. IsReplaced([es EXCEPT ![i] = x], es, i, x)
    BY ReplaceList DEF EntryList
  <2> QED BY <1>3, <2>1 DEF IsReplaced
<1>5. SetDeleted(es, i) = ds
  BY <1>1, <1>3 DEF SetDeleted
<1>6. EntryList(ds)
  BY <1>2, <1>4 DEF EntryList
<1>7. Thinned(ds, es)
  BY <1>2, <1>4, <1>6 DEF Thinned
<1> QED BY <1>5, <1>7

\* Deleting a set of entries, as remove does.
LEMMA SetThinned ==
  ASSUME NEW es, EntryList(es), NEW S
  PROVE  Thinned([i \in DOMAIN es |-> IF i \in S THEN [es[i] EXCEPT !.deleted = TRUE] ELSE es[i]],
                 es)
<1>1. PICK ds : ds = [i \in DOMAIN es |-> IF i \in S THEN [es[i] EXCEPT !.deleted = TRUE]
                                          ELSE es[i]]
  OBVIOUS
<1>2. DOMAIN es = 1..Len(es) /\ Len(es) \in Nat
  BY ListDomain DEF EntryList, IsList
<1>3. ds = [i \in 1..Len(es) |-> ds[i]]
  BY <1>1, <1>2
<1>4. IsList(ds) /\ Len(ds) = Len(es)
  BY <1>2, <1>3, FunctionIsList
<1>5. ASSUME NEW i \in 1..Len(es)
      PROVE  /\ Plain(ds[i]) /\ ds[i].name = es[i].name /\ ds[i].off = es[i].off
             /\ ds[i].method = es[i].method /\ ds[i].crc = es[i].crc /\ ds[i].len = es[i].len
             /\ ds[i].mod = es[i].mod /\ (es[i].deleted => ds[i].deleted)
  <2>1. ds[i] = IF i \in S THEN [es[i] EXCEPT !.deleted = TRUE] ELSE es[i]
    BY <1>1, <1>2
  <2> QED BY <2>1 DEF EntryList, Plain
<1>6. Thinned(ds, es)
  BY <1>4, <1>5 DEF Thinned, EntryList
<1> QED BY <1>1, <1>6

\* What is thinned still names nothing twice.
LEMMA ThinnedNamed ==
  ASSUME NEW es, NEW ds, Thinned(ds, es), NamedOnce(es)
  PROVE  NamedOnce(ds)
BY DEF Thinned, NamedOnce

\* Adding an entry whose name is free.
LEMMA AppendEntry ==
  ASSUME NEW es, EntryList(es), NamedOnce(es), NEW e, Plain(e), Found(es, e.name) = {}
  PROVE  EntryList(Append(es, e)) /\ NamedOnce(Append(es, e))
<1>1. PICK ds : ds = Append(es, e)
  OBVIOUS
<1>2. /\ IsList(ds) /\ Len(ds) = Len(es) + 1 /\ ds[Len(es) + 1] = e
      /\ \A i \in 1..Len(es) : ds[i] = es[i]
  BY <1>1, AppendList DEF EntryList
<1>3. Len(es) \in Nat
  BY DEF EntryList, IsList
<1>4. EntryList(ds)
  BY <1>2, <1>3 DEF EntryList
<1>5. \A i \in 1..Len(es) : es[i].name = e.name => es[i].deleted
  BY ListDomain DEF Found, EntryList
<1>6. NamedOnce(ds)
  BY <1>2, <1>3, <1>5 DEF NamedOnce
<1> QED BY <1>1, <1>4, <1>6

\* Taking an entry out.
LEMMA RemoveEntry ==
  ASSUME NEW es, EntryList(es), NamedOnce(es), NEW k \in 1..Len(es)
  PROVE  EntryList(RemoveAt(es, k)) /\ NamedOnce(RemoveAt(es, k))
<1>1. PICK ds : ds = RemoveAt(es, k)
  OBVIOUS
<1>2. /\ IsList(ds) /\ Len(ds) = Len(es) - 1
      /\ \A i \in 1..(k - 1) : ds[i] = es[i]
      /\ \A i \in k..(Len(es) - 1) : ds[i] = es[i + 1]
  BY <1>1, RemoveAtList DEF EntryList
<1>3. Len(es) \in Nat
  BY DEF EntryList, IsList
<1>4. \A i \in 1..Len(ds) : \/ i \in 1..(k - 1) /\ ds[i] = es[i] /\ i \in 1..Len(es)
                            \/ i \in k..(Len(es) - 1) /\ ds[i] = es[i + 1] /\ i + 1 \in 1..Len(es)
  BY <1>2, <1>3
<1>5. EntryList(ds)
  BY <1>2, <1>4 DEF EntryList
<1>6. ASSUME NEW i \in 1..Len(ds), NEW j \in 1..Len(ds), i # j, ds[i].name = ds[j].name
      PROVE  ds[i].deleted \/ ds[j].deleted
  <2>1. PICK a \in 1..Len(es) : ds[i] = es[a] /\ a = IF i < k THEN i ELSE i + 1
    BY <1>3, <1>4
  <2>2. PICK b \in 1..Len(es) : ds[j] = es[b] /\ b = IF j < k THEN j ELSE j + 1
    BY <1>3, <1>4
  <2>3. a # b
    BY <1>6, <1>2, <1>3, <2>1, <2>2
  <2> QED BY <1>6, <2>1, <2>2, <2>3 DEF NamedOnce
<1>7. NamedOnce(ds)
  BY <1>6 DEF NamedOnce
<1> QED BY <1>1, <1>5, <1>7

\* The entry of a name that is there: with names that are unique there is one.
LEMMA EntryFound ==
  ASSUME NEW es, EntryList(es), NamedOnce(es), NEW name, Found(es, name) # {}
  PROVE  EntryByName(es, name) \in 1..Len(es)
<1>1. DOMAIN es = 1..Len(es)
  BY ListDomain DEF EntryList
<1>2. PICK i \in Found(es, name) : TRUE
  OBVIOUS
<1>3. \A j \in Found(es, name) : j = i
  BY <1>1, <1>2 DEF Found, NamedOnce
<1>4. i \in 1..Len(es) /\ i <= i
  BY <1>1, <1>2 DEF Found
<1>5. EntryByName(es, name) \in Found(es, name)
  BY <1>2, <1>3, <1>4 DEF EntryByName
<1> QED BY <1>1, <1>5 DEF Found

\* The empty list.
LEMMA EmptyEntries ==
  EntryList(<< >>) /\ NamedOnce(<< >>) /\ Len(<< >>) = 0 /\ IsList(<< >>)
<1>1. << >> \in Seq({0}) /\ Len(<< >>) = 0
  OBVIOUS
<1>2. IsList(<< >>)
  BY <1>1, SeqIsList
<1> QED BY <1>1, <1>2 DEF EntryList, NamedOnce

\* What a sound file yields.
LEMMA SoundEntries ==
  ASSUME NEW f, Sound(f)
  PROVE  /\ EntryList(ReadCentralDir(f)) /\ NamedOnce(ReadCentralDir(f))
         /\ Len(ReadCentralDir(f)) = ReadEocd(f).num /\ ReadEocd(f).num \in Nat
<1>1. PICK es : es = ReadCentralDir(f)
  OBVIOUS
<1>2. PICK n : n = ReadEocd(f).num
  OBVIOUS
<1>3. n \in Nat /\ \A i, j \in DOMAIN es : es[i].name = es[j].name => i = j
  BY <1>1, <1>2 DEF Sound
<1>4. es = [i \in 1..n |-> FromCde(f[ReadEocd(f).off + i])]
  BY <1>1, <1>2 DEF ReadCentralDir
<1>5. IsList(es) /\ Len(es) = n
  BY <1>3, <1>4, FunctionIsList
<1>6. EntryList(es)
  BY <1>4, <1>5 DEF EntryList, Plain, FromCde
<1>7. NamedOnce(es)
  BY <1>3, <1>5, ListDomain DEF NamedOnce
<1> QED BY <1>1, <1>2, <1>3, <1>5, <1>6, <1>7

-----------------------------------------------------------------------------
(* No two live entries have a name.                                        *)

\* Starting an addition, behind a removal or not.
LEMMA AddNamed ==
  ASSUME NEW es, Thinned(es, entries), Listed, NEW name, NEW v, NEW method, NEW when,
         AddBegin(es, name, v, method, when) \/ (op = "ready" /\ AddRefused(es, name))
  PROVE  Listed' /\ Free'
<1>1. EntryList(es) /\ NamedOnce(es)
  BY ThinnedNamed DEF Thinned, Listed
<1>2. CASE AddBegin(es, name, v, method, when)
  <2>1. entries' = es /\ Found(es, name) = {} /\ cur'.name = name
    BY <1>2 DEF AddBegin
  <2> QED BY <1>1, <2>1 DEF Listed, Free
<1>3. CASE op = "ready" /\ AddRefused(es, name)
  <2>1. entries' = es /\ op' = "ready"
    BY <1>3 DEF AddRefused
  <2> QED BY <1>1, <2>1 DEF Listed, Free
<1> QED BY <1>2, <1>3

\* The end of an addition.
LEMMA AddEntryNamed ==
  ASSUME NEW n, NEW method, NEW crc, Listed, Free, op = "adding",
         AddEntry(n, method, crc)
  PROVE  Listed' /\ Free'
<1>1. PICK e : e = [name |-> cur.name, off |-> eocd.off, method |-> method, crc |-> crc, len |-> n,
                    mod |-> DosTime(cur.when), deleted |-> FALSE, marked |-> FALSE]
  OBVIOUS
<1>2. Plain(e) /\ e.name = cur.name
  BY <1>1 DEF Plain
<1>3. entries' = Append(entries, e) /\ op' = "ready"
  BY <1>1, Zenon DEF AddEntry, NewEntry
<1>4. EntryList(Append(entries, e)) /\ NamedOnce(Append(entries, e))
  BY <1>2, AppendEntry DEF Listed, Free
<1> QED BY <1>3, <1>4 DEF Listed, Free

\* A step of the zip file.
LEMMA ZipNamed ==
  ASSUME CurInv, Listed, Free, ZipStep
  PROVE  Listed' /\ Free'
<1>1. ASSUME NEW f, AddFails(f) PROVE Listed' /\ Free'
  BY <1>1 DEF AddFails, Listed, Free
<1>a. ASSUME NEW f, NEW n, NEW method, AddData(f, n, method), op = "adding"
      PROVE  Listed' /\ Free'
  <2>1. CASE AddEntry(n, method, cur.v)
    BY <1>a, <2>1, AddEntryNamed
  <2>2. CASE AddLost(f, n)
    BY <2>2 DEF AddLost, Listed, Free
  <2> QED BY <1>a, <2>1, <2>2 DEF AddData, AddEnd, AddBlank
<1>2. ASSUME NEW f, Store(f), op = "adding" PROVE Listed' /\ Free'
  BY <1>1, <1>2, <1>a DEF Store
<1>3. CASE AddDeflated
  <2>1. op = "adding"
    BY <1>3 DEF AddDeflated
  <2>2. \/ \E n, method, crc : AddEntry(n, method, crc)
        \/ \E f, n, method : AddData(f, n, method)
        \/ \E f : Store(f)
    BY <1>3, Zenon DEF AddDeflated, AddEnd
  <2> QED BY <1>2, <1>a, <2>1, <2>2, AddEntryNamed
<1>4. CASE AddStored
  BY <1>2, <1>4 DEF AddStored
<1>5. CASE AddGzip
  <2>1. op = "adding"
    BY <1>5 DEF AddGzip
  <2>2. \/ \E f, n, method : AddData(f, n, method)
        \/ \E f : AddFails(f)
    BY <1>5, Zenon DEF AddGzip
  <2> QED BY <1>1, <1>a, <2>1, <2>2
<1>6. CASE CrunchDeleted
  <2>1. cur.i \in 1..Len(entries) /\ entries' = RemoveAt(entries, cur.i) /\ op' = "crunch"
    BY <1>6 DEF CrunchDeleted, CurInv, Listed, EntryList, IsList
  <2> QED BY <2>1, RemoveEntry DEF Listed, Free
<1>7. CASE CrunchMove
  <2>1. cur.i \in 1..Len(entries) /\ op' # "adding"
    BY <1>7 DEF CrunchMove, CurInv, Listed, EntryList, IsList
  <2>2. entries' = entries \/ entries' = [entries EXCEPT ![cur.i].off = @ - cur.adjust]
    BY <1>7, Zenon DEF CrunchMove
  <2>3. CASE entries' = entries
    BY <2>1, <2>3 DEF Listed, Free
  <2>4. CASE entries' = [entries EXCEPT ![cur.i].off = @ - cur.adjust]
    <3>1. PICK x : x = [entries[cur.i] EXCEPT !.off = @ - cur.adjust]
      OBVIOUS
    <3>2. Plain(entries[cur.i])
      BY <2>1 DEF Listed, EntryList
    <3>3. Plain(x) /\ x.name = entries[cur.i].name /\ x.deleted = entries[cur.i].deleted
      BY <3>1, <3>2 DEF Plain
    <3>4. IsReplaced([entries EXCEPT ![cur.i] = x], entries, cur.i, x)
      BY <2>1, ReplaceList DEF Listed, EntryList
    <3>5. entries' = [entries EXCEPT ![cur.i] = x]
      BY <2>4, <3>1
    <3>6. IsReplaced(entries', entries, cur.i, x)
      BY <3>4, <3>5
    <3>7. EntryList(entries')
      BY <2>1, <3>3, <3>6 DEF EntryList, IsReplaced, Listed
    <3>8. NamedOnce(entries')
      BY <2>1, <3>3, <3>6 DEF NamedOnce, IsReplaced, Listed
    <3> QED BY <2>1, <3>7, <3>8 DEF Listed, Free
  <2> QED BY <2>2, <2>3, <2>4
<1>8. CASE CrunchDone
  BY <1>8 DEF CrunchDone, Listed, Free
<1>9. CASE WriteCentralDir \/ WriteEocd
  <2>1. entries' = entries /\ op' \in {"ready", "end"}
    BY <1>9, Zenon DEF WriteCentralDir, WriteEocd
  <2> QED BY <2>1 DEF Listed, Free
<1> QED BY <1>3, <1>4, <1>5, <1>6, <1>7, <1>8, <1>9 DEF ZipStep

\* The archive that a command opens.
LEMMA OpenNamed ==
  ASSUME NEW f, Open(f), f = NoFile \/ Sound(f)
  PROVE  Listed' /\ Free'
<1>1. entries' = << >> \/ (f # NoFile /\ entries' = ReadCentralDir(f))
  BY DEF Open, Readable
<1>2. op' = "ready"
  BY DEF Open
<1>3. CASE entries' = << >>
  BY <1>2, <1>3, EmptyEntries DEF Listed, Free
<1>4. CASE f # NoFile /\ entries' = ReadCentralDir(f)
  BY <1>2, <1>4, SoundEntries DEF Listed, Free
<1> QED BY <1>1, <1>3, <1>4

\* Names are unique behind every step.
LEMMA UniqueStep ==
  SourceInv /\ PcInv /\ CurInv /\ UniqueInv /\ [Next]_vars => UniqueInv'
<1> SUFFICES ASSUME SourceInv, PcInv, CurInv, UniqueInv, [Next]_vars PROVE UniqueInv'
  OBVIOUS
<1>0. UniqueInv = (before.sound => Listed /\ Free)
  BY DEF UniqueInv, Listed, Free
<1>a. ASSUME before' = before, before.sound /\ Listed /\ Free => Listed' /\ Free'
      PROVE  UniqueInv'
  BY <1>a DEF UniqueInv, Listed, Free
<1>b. ASSUME Close PROVE Listed' /\ Free'
  BY <1>b, EmptyEntries DEF Close, Listed, Free
<1>c. ASSUME UNCHANGED zipVars, Listed, Free PROVE Listed' /\ Free'
  BY <1>c DEF zipVars, Listed, Free
<1>d. ASSUME FlushBegin, Listed, Free PROVE Listed' /\ Free'
  BY <1>d DEF FlushBegin, Listed, Free
<1>e. ASSUME op' # "adding", entries' = entries, Listed PROVE Listed' /\ Free'
  BY <1>e DEF Listed, Free
<1>1. ASSUME NEW s \in Names, NEW t \in 1..MaxClock, Edit(s, t) PROVE UniqueInv'
  BY <1>1, <1>a, <1>c DEF Edit
<1>2. ASSUME NEW cmd \in {"update", "force", "plain", "add", "remove"}, NEW outs,
             Begin(cmd, outs)
      PROVE  UniqueInv'
  <2>1. PICK f : /\ before'.sound = (f = NoFile \/ Sound(f))
                 /\ (pc' = "idle" /\ UNCHANGED zipVars) \/ Open(f)
    BY <1>2, Zenon DEF Begin
  <2>2. CASE Open(f)
    BY <2>1, <2>2, OpenNamed DEF UniqueInv, Listed, Free
  <2>3. CASE pc' = "idle" /\ UNCHANGED zipVars
    <3>1. op = "closed" /\ entries = << >>
      BY <1>2 DEF Begin, PcInv, CurInv
    <3>2. entries' = << >> /\ op' = "closed"
      BY <2>3, <3>1 DEF zipVars
    <3> QED BY <3>2, EmptyEntries DEF UniqueInv, Listed, Free
  <2> QED BY <2>1, <2>2, <2>3
<1>3. CASE Kill
  BY <1>3, <1>a, <1>b DEF Kill, ZipKilled
<1>4. ASSUME NEW es, AddOutput(es, Head(todo)), op = "ready", Thinned(es, entries), Listed
      PROVE  Listed' /\ Free'
  BY <1>4, AddOutputCases, AddNamed
<1>5. CASE ProcessFile
  <2>1. before' = before /\ op = "ready"
    BY <1>5, ProcessFileCases, AddOutputCases DEF FileFails, Goes, Done
  <2>2. SUFFICES ASSUME Listed, Free PROVE Listed' /\ Free'
    BY <2>1, <1>a
  <2>3. CASE Touch(entries)
    BY <2>1, <2>2, <2>3 DEF Touch, Listed, Free
  <2>4. CASE FileFails
    BY <1>e, <2>1, <2>2, <2>4 DEF FileFails
  <2>5. CASE AddOutput(entries, Head(todo))
    BY <1>4, <2>1, <2>2, <2>5, ThinnedSelf DEF Listed
  <2>6. PICK i : i = EntryByName(entries, Head(todo).name)
    OBVIOUS
  <2>7. CASE Found(entries, Head(todo).name) # {} /\ Touch(SetMarked(entries, i))
    <3>1. i \in 1..Len(entries)
      BY <2>2, <2>6, <2>7, EntryFound DEF Listed
    <3>2. Thinned(entries', entries) /\ op' = "ready"
      BY <2>1, <2>2, <2>7, <3>1, MarkedThinned DEF Touch, Listed
    <3> QED BY <2>2, <3>2, ThinnedNamed DEF Listed, Free, Thinned
  <2>8. CASE Found(entries, Head(todo).name) # {} /\ AddOutput(SetDeleted(entries, i), Head(todo))
    <3>1. i \in 1..Len(entries)
      BY <2>2, <2>6, <2>8, EntryFound DEF Listed
    <3>2. Thinned(SetDeleted(entries, i), entries)
      BY <2>2, <3>1, DeletedThinned DEF Listed
    <3> QED BY <1>4, <2>1, <2>2, <2>8, <3>2
  <2> QED BY <1>5, <2>3, <2>4, <2>5, <2>6, <2>7, <2>8, ProcessFileCases
<1>6. CASE Added
  <2>1. before' = before /\ op = "ready"
    BY <1>6 DEF Added, Goes, Done
  <2>2. SUFFICES ASSUME Listed, Free PROVE Listed' /\ Free'
    BY <2>1, <1>a
  <2>3. CASE UNCHANGED zipVars
    BY <1>c, <2>2, <2>3
  <2>4. CASE Touch(SetMarked(entries, Len(entries)))
    <3>1. Len(entries) \in Nat /\ IsList(entries) /\ op' = "ready"
      BY <2>1, <2>2, <2>4 DEF Listed, EntryList, IsList, Touch
    <3>2. entries' = SetMarked(entries, Len(entries))
      BY <2>4 DEF Touch
    <3>3. CASE Len(entries) \in 1..Len(entries)
      BY <2>2, <3>1, <3>2, <3>3, MarkedThinned, ThinnedNamed DEF Listed, Free, Thinned
    <3>4. CASE Len(entries) = 0
      <4>1. DOMAIN entries = {}
        BY <3>1, <3>4, ListDomain
      <4>2. entries' = entries
        BY <3>1, <3>2, <4>1, <3>4 DEF SetMarked, IsList
      <4> QED BY <3>1, <4>2, <1>e, <2>2
    <3> QED BY <3>1, <3>3, <3>4
  <2> QED BY <1>6, <2>3, <2>4 DEF Added
<1>7. CASE ProcessClass
  <2>1. before' = before /\ op = "ready"
    BY <1>7 DEF ProcessClass, Goes, Done
  <2>2. SUFFICES ASSUME Listed, Free PROVE Listed' /\ Free'
    BY <2>1, <1>a
  <2>3. Thinned(entries, entries)
    BY <2>2, ThinnedSelf DEF Listed
  <2>4. \/ \E name, v, method, when : AddBegin(entries, name, v, method, when)
        \/ \E name : AddRefused(entries, name)
        \/ UNCHANGED <<op, entries>>
    BY <1>7, Zenon DEF ProcessClass
  <2> QED BY <1>e, <2>1, <2>2, <2>3, <2>4, AddNamed
<1>8. CASE CruftAndFlush
  <2>1. FlushBegin \/ (op' # "adding" /\ entries' = entries)
    BY <1>8 DEF CruftAndFlush
  <2> QED BY <1>8, <2>1, <1>a, <1>d, <1>e DEF CruftAndFlush, Goes
<1>9. CASE Flushed
  BY <1>9, <1>a, <1>b, <1>c DEF Flushed, Goes
<1>10. CASE AddSpec
  <2>1. before' = before /\ op = "ready"
    BY <1>10 DEF AddSpec, Goes
  <2>2. SUFFICES ASSUME Listed, Free PROVE Listed' /\ Free'
    BY <2>1, <1>a
  <2>3. Thinned(entries, entries)
    BY <2>2, ThinnedSelf DEF Listed
  <2> QED BY <1>10, <2>1, <2>2, <2>3, AddNamed DEF AddSpec
<1>11. CASE SpecAdded \/ SpecsDone
  BY <1>11, <1>a, <1>c DEF SpecAdded, SpecsDone, Goes, Done
<1>12. CASE RemoveSpecs
  <2>1. before' = before /\ op' = "ready"
    BY <1>12 DEF RemoveSpecs, Goes
  <2>2. SUFFICES ASSUME Listed, Free PROVE Listed' /\ Free'
    BY <2>1, <1>a
  <2>3. \E S : entries' = [i \in DOMAIN entries |->
                 IF i \in S THEN [entries[i] EXCEPT !.deleted = TRUE] ELSE entries[i]]
    BY <1>12, Zenon DEF RemoveSpecs
  <2>4. Thinned(entries', entries)
    BY <2>2, <2>3, SetThinned DEF Listed
  <2> QED BY <2>1, <2>2, <2>4, ThinnedNamed DEF Listed, Free, Thinned
<1>13. CASE RemoveFlush
  BY <1>13, <1>a, <1>c, <1>d DEF RemoveFlush, Goes
<1>15. CASE DestructorFlush
  BY <1>15, <1>a, <1>d DEF DestructorFlush, Goes
<1>16. CASE Bail
  BY <1>16, <1>a, <1>b DEF Bail, Goes
<1>17. CASE ZipSteps
  BY <1>17, <1>a, ZipNamed DEF ZipSteps
<1>18. CASE UNCHANGED vars
  BY <1>18, <1>a, <1>c DEF vars
<1> QED BY <1>1, <1>2, <1>3, <1>5, <1>6, <1>7, <1>8, <1>9, <1>10, <1>11, <1>12, <1>13,
           <1>15, <1>16, <1>17, <1>18 DEF Next

-----------------------------------------------------------------------------
(* Files and the entries in them.                                          *)

\* An entry stays whole when its cells stay.
LEMMA WholeStays ==
  ASSUME NEW f, NEW g, NEW e, NEW end \in Nat, e.off \in Nat, e.len \in Nat, EndOf(e) < end,
         \A i \in 1..end : g[i] = f[i], Whole(f, e)
  PROVE  Whole(g, e)
<1>1. e.off + 1 \in 1..end /\ \A i \in 1..e.len : e.off + 1 + i \in 1..end
  BY DEF EndOf
<1>2. g[e.off + 1] = f[e.off + 1] /\ \A i \in 1..e.len : g[e.off + 1 + i] = f[e.off + 1 + i]
  BY <1>1
<1> QED BY <1>2 DEF Whole, HeadersAgree

\* Two entries that differ in nothing that is written with the data.
LEMMA WholeSame ==
  ASSUME NEW f, NEW d, NEW e, Whole(f, e), d.name = e.name, d.off = e.off,
         d.method = e.method, d.crc = e.crc, d.len = e.len
  PROVE  Whole(f, d)
BY DEF Whole, HeadersAgree, Lfh

\* Where an entry of a placed list is.
LEMMA PlacedEntry ==
  ASSUME NEW es, IsList(es), NEW end \in Nat, InOrder(es, end), NEW i \in 1..Len(es)
  PROVE  es[i].off \in Nat /\ es[i].len \in Nat /\ EndOf(es[i]) < end
<1>1. DOMAIN es = 1..Len(es) /\ Len(es) \in Nat
  BY ListDomain DEF IsList
<1>2. Len(es) + 1 \in i + 1..Len(es) + 1
  BY <1>1
<1>3. Border(es, end, Len(es) + 1) = end
  BY DEF Border
<1> QED BY <1>1, <1>2, <1>3 DEF InOrder, EndOf

\* Entries stay placed when nothing below the end changes.
LEMMA PlacedStays ==
  ASSUME NEW f, NEW g, NEW es, IsList(es), NEW end, Placed(f, es, end), IsList(g),
         end <= Len(g), \A i \in 1..end : g[i] = f[i]
  PROVE  Placed(g, es, end)
<1>1. ASSUME NEW i \in 1..Len(es), ~es[i].deleted PROVE Whole(g, es[i])
  <2>1. es[i].off \in Nat /\ es[i].len \in Nat /\ EndOf(es[i]) < end /\ end \in Nat
    BY PlacedEntry DEF Placed
  <2>2. Whole(f, es[i])
    BY <1>1 DEF Placed, Kept
  <2> QED BY <2>1, <2>2, WholeStays
<1> QED BY <1>1 DEF Placed, Kept

\* Entries stay placed when some are deleted.
LEMMA PlacedThinned ==
  ASSUME NEW f, NEW es, NEW ds, IsList(es), NEW end, Placed(f, es, end), Thinned(ds, es)
  PROVE  Placed(f, ds, end)
<1>0. DOMAIN es = 1..Len(es) /\ DOMAIN ds = 1..Len(es) /\ Len(es) \in Nat /\ Len(ds) = Len(es)
  BY ListDomain DEF Thinned, EntryList, IsList
<1>1. ASSUME NEW i \in 1..Len(es), ~ds[i].deleted PROVE Whole(f, ds[i])
  <2>1. Whole(f, es[i])
    BY <1>1 DEF Placed, Kept, Thinned
  <2> QED BY <2>1, WholeSame DEF Thinned
<1>2. \A j \in 1..Len(es) + 1 : Border(ds, end, j) = Border(es, end, j)
  BY <1>0 DEF Border, Thinned
<1>3. ASSUME NEW i \in 1..Len(es)
      PROVE  /\ ds[i].off \in Nat /\ ds[i].len \in Nat
             /\ \A j \in i + 1..Len(es) + 1 : ds[i].off + ds[i].len < Border(ds, end, j)
  <2>1. /\ es[i].off \in Nat /\ es[i].len \in Nat
        /\ \A j \in i + 1..Len(es) + 1 : es[i].off + es[i].len < Border(es, end, j)
    BY <1>0 DEF Placed, InOrder
  <2>2. ds[i].off = es[i].off /\ ds[i].len = es[i].len
    BY DEF Thinned
  <2>3. \A j \in i + 1..Len(es) + 1 : j \in 1..Len(es) + 1
    BY <1>0
  <2> QED BY <1>2, <2>1, <2>2, <2>3
<1>4. InOrder(ds, end)
  BY <1>0, <1>3 DEF InOrder
<1> QED BY <1>0, <1>1, <1>4 DEF Placed, Kept

\* A sound file has its entries in place.
LEMMA SoundPlaced ==
  ASSUME NEW f, Sound(f)
  PROVE  Placed(f, ReadCentralDir(f), ReadEocd(f).off)
<1>1. PICK es : es = ReadCentralDir(f)
  OBVIOUS
<1>2. PICK e : e = ReadEocd(f)
  OBVIOUS
<1>3. /\ AllWhole(f) /\ e.num \in Nat /\ e.off \in Nat /\ InOrder(es, e.off)
      /\ f = [i \in 1..(e.off + e.num + 1) |-> f[i]]
  BY <1>1, <1>2 DEF Sound
<1>4. IsList(f) /\ Len(f) = e.off + e.num + 1
  <2>1. PICK n \in Nat : n = e.off + e.num + 1
    BY <1>3
  <2> QED BY <1>3, <2>1, FunctionIsList
<1>5. IsList(es)
  BY <1>1, SoundEntries DEF EntryList
<1>6. Kept(f, es)
  BY <1>1, <1>3, <1>5, ListDomain DEF AllWhole, Kept
<1>7. e.off \in Nat /\ e.off <= Len(f)
  BY <1>3, <1>4
<1>8. Placed(f, es, e.off)
  BY <1>3, <1>4, <1>6, <1>7 DEF Placed
<1> QED BY <1>1, <1>2, <1>8

\* A single cell.
LEMMA OneCell ==
  ASSUME NEW c
  PROVE  IsList(<<c>>) /\ Len(<<c>>) = 1 /\ <<c>>[1] = c
<1>1. <<c>> \in Seq({c}) /\ Len(<<c>>) = 1 /\ <<c>>[1] = c
  OBVIOUS
<1> QED BY <1>1, SeqIsList

\* The pieces of a content.
LEMMA PiecesList ==
  ASSUME NEW v, NEW method, NEW n \in Nat
  PROVE  /\ IsList(Pieces(v, method, n)) /\ Len(Pieces(v, method, n)) = n
         /\ \A i \in 1..n : Pieces(v, method, n)[i] = <<"data", v, method, i>>
<1>1. PICK q : q = Pieces(v, method, n)
  OBVIOUS
<1>2. q = [i \in 1..n |-> q[i]] /\ \A i \in 1..n : q[i] = <<"data", v, method, i>>
  BY <1>1 DEF Pieces
<1>3. IsList(q) /\ Len(q) = n
  BY <1>2, FunctionIsList
<1> QED BY <1>1, <1>2, <1>3

\* What matters about writing: what is below stays, the cells are there.
Laid(g, f, off, cells) ==
  /\ IsList(g) /\ off + Len(cells) <= Len(g) /\ Len(f) <= Len(g)
  /\ \A i \in 1..off : g[i] = f[i]
  /\ \A i \in 1..Len(cells) : g[off + i] = cells[i]

\* Writing does that.
LEMMA WriteAtKeeps ==
  ASSUME NEW f, IsList(f), NEW off \in Nat, off <= Len(f), NEW cells, IsList(cells)
  PROVE  Laid(WriteAt(f, off, cells), f, off, cells)
<1>1. Wrote(WriteAt(f, off, cells), f, off, cells)
  BY WriteAtList
<1>2. Len(f) \in Nat /\ Len(cells) \in Nat
  BY DEF IsList
<1> QED BY <1>1, <1>2 DEF Wrote, Laid

\* f has what file has below the central directory, and room for a local header there.
Room(f) ==
  /\ IsList(f) /\ eocd.off \in Nat /\ eocd.off + 1 <= Len(f)
  /\ \A i \in 1..eocd.off : f[i] = file[i]

\* f has n pieces of a content behind that.
Filled(f, v, method, n) ==
  /\ Room(f) /\ eocd.off + 1 + n <= Len(f)
  /\ \A i \in 1..n : f[eocd.off + 1 + i] = <<"data", v, method, i>>

\* Copying data in, over whatever is there.
LEMMA WritePieces ==
  ASSUME NEW f, Room(f), NEW v, NEW method, NEW n \in Nat, cur.head = 1
  PROVE  Filled(WriteAt(f, DataAt, Pieces(v, method, n)), v, method, n)
<1>1. PICK g : g = WriteAt(f, DataAt, Pieces(v, method, n))
  OBVIOUS
<1>2. PICK at \in Nat : at = eocd.off + 1 /\ at = DataAt /\ at <= Len(f)
  BY DEF Room, DataAt
<1>3. PICK q : q = Pieces(v, method, n)
  OBVIOUS
<1>4. IsList(q) /\ Len(q) = n /\ \A i \in 1..n : q[i] = <<"data", v, method, i>>
  BY <1>3, PiecesList
<1>5. /\ IsList(g) /\ at + Len(q) <= Len(g) /\ Len(f) <= Len(g)
      /\ \A i \in 1..at : g[i] = f[i]
      /\ \A i \in 1..Len(q) : g[at + i] = q[i]
  <2>1. g = WriteAt(f, at, q)
    BY <1>1, <1>2, <1>3
  <2>2. IsList(f)
    BY DEF Room
  <2>3. Laid(g, f, at, q)
    BY <1>2, <1>4, <2>1, <2>2, WriteAtKeeps
  <2> QED BY <2>3 DEF Laid
<1>6. Len(f) \in Nat /\ Len(g) \in Nat
  BY <1>5 DEF Room, IsList
<1>7. \A i \in 1..eocd.off : g[i] = file[i]
  BY <1>2, <1>5 DEF Room
<1>8. \A i \in 1..n : g[eocd.off + 1 + i] = <<"data", v, method, i>>
  BY <1>2, <1>4, <1>5
<1>9. Filled(g, v, method, n)
  BY <1>2, <1>4, <1>5, <1>6, <1>7, <1>8 DEF Filled, Room
<1> QED BY <1>1, <1>9

-----------------------------------------------------------------------------
(* The methods of ZipFile, on a file with its entries in place.            *)

\* The local header of a new entry.
LEMMA AddBeginPlaced ==
  ASSUME Listed, InPlace, NEW es, Thinned(es, entries), NEW name, NEW v, NEW method, NEW when,
         AddBegin(es, name, v, method, when), ~unreported'
  PROVE  InPlace' /\ (eocd.off + 1 <= Len(file))'
<1>1. PICK off \in Nat : off = eocd.off /\ off <= Len(file) /\ IsList(file)
  BY DEF InPlace, Placed
<1>2. PICK q : q = <<Blank(name)>>
  OBVIOUS
<1>3. IsList(q) /\ Len(q) = 1
  BY <1>2, OneCell
<1>4. file' = WriteAt(file, off, q) /\ entries' = es /\ eocd' = eocd
  BY <1>1, <1>2 DEF AddBegin, Unreported
<1>5. Laid(file', file, off, q)
  BY <1>1, <1>3, <1>4, WriteAtKeeps
<1>6. IsList(file') /\ off + 1 <= Len(file') /\ \A i \in 1..off : file'[i] = file[i]
  BY <1>3, <1>5 DEF Laid
<1>7. off <= Len(file') /\ IsList(entries)
  BY <1>1, <1>6 DEF IsList, Listed, EntryList
<1>8. Placed(file', entries, off)
  BY <1>1, <1>6, <1>7, PlacedStays DEF InPlace
<1>9. Placed(file', es, off)
  BY <1>7, <1>8, PlacedThinned
<1>10. eocd.num = Len(es)
  BY DEF Thinned, InPlace
<1> QED BY <1>1, <1>4, <1>6, <1>9, <1>10 DEF InPlace

\* An addition that does not begin.
LEMMA AddRefusedPlaced ==
  ASSUME Listed, InPlace, NEW es, Thinned(es, entries), NEW name, AddRefused(es, name)
  PROVE  InPlace'
<1>1. IsList(entries)
  BY DEF Listed, EntryList
<1>2. Placed(file, es, eocd.off)
  BY <1>1, PlacedThinned DEF InPlace
<1>3. eocd.num = Len(es)
  BY DEF Thinned, InPlace
<1> QED BY <1>2, <1>3 DEF AddRefused, InPlace

\* With its header written there is room for the data.
LEMMA RoomOfAdding ==
  ASSUME InPlace, eocd.off + 1 <= Len(file)
  PROVE  Room(file)
BY DEF InPlace, Placed, Room

\* A file that differs from the old one only behind its entries.
LEMMA RoomPlaced ==
  ASSUME Listed, InPlace, NEW f, Room(f)
  PROVE  Placed(f, entries, eocd.off)
<1>1. IsList(f) /\ eocd.off \in Nat /\ eocd.off <= Len(f) /\ \A i \in 1..eocd.off : f[i] = file[i]
  BY DEF Room, IsList
<1> QED BY <1>1, PlacedStays DEF InPlace, Listed, EntryList

\* An addition that fails.
LEMMA AddFailsPlaced ==
  ASSUME Listed, InPlace, NEW f, Room(f), AddFails(f)
  PROVE  InPlace'
BY RoomPlaced DEF AddFails, InPlace

\* An error was reported and the archive may be out of place: a seek back to a local header
\* failed, and the entry is counted and not listed; or a seek to the central directory failed.
Lost == op' = "ready" /\ status' = "error" /\ faults' = faults + 1

\* The new entry is whole, and behind the others.
LEMMA AddEndPlaced ==
  ASSUME Listed, InPlace, NEW f, NEW n \in Nat, NEW method, cur.v \in Contents, cur.head = 1,
         Filled(f, cur.v, method, n),
         n = IF method = "stored" THEN RawLen[cur.v] ELSE PackedLen[cur.v],
         AddEnd(f, n, method, cur.v)
  PROVE  InPlace'
<1>1. PICK e : e = [name |-> cur.name, off |-> eocd.off, method |-> method, crc |-> cur.v,
                    len |-> n, mod |-> DosTime(cur.when), deleted |-> FALSE, marked |-> FALSE]
  OBVIOUS
<1>2. e.off = eocd.off /\ e.method = method /\ e.crc = cur.v /\ e.len = n
  BY <1>1
<1>3. /\ file' = WriteAt(f, eocd.off, <<Lfh(e)>>) /\ entries' = Append(entries, e)
      /\ eocd' = [num |-> eocd.num + 1, off |-> (eocd.off + cur.head) + n]
  BY <1>1, Zenon DEF AddEnd, AddEntry, NewEntry, DataAt
<1>4. PICK off \in Nat : off = eocd.off
  BY DEF Filled, Room
<1>5. PICK q : q = <<Lfh(e)>>
  OBVIOUS
<1>6. IsList(q) /\ Len(q) = 1 /\ q[1] = Lfh(e)
  BY <1>5, OneCell
<1>7. /\ IsList(f) /\ off + 1 + n <= Len(f) /\ Len(f) \in Nat
      /\ \A i \in 1..off : f[i] = file[i]
      /\ \A i \in 1..n : f[off + 1 + i] = <<"data", cur.v, method, i>>
  BY <1>4 DEF Filled, Room, IsList
<1>8. Wrote(file', f, off, q)
  <2>1. off <= Len(f)
    BY <1>7
  <2> QED BY <1>3, <1>4, <1>5, <1>6, <1>7, <2>1, WriteAtList
<1>9. /\ IsList(file') /\ Len(file') = Len(f)
      /\ \A i \in 1..off : file'[i] = f[i]
      /\ file'[off + 1] = Lfh(e)
      /\ \A i \in (off + 2)..Len(f) : file'[i] = f[i]
  <2>1. off + Len(q) <= Len(f) /\ off + Len(q) + 1 = off + 2 /\ 1 \in 1..Len(q)
    BY <1>6, <1>7
  <2> QED BY <1>6, <1>8, <2>1 DEF Wrote
<1>10. \A i \in 1..n : file'[off + 1 + i] = <<"data", cur.v, method, i>>
  <2>1. TAKE i \in 1..n
  <2>2. PICK j : j = off + 1 + i
    OBVIOUS
  <2>3. j \in (off + 2)..Len(f)
    BY <1>7, <2>2
  <2> QED BY <1>7, <1>9, <2>2, <2>3
<1>11. Whole(file', e)
  <2>1. file'[e.off + 1] = Lfh(e)
    BY <1>2, <1>4, <1>9
  <2>2. \A i \in 1..e.len : file'[e.off + 1 + i] = <<"data", e.crc, e.method, i>>
    BY <1>2, <1>4, <1>10
  <2>3. e.crc \in Contents /\ e.len = IF e.method = "stored" THEN RawLen[e.crc] ELSE PackedLen[e.crc]
    BY <1>2
  <2> QED BY <2>1, <2>2, <2>3 DEF Whole, HeadersAgree
<1>12. Placed(file', entries, off)
  <2>1. \A i \in 1..off : file'[i] = file[i]
    BY <1>7, <1>9
  <2>2. off <= Len(file')
    BY <1>7, <1>9
  <2> QED BY <1>4, <1>9, <2>1, <2>2, PlacedStays DEF InPlace, Listed, EntryList
<1>13. PICK ds : ds = Append(entries, e)
  OBVIOUS
<1>14. PICK m \in Nat : m = Len(entries)
  BY DEF Listed, EntryList, IsList
<1>15. IsList(ds) /\ Len(ds) = m + 1 /\ ds[m + 1] = e /\ \A i \in 1..m : ds[i] = entries[i]
  BY <1>13, <1>14, AppendList DEF Listed, EntryList
<1>16. PICK end \in Nat : end = off + 1 + n
  OBVIOUS
<1>17. Kept(file', ds)
  <2>1. ASSUME NEW i \in 1..(m + 1), ~ds[i].deleted PROVE Whole(file', ds[i])
    <3>1. CASE i = m + 1
      BY <1>11, <1>15, <3>1
    <3>2. CASE i \in 1..m
      BY <1>12, <1>14, <1>15, <2>1, <3>2 DEF Placed, Kept
    <3> QED BY <3>1, <3>2
  <2> QED BY <1>15, <2>1 DEF Kept
<1>18. ASSUME NEW i \in 1..(m + 1)
       PROVE  /\ ds[i].off \in Nat /\ ds[i].len \in Nat
              /\ \A j \in i + 1..(m + 1) + 1 : ds[i].off + ds[i].len < Border(ds, end, j)
  <2>1. CASE i = m + 1
    <3>1. ds[i].off = off /\ ds[i].len = n
      BY <1>2, <1>4, <1>15, <2>1
    <3>2. \A j \in i + 1..(m + 1) + 1 : Border(ds, end, j) = end
      BY <1>15, <2>1 DEF Border
    <3> QED BY <1>16, <3>1, <3>2
  <2>2. CASE i \in 1..m
    <3>1. DOMAIN entries = 1..m
      BY <1>14, ListDomain DEF Listed, EntryList
    <3>2. /\ entries[i].off \in Nat /\ entries[i].len \in Nat
          /\ \A j \in i + 1..m + 1 : entries[i].off + entries[i].len < Border(entries, off, j)
      BY <1>14, <2>2, <3>1, <1>12 DEF Placed, InOrder
    <3>3. ds[i] = entries[i]
      BY <1>15, <2>2
    <3>4. ASSUME NEW j \in i + 1..(m + 1) + 1 PROVE entries[i].off + entries[i].len < Border(ds, end, j)
      <4>1. CASE j \in i + 1..m
        <5>1. Border(ds, end, j) = entries[j].off /\ Border(entries, off, j) = entries[j].off
          BY <1>14, <1>15, <2>2, <4>1 DEF Border
        <5> QED BY <3>2, <4>1, <5>1
      <4>2. CASE j = m + 1
        <5>1. Border(ds, end, j) = off /\ Border(entries, off, j) = off
          BY <1>2, <1>4, <1>14, <1>15, <4>2 DEF Border
        <5>2. j \in i + 1..m + 1
          BY <2>2, <4>2
        <5> QED BY <3>2, <5>1, <5>2
      <4>3. CASE j = (m + 1) + 1
        <5>1. Border(ds, end, j) = end
          BY <1>15, <4>3 DEF Border
        <5>2. Border(entries, off, m + 1) = off /\ m + 1 \in i + 1..m + 1
          BY <1>14, <2>2 DEF Border
        <5>3. entries[i].off + entries[i].len < off
          BY <3>2, <5>2
        <5> QED BY <1>16, <3>2, <5>1, <5>3
      <4> QED BY <4>1, <4>2, <4>3
    <3> QED BY <3>2, <3>3, <3>4
  <2> QED BY <2>1, <2>2
<1>19. InOrder(ds, end)
  BY <1>15, <1>18, ListDomain DEF InOrder
<1>20. Placed(file', ds, end)
  BY <1>7, <1>9, <1>16, <1>17, <1>19 DEF Placed
<1>21. eocd'.off = end /\ eocd'.num = m + 1
  BY <1>3, <1>4, <1>14, <1>16 DEF InPlace
<1> QED BY <1>3, <1>13, <1>15, <1>20, <1>21 DEF InPlace

\* The data are in: the entry is in place, or an error was not reported, or the entry is lost.
LEMMA AddDataPlaced ==
  ASSUME Listed, InPlace, NEW f, NEW n \in Nat, NEW method, cur.v \in Contents, cur.head = 1,
         Filled(f, cur.v, method, n),
         n = IF method = "stored" THEN RawLen[cur.v] ELSE PackedLen[cur.v],
         AddData(f, n, method)
  PROVE  InPlace' \/ unreported' \/ Lost
<1>1. CASE AddEnd(f, n, method, cur.v)
  BY <1>1, AddEndPlaced
<1>2. CASE AddBlank(f, n, method) \/ AddLost(f, n)
  BY <1>2 DEF AddBlank, AddLost, Unreported, Reported, IOError, Lost
<1> QED BY <1>1, <1>2 DEF AddData

\* Storing the data, over whatever a deflate attempt left.
LEMMA StorePlaced ==
  ASSUME Listed, InPlace, cur.v \in Contents, cur.head = 1, NEW f, Room(f), Store(f)
  PROVE  InPlace' \/ unreported' \/ Lost
<1>1. RawLen[cur.v] \in Nat
  BY ArchiveAssumption
<1>2. ASSUME NEW n \in Nat PROVE Filled(Stored(f, n), cur.v, "stored", n)
  BY WritePieces DEF Stored
<1>3. CASE AddData(Stored(f, RawLen[cur.v]), RawLen[cur.v], "stored")
  <2>1. Filled(Stored(f, RawLen[cur.v]), cur.v, "stored", RawLen[cur.v])
    BY <1>1, <1>2
  <2> QED BY <1>1, <1>3, <2>1, AddDataPlaced
<1>4. CASE \E n \in 0..RawLen[cur.v] : AddFails(Stored(f, n))
  <2>1. PICK n \in 0..RawLen[cur.v] : AddFails(Stored(f, n))
    BY <1>4
  <2>2. Room(Stored(f, n))
    BY <1>1, <1>2 DEF Filled
  <2> QED BY <2>1, <2>2, AddFailsPlaced
<1> QED BY <1>3, <1>4 DEF Store

\* An addition runs to its end: the entries stay in place, or an error was not reported, or the
\* new entry is lost.
LEMMA AddPlaced ==
  ASSUME Listed, InPlace, eocd.off + 1 <= Len(file), cur.v \in Contents, cur.head = 1,
         AddDeflated \/ AddStored \/ AddGzip
  PROVE  InPlace' \/ unreported' \/ Lost
<1>1. PackedLen[cur.v] \in Nat /\ Room(file)
  BY ArchiveAssumption, RoomOfAdding
<1>2. ASSUME NEW n \in Nat PROVE Filled(Deflated(n), cur.v, "deflated", n)
  BY <1>1, WritePieces DEF Deflated
<1>3. PICK n \in Nat : n = PackedLen[cur.v]
  BY <1>1
<1>4. ASSUME AddData(Deflated(n), n, "deflated") PROVE InPlace' \/ unreported' \/ Lost
  <2>1. Filled(Deflated(n), cur.v, "deflated", n)
    BY <1>2
  <2> QED BY <1>3, <1>4, <2>1, AddDataPlaced
<1>5. CASE AddDeflated
  <2>1. \/ AddData(Deflated(n), n, "deflated")
        \/ Store(Deflated(n))
        \/ unreported'
    BY <1>3, <1>5, Zenon DEF AddDeflated, Unreported
  <2>2. Room(Deflated(n))
    BY <1>2 DEF Filled
  <2> QED BY <1>4, <2>1, <2>2, StorePlaced
<1>6. CASE AddStored
  BY <1>1, <1>6, StorePlaced DEF AddStored
<1>7. CASE AddGzip
  <2>1. AddData(Deflated(n), n, "deflated") \/ \E k \in 0..n : AddFails(Deflated(k))
    BY <1>3, <1>7, Zenon DEF AddGzip
  <2>2. \A k \in 0..n : Room(Deflated(k))
    BY <1>2 DEF Filled
  <2> QED BY <1>4, <2>1, <2>2, AddFailsPlaced
<1> QED BY <1>5, <1>6, <1>7

-----------------------------------------------------------------------------
(* Crunching.                                                              *)

\* The crunch begins.
LEMMA CrunchBegins ==
  ASSUME Listed, InPlace, FlushBegin
  PROVE  Crunching'
<1>1. PICK m \in Nat : m = Len(entries)
  BY DEF Listed, EntryList, IsList
<1>2. PICK end \in Nat : end = eocd.off
  BY DEF InPlace, Placed
<1>3. cur' = [i |-> 1, adjust |-> 0, del |-> 0] /\ UNCHANGED <<file, entries, eocd>>
  BY DEF FlushBegin
<1>4. DOMAIN entries = 1..m
  BY <1>1, ListDomain DEF Listed, EntryList
<1>5. \A i \in 1..m : /\ entries[i].off \in Nat /\ entries[i].len \in Nat
                      /\ \A j \in i + 1..m + 1 : entries[i].off + entries[i].len < Border(entries, end, j)
  BY <1>1, <1>2, <1>4 DEF InPlace, Placed, InOrder
<1>6. \A k \in 1..m + 1 : 0 <= Border(entries, end, k)
  BY <1>1, <1>2, <1>5 DEF Border
<1>7. Shifted(entries, end, 1, 0)
  BY <1>1, <1>5, <1>6 DEF Shifted, EndOf
<1> QED BY <1>1, <1>2, <1>3, <1>7 DEF Crunching, InPlace, Placed

\* The bytes of the entry at hand end where the next entry begins.
LEMMA SpanIs ==
  ASSUME Listed, Crunching, cur.i \in 1..Len(entries)
  PROVE  Span(cur.i) = IF entries[cur.i].off = 0 THEN 0
                       ELSE Border(entries, eocd.off, cur.i + 1) - entries[cur.i].off
<1>1. PICK m \in Nat : m = Len(entries)
  BY DEF Listed, EntryList, IsList
<1>2. PICK i \in 1..m : i = cur.i
  BY <1>1
<1> DEFINE later == {j \in i + 1..Len(entries) : entries[j].off # 0}
           next == IF later = {} THEN eocd.off
                   ELSE entries[CHOOSE j \in later : \A k \in later : j <= k].off
<1>3. Span(i) = IF entries[i].off = 0 THEN 0 ELSE next - entries[i].off
  BY DEF Span
<1> HIDE DEF next
<1>4. \A j \in 1..m : entries[j].off \in Nat /\ entries[j].len \in Nat
  BY <1>1 DEF Crunching, Shifted
<1>5. \A j \in i + 1..m : entries[j].off # 0
  <2>1. TAKE j \in i + 1..m
  <2>2. EndOf(entries[i]) < Border(entries, eocd.off, j)
    <3>1. \A a \in i..m : \A k \in a + 1..m + 1 :
             EndOf(entries[a]) < Border(entries, eocd.off, k)
      BY <1>1, <1>2 DEF Crunching, Shifted
    <3>2. i \in i..m /\ j \in i + 1..m + 1
      BY <1>2
    <3> QED BY <3>1, <3>2
  <2>3. Border(entries, eocd.off, j) = entries[j].off
    BY <1>1 DEF Border
  <2> QED BY <1>2, <1>4, <2>2, <2>3 DEF EndOf
<1>6. later = i + 1..m
  BY <1>1, <1>5
<1> HIDE DEF later
<1>8. next = Border(entries, eocd.off, i + 1)
  <2>1. CASE i = m
    <3>1. later = {}
      BY <1>6, <2>1
    <3>2. Border(entries, eocd.off, i + 1) = eocd.off
      BY <1>1, <2>1 DEF Border
    <3> QED BY <3>1, <3>2 DEF next
  <2>2. CASE i < m
    <3>1. i + 1 \in later /\ \A k \in later : i + 1 <= k
      BY <1>2, <1>6, <2>2
    <3>2. \A j \in later : (\A k \in later : j <= k) => j = i + 1
      BY <1>2, <1>6, <3>1
    <3>3. (CHOOSE j \in later : \A k \in later : j <= k) = i + 1
      BY <3>1, <3>2
    <3>4. next = entries[i + 1].off
      BY <3>1, <3>3, Zenon DEF next
    <3>5. Border(entries, eocd.off, i + 1) = entries[i + 1].off
      BY <1>1, <1>2, <2>2 DEF Border
    <3> QED BY <3>4, <3>5
  <2> QED BY <1>2, <2>1, <2>2
<1> QED BY <1>2, <1>3, <1>8

\* Borders are offsets, and behind an entry they are no nearer than the next one.
LEMMA ShiftedBorders ==
  ASSUME NEW es, NEW m \in Nat, m = Len(es), NEW end \in Nat, NEW i \in 1..m, NEW adjust,
         Shifted(es, end, i, adjust)
  PROVE  /\ \A k \in 1..m + 1 : Border(es, end, k) \in Nat
         /\ \A k \in i + 1..m + 1 : Border(es, end, i + 1) <= Border(es, end, k)
         /\ Border(es, end, i) = es[i].off /\ EndOf(es[i]) < Border(es, end, i + 1)
<1>1. \A j \in 1..m : es[j].off \in Nat /\ es[j].len \in Nat
  BY DEF Shifted
<1>2. \A k \in 1..m + 1 : Border(es, end, k) \in Nat
  BY <1>1 DEF Border
<1>3. \A j \in i..m : \A k \in j + 1..m + 1 : EndOf(es[j]) < Border(es, end, k)
  BY DEF Shifted
<1>4. ASSUME NEW k \in i + 1..m + 1 PROVE Border(es, end, i + 1) <= Border(es, end, k)
  <2>1. CASE k = i + 1
    BY <1>2, <2>1
  <2>2. CASE k > i + 1
    <3>1. i + 1 \in i..m /\ k \in (i + 1) + 1..m + 1 /\ i + 1 \in 1..m /\ i + 1 # m + 1
      BY <2>2
    <3>2. EndOf(es[i + 1]) < Border(es, end, k)
      BY <1>3, <3>1
    <3>3. Border(es, end, i + 1) = es[i + 1].off
      BY <3>1 DEF Border
    <3>4. k \in 1..m + 1
      BY <2>2
    <3>5. PICK b \in Nat : b = Border(es, end, k)
      BY <1>2, <3>4
    <3>6. es[i + 1].off \in Nat /\ es[i + 1].len \in Nat
      BY <1>1, <3>1
    <3> QED BY <3>2, <3>3, <3>5, <3>6 DEF EndOf
  <2> QED BY <2>1, <2>2
<1>5. i \in i..m /\ i + 1 \in i + 1..m + 1 /\ i # m + 1
  OBVIOUS
<1>6. EndOf(es[i]) < Border(es, end, i + 1)
  BY <1>3, <1>5
<1>7. Border(es, end, i) = es[i].off
  BY <1>5 DEF Border
<1> QED BY <1>2, <1>4, <1>6, <1>7

\* A deleted entry goes, and what is free grows by what it took.
LEMMA ShiftedRemove ==
  ASSUME NEW es, NEW m \in Nat, m = Len(es), NEW end \in Nat, NEW i \in 1..m, NEW adjust,
         Shifted(es, end, i, adjust), NEW span,
         span = IF es[i].off = 0 THEN 0 ELSE Border(es, end, i + 1) - es[i].off,
         NEW ds, Len(ds) = m - 1,
         \A j \in 1..(i - 1) : ds[j] = es[j], \A j \in i..(m - 1) : ds[j] = es[j + 1]
  PROVE  Shifted(ds, end, i, adjust + span)
<1>1. /\ adjust \in Nat
      /\ \A j \in 1..m : es[j].off \in Nat /\ es[j].len \in Nat
      /\ \A j \in 1..i - 1 : ~es[j].deleted
      /\ \A j \in 1..i - 1 : \A k \in j + 1..i - 1 : EndOf(es[j]) < es[k].off
      /\ \A j \in 1..i - 1 : \A k \in i..m + 1 : EndOf(es[j]) < Border(es, end, k) - adjust
      /\ \A j \in i..m : \A k \in j + 1..m + 1 : EndOf(es[j]) < Border(es, end, k)
      /\ \A k \in i..m + 1 : adjust <= Border(es, end, k)
  BY DEF Shifted
<1>2. /\ \A k \in 1..m + 1 : Border(es, end, k) \in Nat
      /\ \A k \in i + 1..m + 1 : Border(es, end, i + 1) <= Border(es, end, k)
      /\ Border(es, end, i) = es[i].off /\ EndOf(es[i]) < Border(es, end, i + 1)
  BY ShiftedBorders
<1>3. PICK b \in Nat : b = Border(es, end, i + 1)
  BY <1>2
<1>4. PICK off \in Nat : off = es[i].off
  BY <1>1
<1>5. off < b /\ adjust <= off
  <2>1. i \in i..m + 1
    OBVIOUS
  <2> QED BY <1>1, <1>2, <1>3, <1>4, <2>1 DEF EndOf
<1>6. span = (IF off = 0 THEN 0 ELSE b - off) /\ span \in Nat
  BY <1>3, <1>4, <1>5
<1>7. ASSUME NEW k \in i..m PROVE Border(ds, end, k) = Border(es, end, k + 1)
  <2>1. CASE k = m
    <3>1. Border(ds, end, k) = end /\ Border(es, end, k + 1) = end
      BY <2>1 DEF Border
    <3> QED BY <3>1
  <2>2. CASE k # m
    <3>1. k \in i..(m - 1) /\ k # Len(ds) + 1 /\ k + 1 # Len(es) + 1
      BY <2>2
    <3>2. Border(ds, end, k) = ds[k].off /\ Border(es, end, k + 1) = es[k + 1].off
      BY <3>1 DEF Border
    <3> QED BY <3>1, <3>2
  <2> QED BY <2>1, <2>2
<1>8. ASSUME NEW j \in 1..(m - 1) PROVE ds[j].off \in Nat /\ ds[j].len \in Nat
  <2>1. CASE j < i
    BY <1>1, <2>1
  <2>2. CASE j >= i
    BY <1>1, <2>2
  <2> QED BY <2>1, <2>2
<1>9. ASSUME NEW j \in 1..i - 1, NEW k \in i..m
      PROVE  EndOf(ds[j]) < Border(ds, end, k) - (adjust + span)
  <2>1. PICK c \in Nat : c = EndOf(es[j])
    BY <1>1 DEF EndOf
  <2>2. c < off - adjust
    <3>1. i \in i..m + 1
      OBVIOUS
    <3> QED BY <1>1, <1>2, <1>4, <2>1, <3>1
  <2>3. PICK d \in Nat : d = Border(es, end, k + 1)
    BY <1>2
  <2>4. b <= d
    BY <1>2, <1>3, <2>3
  <2>5. c < d - (adjust + span)
    BY <1>1, <1>5, <1>6, <2>2, <2>4
  <2>6. EndOf(ds[j]) = c /\ Border(ds, end, k) = d
    BY <1>7, <2>1, <2>3
  <2> QED BY <2>5, <2>6
<1>10. ASSUME NEW j \in i..m - 1, NEW k \in j + 1..m PROVE EndOf(ds[j]) < Border(ds, end, k)
  <2>1. ds[j] = es[j + 1] /\ j + 1 \in i..m /\ k + 1 \in (j + 1) + 1..m + 1 /\ k \in i..m
    OBVIOUS
  <2>2. Border(ds, end, k) = Border(es, end, k + 1)
    BY <1>7, <2>1
  <2> QED BY <1>1, <2>1, <2>2
<1>11. ASSUME NEW k \in i..m PROVE adjust + span <= Border(ds, end, k)
  <2>1. PICK d \in Nat : d = Border(es, end, k + 1)
    BY <1>2
  <2>2. b <= d
    BY <1>2, <1>3, <2>1
  <2>3. adjust + span <= d
    BY <1>1, <1>5, <1>6, <2>2
  <2> QED BY <1>7, <2>1, <2>3
<1>12. /\ i <= Len(ds) + 1 /\ adjust + span \in Nat /\ Len(ds) + 1 = m
       /\ \A j \in 1..i - 1 : ~ds[j].deleted
       /\ \A j \in 1..i - 1 : \A k \in j + 1..i - 1 : EndOf(ds[j]) < ds[k].off
  BY <1>1, <1>6
<1> QED BY <1>8, <1>9, <1>10, <1>11, <1>12 DEF Shifted

\* An entry goes down by what is free in front of it.
LEMMA ShiftedMove ==
  ASSUME NEW es, NEW m \in Nat, m = Len(es), NEW end \in Nat, NEW i \in 1..m, NEW adjust,
         Shifted(es, end, i, adjust), NEW ds, Len(ds) = m,
         \A j \in 1..m : j # i => ds[j] = es[j],
         ds[i].off = es[i].off - adjust, ds[i].len = es[i].len, ~ds[i].deleted
  PROVE  Shifted(ds, end, i + 1, adjust)
<1>1. /\ adjust \in Nat
      /\ \A j \in 1..m : es[j].off \in Nat /\ es[j].len \in Nat
      /\ \A j \in 1..i - 1 : ~es[j].deleted
      /\ \A j \in 1..i - 1 : \A k \in j + 1..i - 1 : EndOf(es[j]) < es[k].off
      /\ \A j \in 1..i - 1 : \A k \in i..m + 1 : EndOf(es[j]) < Border(es, end, k) - adjust
      /\ \A j \in i..m : \A k \in j + 1..m + 1 : EndOf(es[j]) < Border(es, end, k)
      /\ \A k \in i..m + 1 : adjust <= Border(es, end, k)
  BY DEF Shifted
<1>2. /\ \A k \in 1..m + 1 : Border(es, end, k) \in Nat
      /\ Border(es, end, i) = es[i].off
  BY ShiftedBorders
<1>3. PICK off \in Nat : off = es[i].off /\ adjust <= off
  <2>1. i \in i..m + 1
    OBVIOUS
  <2> QED BY <1>1, <1>2, <2>1
<1>4. \A k \in i + 1..m + 1 : Border(ds, end, k) = Border(es, end, k)
  BY DEF Border
<1>5. \A j \in 1..m : ds[j].off \in Nat /\ ds[j].len \in Nat
  BY <1>1, <1>3
<1>6. \A j \in 1..i : ~ds[j].deleted
  BY <1>1
<1>7. ASSUME NEW j \in 1..i, NEW k \in j + 1..i PROVE EndOf(ds[j]) < ds[k].off
  <2>1. ds[j] = es[j] /\ j \in 1..i - 1
    OBVIOUS
  <2>2. CASE k = i
    <3>1. i \in i..m + 1
      OBVIOUS
    <3> QED BY <1>1, <1>2, <2>1, <2>2, <3>1
  <2>3. CASE k < i
    BY <1>1, <2>1, <2>3
  <2> QED BY <2>2, <2>3
<1>8. ASSUME NEW j \in 1..i, NEW k \in i + 1..m + 1
      PROVE  EndOf(ds[j]) < Border(ds, end, k) - adjust
  <2>1. PICK b \in Nat : b = Border(es, end, k) /\ b = Border(ds, end, k)
    BY <1>2, <1>4
  <2>2. CASE j = i
    <3>1. PICK n \in Nat : n = es[i].len
      BY <1>1
    <3>2. off + n < b
      <4>1. i \in i..m
        OBVIOUS
      <4> QED BY <1>1, <1>3, <2>1, <3>1, <4>1 DEF EndOf
    <3>3. EndOf(ds[i]) = (off - adjust) + n
      BY <1>3, <3>1 DEF EndOf
    <3> QED BY <1>1, <2>1, <2>2, <3>2, <3>3
  <2>3. CASE j < i
    <3>1. j \in 1..i - 1 /\ k \in i..m + 1 /\ ds[j] = es[j]
      BY <2>3
    <3>2. EndOf(es[j]) < Border(es, end, k) - adjust
      BY <1>1, <3>1
    <3> QED BY <2>1, <3>1, <3>2
  <2> QED BY <2>2, <2>3
<1>9. ASSUME NEW j \in i + 1..m, NEW k \in j + 1..m + 1 PROVE EndOf(ds[j]) < Border(ds, end, k)
  BY <1>1, <1>4
<1>10. \A k \in i + 1..m + 1 : adjust <= Border(ds, end, k)
  BY <1>1, <1>4
<1>11. (i + 1) - 1 = i /\ i + 1 <= Len(ds) + 1
  OBVIOUS
<1> QED BY <1>1, <1>5, <1>6, <1>7, <1>8, <1>9, <1>10, <1>11 DEF Shifted

\* A deleted entry is taken out of the list.
LEMMA CrunchDeletedKeeps ==
  ASSUME Listed, CurInv, Crunching, CrunchDeleted
  PROVE  Crunching'
<1>1. PICK m \in Nat : m = Len(entries)
  BY DEF Listed, EntryList, IsList
<1>2. PICK i \in 1..m : i = cur.i
  BY <1>1 DEF CrunchDeleted, CurInv
<1>3. PICK end \in Nat : end = eocd.off
  BY DEF Crunching
<1>4. PICK span : span = Span(i)
  OBVIOUS
<1>5. /\ entries' = RemoveAt(entries, i) /\ UNCHANGED <<file, eocd>>
      /\ cur'.i = i /\ cur'.adjust = cur.adjust + span /\ cur'.del = cur.del + 1
  BY <1>2, <1>4 DEF CrunchDeleted, CurInv
<1>6. /\ IsList(entries') /\ Len(entries') = m - 1
      /\ \A j \in 1..(i - 1) : entries'[j] = entries[j]
      /\ \A j \in i..(m - 1) : entries'[j] = entries[j + 1]
  BY <1>1, <1>5, RemoveAtList DEF Listed, EntryList
<1>7. span = IF entries[i].off = 0 THEN 0 ELSE Border(entries, end, i + 1) - entries[i].off
  BY <1>1, <1>2, <1>3, <1>4, SpanIs
<1>8. Shifted(entries, end, i, cur.adjust)
  BY <1>2, <1>3 DEF Crunching
<1>9. Shifted(entries', end, i, cur.adjust + span)
  <2>1. PICK ds : ds = entries'
    OBVIOUS
  <2>2. /\ Len(ds) = m - 1 /\ \A j \in 1..(i - 1) : ds[j] = entries[j]
        /\ \A j \in i..(m - 1) : ds[j] = entries[j + 1]
    BY <1>6, <2>1
  <2>3. PICK adjust : adjust = cur.adjust
    OBVIOUS
  <2>4. Shifted(entries, end, i, adjust)
    BY <1>8, <2>3
  <2>5. Shifted(ds, end, i, adjust + span)
    BY <1>1, <1>7, <2>2, <2>4, ShiftedRemove, ZenonT(30)
  <2> QED BY <2>1, <2>3, <2>5
<1>10. Kept(file, entries')
  <2>1. ASSUME NEW j \in 1..(m - 1), ~entries'[j].deleted PROVE Whole(file, entries'[j])
    <3>1. PICK a \in 1..m : entries'[j] = entries[a]
      BY <1>6
    <3> QED BY <1>1, <2>1, <3>1 DEF Crunching, Kept
  <2> QED BY <1>6, <2>1 DEF Kept
<1>11. cur'.del \in Nat /\ eocd.num = Len(entries') + cur'.del
  <2>1. PICK d \in Nat : d = cur.del /\ eocd.num = m + d
    BY <1>1 DEF Crunching
  <2>2. PICK n : n = Len(entries') /\ n = m - 1
    BY <1>6
  <2>3. cur'.del = d + 1
    BY <1>5, <2>1
  <2>4. eocd.num = n + (d + 1)
    BY <2>1, <2>2
  <2> QED BY <2>1, <2>2, <2>3, <2>4
<1> QED BY <1>3, <1>5, <1>9, <1>10, <1>11 DEF Crunching

\* g is f with n cells copied from behind off to behind to.
Copied(g, f, off, to, n) ==
  /\ IsList(g) /\ Len(g) = Len(f)
  /\ \A a \in 1..Len(f) : a <= to \/ a > to + n => g[a] = f[a]
  /\ \A a \in 1..n : g[to + a] = f[off + a]

\* Copying the bytes of an entry down leaves those before it alone, and those behind it too.
LEMMA MovedDown ==
  ASSUME NEW f, IsList(f), NEW off \in Nat, NEW to \in Nat, to <= off, NEW n \in Nat,
         off + n <= Len(f)
  PROVE  Copied(WriteAt(f, to, SubSeq(f, off + 1, off + n)), f, off, to, n)
<1>0. PICK g : g = WriteAt(f, to, SubSeq(f, off + 1, off + n))
  OBVIOUS
<1>1. PICK q : q = SubSeq(f, off + 1, off + n)
  OBVIOUS
<1>3. Len(f) \in Nat
  BY DEF IsList
<1>4. IsList(q) /\ Len(q) = n /\ \A a \in 1..n : q[a] = f[off + a]
  <2>1. PICK lo \in Nat \ {0} : lo = off + 1
    OBVIOUS
  <2>2. PICK hi \in Nat : hi = off + n
    OBVIOUS
  <2>3. hi <= Len(f) /\ lo <= hi + 1
    BY <2>1, <2>2
  <2>4. PICK r : r = SubSeq(f, lo, hi)
    OBVIOUS
  <2>5. IsList(r) /\ Len(r) = hi - lo + 1 /\ \A a \in 1..(hi - lo + 1) : r[a] = f[lo + a - 1]
    BY <2>3, <2>4, SubList
  <2>6. hi - lo + 1 = n /\ \A a \in 1..n : lo + a - 1 = off + a
    BY <2>1, <2>2
  <2> QED BY <1>1, <2>1, <2>2, <2>4, <2>5, <2>6
<1>5. Wrote(g, f, to, q)
  <2>1. to <= Len(f) /\ g = WriteAt(f, to, q)
    BY <1>0, <1>1, <1>3
  <2> QED BY <1>4, <2>1, WriteAtList
<1>6. /\ IsList(g) /\ Len(g) = IF to + n <= Len(f) THEN Len(f) ELSE to + n
      /\ \A a \in 1..to : g[a] = f[a]
      /\ \A a \in 1..n : g[to + a] = q[a]
      /\ \A a \in (to + n + 1)..Len(f) : g[a] = f[a]
  BY <1>4, <1>5 DEF Wrote
<1>7. to + n <= Len(f)
  BY <1>3
<1>8. IsList(g) /\ Len(g) = Len(f)
  BY <1>6, <1>7
<1>9. \A a \in 1..Len(f) : a <= to \/ a > to + n => g[a] = f[a]
  BY <1>3, <1>6
<1>10. \A a \in 1..n : g[to + a] = f[off + a]
  BY <1>4, <1>6
<1> QED BY <1>0, <1>8, <1>9, <1>10 DEF Copied

\* The entries before it are in front of where it goes, those behind it behind it.
LEMMA MovedKept ==
  ASSUME NEW es, IsList(es), NEW end \in Nat, NEW i \in 1..Len(es), NEW adjust,
         Shifted(es, end, i, adjust), ~es[i].deleted, NEW f, IsList(f), end <= Len(f), Kept(f, es),
         NEW n, n = Border(es, end, i + 1) - es[i].off,
         NEW g, g = WriteAt(f, es[i].off - adjust, SubSeq(f, es[i].off + 1, es[i].off + n)),
         NEW ds, Len(ds) = Len(es), \A j \in 1..Len(es) : j # i => ds[j] = es[j],
         ds[i].off = es[i].off - adjust, ds[i].len = es[i].len, ds[i].name = es[i].name,
         ds[i].method = es[i].method, ds[i].crc = es[i].crc
  PROVE  IsList(g) /\ Len(g) = Len(f) /\ Kept(g, ds)
<1>1. PICK m \in Nat : m = Len(es)
  BY DEF IsList
<1>2. /\ adjust \in Nat
      /\ \A j \in 1..m : es[j].off \in Nat /\ es[j].len \in Nat
      /\ \A j \in 1..i - 1 : \A k \in i..m + 1 : EndOf(es[j]) < Border(es, end, k) - adjust
      /\ \A k \in i..m + 1 : adjust <= Border(es, end, k)
  BY <1>1 DEF Shifted
<1>3. /\ \A k \in 1..m + 1 : Border(es, end, k) \in Nat
      /\ \A k \in i + 1..m + 1 : Border(es, end, i + 1) <= Border(es, end, k)
      /\ Border(es, end, i) = es[i].off /\ EndOf(es[i]) < Border(es, end, i + 1)
  BY <1>1, ShiftedBorders
<1>4. PICK b \in Nat : b = Border(es, end, i + 1)
  BY <1>1, <1>3
<1>5. PICK off \in Nat : off = es[i].off
  BY <1>1, <1>2
<1>6. PICK len \in Nat : len = es[i].len
  BY <1>1, <1>2
<1>7. off + len < b /\ adjust <= off
  <2>1. i \in i..m + 1
    BY <1>1
  <2> QED BY <1>2, <1>3, <1>4, <1>5, <1>6, <2>1 DEF EndOf
<1>8. b <= end
  <2>1. m + 1 \in i + 1..m + 1 /\ Border(es, end, m + 1) = end
    BY <1>1 DEF Border
  <2> QED BY <1>3, <1>4, <2>1
<1>9. n \in Nat /\ n = b - off /\ off + n <= Len(f) /\ Len(f) \in Nat
  BY <1>4, <1>5, <1>7, <1>8 DEF IsList
<1>10. PICK to \in Nat : to = off - adjust
  BY <1>2, <1>7
<1>11. /\ IsList(g) /\ Len(g) = Len(f)
       /\ \A a \in 1..Len(f) : a <= to \/ a > to + n => g[a] = f[a]
       /\ \A a \in 1..n : g[to + a] = f[off + a]
  <2>1. g = WriteAt(f, to, SubSeq(f, off + 1, off + n)) /\ to <= off
    BY <1>2, <1>5, <1>10
  <2>2. Copied(g, f, off, to, n)
    BY <1>9, <2>1, MovedDown
  <2> QED BY <2>2 DEF Copied
<1>12. ASSUME NEW j \in 1..m, j < i, ~ds[j].deleted PROVE Whole(g, ds[j])
  <2>1. ds[j] = es[j] /\ Whole(f, es[j])
    BY <1>1, <1>12 DEF Kept
  <2>2. es[j].off \in Nat /\ es[j].len \in Nat
    BY <1>2
  <2>3. EndOf(es[j]) < to
    <3>1. j \in 1..i - 1 /\ i \in i..m + 1
      BY <1>1, <1>12
    <3> QED BY <1>2, <1>3, <1>5, <1>10, <3>1
  <2>4. ASSUME NEW a \in 1..to PROVE g[a] = f[a]
    <3>1. a \in 1..Len(f) /\ a <= to
      BY <1>2, <1>9, <1>10
    <3> QED BY <1>11, <3>1
  <2> QED BY <2>1, <2>2, <2>3, <2>4, WholeStays
<1>13. Whole(g, ds[i])
  <2>1. Whole(f, es[i])
    BY DEF Kept
  <2>2. g[to + 1] = f[off + 1]
    <3>1. 1 \in 1..n
      BY <1>7, <1>9
    <3> QED BY <1>11, <3>1
  <2>3. ASSUME NEW k \in 1..len PROVE g[to + 1 + k] = f[off + 1 + k]
    <3>1. PICK a \in 1..n : a = 1 + k
      BY <1>7, <1>9
    <3>2. g[to + a] = f[off + a]
      BY <1>11
    <3>3. to + a = to + 1 + k /\ off + a = off + 1 + k
      BY <3>1
    <3> QED BY <3>2, <3>3
  <2>4. ds[i].off = to /\ ds[i].len = len
    BY <1>5, <1>6, <1>10
  <2>5. f[off + 1] = Lfh(es[i]) /\ Lfh(es[i]) = Lfh(ds[i])
    BY <1>5, <2>1 DEF Whole, HeadersAgree, Lfh
  <2>6. \A k \in 1..len : f[off + 1 + k] = <<"data", ds[i].crc, ds[i].method, k>>
    BY <1>5, <1>6, <2>1 DEF Whole
  <2>7. HeadersAgree(g, ds[i])
    BY <2>2, <2>4, <2>5 DEF HeadersAgree
  <2>8. \A k \in 1..ds[i].len : g[ds[i].off + 1 + k] = <<"data", ds[i].crc, ds[i].method, k>>
    BY <2>3, <2>4, <2>6
  <2> QED BY <2>1, <2>7, <2>8 DEF Whole
<1>14. ASSUME NEW j \in 1..m, j > i, ~ds[j].deleted PROVE Whole(g, ds[j])
  <2>1. ds[j] = es[j] /\ Whole(f, es[j])
    BY <1>1, <1>14 DEF Kept
  <2>2. PICK o \in Nat : o = es[j].off
    BY <1>2
  <2>3. PICK l \in Nat : l = es[j].len
    BY <1>2
  <2>4. b <= o /\ o + l < end
    <3>1. j \in i + 1..m + 1 /\ Border(es, end, j) = es[j].off
      BY <1>1, <1>14 DEF Border
    <3>2. j \in i..m /\ m + 1 \in j + 1..m + 1 /\ Border(es, end, m + 1) = end
      BY <1>1, <1>14 DEF Border
    <3>3. EndOf(es[j]) < end
      BY <1>1, <3>2 DEF Shifted
    <3> QED BY <1>3, <1>4, <2>2, <2>3, <3>1, <3>3 DEF EndOf
  <2>5. ASSUME NEW a \in (o + 1)..(o + 1 + l) PROVE g[a] = f[a]
    <3>1. a \in 1..Len(f) /\ a > to + n
      BY <1>2, <1>9, <1>10, <2>4
    <3> QED BY <1>11, <3>1
  <2>6. g[o + 1] = f[o + 1]
    <3>1. o + 1 \in (o + 1)..(o + 1 + l)
      OBVIOUS
    <3> QED BY <2>5, <3>1
  <2>7. ASSUME NEW k \in 1..l PROVE g[o + 1 + k] = f[o + 1 + k]
    <3>1. o + 1 + k \in (o + 1)..(o + 1 + l)
      OBVIOUS
    <3> QED BY <2>5, <3>1
  <2>8. HeadersAgree(g, es[j])
    BY <2>1, <2>2, <2>6 DEF Whole, HeadersAgree
  <2>9. \A k \in 1..es[j].len : g[es[j].off + 1 + k] = <<"data", es[j].crc, es[j].method, k>>
    BY <2>1, <2>2, <2>3, <2>7 DEF Whole
  <2>10. Whole(g, es[j])
    BY <2>1, <2>8, <2>9 DEF Whole
  <2> QED BY <2>1, <2>10
<1>15. Kept(g, ds)
  <2>1. \A j \in 1..m : j < i \/ j = i \/ j > i
    BY <1>1
  <2> QED BY <1>1, <1>12, <1>13, <1>14, <2>1 DEF Kept
<1> QED BY <1>11, <1>15

\* One entry further, or the crunch is given up.
LEMMA CrunchMoveKeeps ==
  ASSUME Listed, CurInv, Crunching, CrunchMove
  PROVE  (Crunching' /\ op' = "crunch")
         \/ (op' = "ready" /\ status' = "error" /\ faults' = faults + 1)
<1>1. PICK m \in Nat : m = Len(entries)
  BY DEF Listed, EntryList, IsList
<1>2. PICK i \in 1..m : i = cur.i
  BY <1>1 DEF CrunchMove, CurInv
<1>3. PICK end \in Nat : end = eocd.off
  BY DEF Crunching
<1>4. PICK adjust \in Nat : adjust = cur.adjust
  BY DEF Crunching, Shifted
<1>5. PICK n : n = IF adjust > 0 THEN Span(i) ELSE 0
  OBVIOUS
<1>6. /\ op = "crunch" /\ ~entries[i].deleted /\ eocd' = eocd
      /\ \/ /\ file' = IF n = 0 THEN file
                       ELSE WriteAt(file, entries[i].off - adjust,
                                    SubSeq(file, entries[i].off + 1, entries[i].off + n))
            /\ entries' = IF n = 0 THEN entries
                          ELSE [entries EXCEPT ![i].off = @ - adjust]
            /\ cur' = [cur EXCEPT !.i = @ + 1] /\ op' = op
         \/ op' = "ready" /\ status' = "error" /\ faults' = faults + 1
  BY <1>2, <1>4, <1>5, Zenon DEF CrunchMove, Reported, IOError
<1>7. SUFFICES ASSUME cur' = [cur EXCEPT !.i = @ + 1], op' = op,
         file' = IF n = 0 THEN file
                 ELSE WriteAt(file, entries[i].off - adjust,
                              SubSeq(file, entries[i].off + 1, entries[i].off + n)),
         entries' = IF n = 0 THEN entries
                    ELSE [entries EXCEPT ![i].off = @ - adjust]
      PROVE Crunching'
  BY <1>6, Zenon
<1>8. cur'.i = i + 1 /\ cur'.adjust = adjust /\ cur'.del = cur.del
  BY <1>2, <1>4, <1>6, <1>7 DEF CurInv
<1>9. Shifted(entries, end, i, adjust) /\ Kept(file, entries) /\ IsList(file) /\ end <= Len(file)
  BY <1>2, <1>3, <1>4 DEF Crunching
<1>10. ASSUME Shifted(entries', end, i + 1, adjust), Kept(file', entries'), IsList(file'),
              Len(file') = Len(file), Len(entries') = Len(entries)
       PROVE  Crunching'
  BY <1>3, <1>6, <1>8, <1>10 DEF Crunching
<1>11. CASE adjust = 0
  <2>1. file' = file /\ entries' = entries
    BY <1>5, <1>7, <1>11
  <2>2. entries[i].off = entries[i].off - adjust
    BY <1>1, <1>9, <1>11 DEF Shifted
  <2>3. Shifted(entries, end, i + 1, adjust)
    BY <1>1, <1>6, <1>9, <2>2, ShiftedMove
  <2> QED BY <1>9, <1>10, <2>1, <2>3
<1>12. CASE adjust # 0
  <2>1. PICK off \in Nat : off = entries[i].off /\ adjust <= off
    <3>1. i \in i..m + 1 /\ Border(entries, end, i) = entries[i].off
      BY <1>1 DEF Border
    <3> QED BY <1>1, <1>9, <3>1 DEF Shifted
  <2>2. n = Border(entries, end, i + 1) - entries[i].off
    BY <1>1, <1>2, <1>3, <1>5, <1>12, <2>1, SpanIs
  <2>3. n # 0
    <3>1. EndOf(entries[i]) < Border(entries, end, i + 1) /\ entries[i].len \in Nat
      BY <1>1, <1>9, ShiftedBorders DEF Shifted
    <3>2. Border(entries, end, i + 1) \in Nat
      BY <1>1, <1>9, ShiftedBorders
    <3> QED BY <2>1, <2>2, <3>1, <3>2 DEF EndOf
  <2>4. PICK x : x = [entries[i] EXCEPT !.off = @ - adjust]
    OBVIOUS
  <2>5. Plain(entries[i])
    BY <1>1 DEF Listed, EntryList
  <2>6. /\ x.off = entries[i].off - adjust /\ x.len = entries[i].len /\ x.name = entries[i].name
        /\ x.method = entries[i].method /\ x.crc = entries[i].crc
    BY <2>4, <2>5 DEF Plain
  <2>7. ~x.deleted
    BY <1>6, <2>4, <2>5 DEF Plain
  <2>8. entries' = [entries EXCEPT ![i] = x]
    BY <1>7, <2>3, <2>4
  <2>9. IsReplaced(entries', entries, i, x)
    <3>1. IsReplaced([entries EXCEPT ![i] = x], entries, i, x)
      BY <1>1, ReplaceList DEF Listed, EntryList
    <3> QED BY <2>8, <3>1
  <2>10. PICK ds : ds = entries'
    OBVIOUS
  <2>11. Len(ds) = m /\ ds[i] = x /\ \A j \in 1..m : j # i => ds[j] = entries[j]
    BY <1>1, <2>9, <2>10 DEF IsReplaced
  <2>12. Shifted(ds, end, i + 1, adjust)
    BY <1>1, <1>9, <2>6, <2>7, <2>11, ShiftedMove
  <2>13. PICK g : g = file'
    OBVIOUS
  <2>14. g = WriteAt(file, entries[i].off - adjust,
                     SubSeq(file, entries[i].off + 1, entries[i].off + n))
    BY <1>7, <2>3, <2>13
  <2>15. IsList(g) /\ Len(g) = Len(file) /\ Kept(g, ds)
    <3>1. i \in 1..Len(entries) /\ IsList(entries) /\ Len(ds) = Len(entries)
      BY <1>1, <2>11 DEF Listed, EntryList
    <3>2. \A j \in 1..Len(entries) : j # i => ds[j] = entries[j]
      BY <1>1, <2>11
    <3>3. /\ ds[i].off = entries[i].off - adjust /\ ds[i].len = entries[i].len
          /\ ds[i].name = entries[i].name /\ ds[i].method = entries[i].method
          /\ ds[i].crc = entries[i].crc
      BY <2>6, <2>11
    <3> QED BY <1>6, <1>9, <2>2, <2>14, <3>1, <3>2, <3>3, MovedKept
  <2> QED BY <1>1, <1>10, <2>10, <2>11, <2>12, <2>13, <2>15
<1> QED BY <1>11, <1>12

\* What is left when the crunch is done.
LEMMA CrunchDonePlaces ==
  ASSUME Listed, CurInv, Crunching, CrunchDone
  PROVE  InPlace' /\ \A i \in 1..Len(entries') : ~entries'[i].deleted
<1>1. PICK m \in Nat : m = Len(entries)
  BY DEF Listed, EntryList, IsList
<1>2. PICK end \in Nat : end = eocd.off
  BY DEF Crunching
<1>3. Shifted(entries, end, cur.i, cur.adjust)
  BY <1>2 DEF Crunching
<1>4. cur.i = m + 1
  BY <1>1, <1>3 DEF CrunchDone, CurInv, Shifted
<1>5. PICK adjust \in Nat : adjust = cur.adjust
  BY <1>3 DEF Shifted
<1>6. /\ \A j \in 1..m : entries[j].off \in Nat /\ entries[j].len \in Nat
      /\ \A j \in 1..m : ~entries[j].deleted
      /\ \A j \in 1..m : \A k \in j + 1..m : EndOf(entries[j]) < entries[k].off
      /\ \A j \in 1..m : EndOf(entries[j]) < end - adjust
      /\ adjust <= end
  <2>1. (m + 1) - 1 = m /\ m + 1 \in (m + 1)..m + 1 /\ Border(entries, end, m + 1) = end
    BY <1>1 DEF Border
  <2> QED BY <1>1, <1>3, <1>4, <1>5, <2>1 DEF Shifted
<1>7. PICK to \in Nat : to = end - adjust
  BY <1>6
<1>8. /\ UNCHANGED <<file, entries>>
      /\ eocd'.off = to /\ eocd'.num = eocd.num - cur.del
  BY <1>2, <1>5, <1>7 DEF CrunchDone
<1>9. eocd.num - cur.del = m
  BY <1>1 DEF Crunching
<1>10. ASSUME NEW j \in 1..m, NEW k \in j + 1..m + 1
       PROVE  entries[j].off + entries[j].len < Border(entries, to, k)
  <2>1. CASE k = m + 1
    BY <1>1, <1>6, <1>7, <2>1 DEF Border, EndOf
  <2>2. CASE k \in j + 1..m
    BY <1>1, <1>6, <2>2 DEF Border, EndOf
  <2> QED BY <2>1, <2>2
<1>11. InOrder(entries, to)
  BY <1>1, <1>6, <1>10, ListDomain DEF InOrder, Listed, EntryList
<1>12. to <= Len(file) /\ IsList(file) /\ Kept(file, entries)
  BY <1>2, <1>7 DEF Crunching, IsList
<1>13. Placed(file, entries, to)
  BY <1>11, <1>12 DEF Placed
<1> QED BY <1>1, <1>6, <1>8, <1>9, <1>13 DEF InPlace

-----------------------------------------------------------------------------
(* The central directory.                                                  *)

\* The CDEs are written behind the entries, or an error is dropped, or the seek failed.
LEMMA CentralWritten ==
  ASSUME Listed, InPlace, AllLive, WriteCentralDir
  PROVE  \/ op' = "end" /\ InPlace' /\ AllLive' /\ DirectoryBehind'
         \/ unreported'
         \/ Lost
<1>1. PICK m \in Nat : m = Len(entries)
  BY DEF Listed, EntryList, IsList
<1>2. PICK off \in Nat : off = eocd.off /\ off <= Len(file) /\ IsList(file)
  BY DEF InPlace, Placed
<1>3. PICK cdes : cdes = [i \in DOMAIN entries |-> Cde(entries[i])]
  OBVIOUS
<1>4. /\ UNCHANGED <<entries, eocd>>
      /\ (file' = WriteAt(file, off, cdes) /\ op' = "end") \/ unreported' \/ Lost
  BY <1>2, <1>3, Zenon DEF WriteCentralDir, Unreported, Reported, IOError, Lost
<1>5. SUFFICES ASSUME file' = WriteAt(file, off, cdes), op' = "end"
      PROVE  InPlace' /\ AllLive' /\ DirectoryBehind'
  BY <1>4
<1>6. DOMAIN entries = 1..m
  BY <1>1, ListDomain DEF Listed, EntryList
<1>7. cdes = [i \in 1..m |-> cdes[i]] /\ \A i \in 1..m : cdes[i] = Cde(entries[i])
  BY <1>3, <1>6
<1>8. IsList(cdes) /\ Len(cdes) = m
  BY <1>7, FunctionIsList
<1>9. Laid(file', file, off, cdes)
  BY <1>2, <1>5, <1>8, WriteAtKeeps
<1>10. /\ IsList(file') /\ off + m <= Len(file')
       /\ \A i \in 1..off : file'[i] = file[i]
       /\ \A i \in 1..m : file'[off + i] = Cde(entries[i])
  BY <1>7, <1>8, <1>9 DEF Laid
<1>11. Placed(file', entries, off)
  <2>1. off <= Len(file')
    BY <1>10 DEF IsList
  <2> QED BY <1>2, <1>10, <2>1, PlacedStays DEF InPlace, Listed, EntryList
<1>12. InPlace'
  BY <1>2, <1>4, <1>11 DEF InPlace
<1>13. AllLive'
  BY <1>4 DEF AllLive
<1>14. DirectoryBehind'
  BY <1>1, <1>2, <1>4, <1>10 DEF DirectoryBehind
<1> QED BY <1>12, <1>13, <1>14

\* The EOCD that a reader finds is the one at the end of the file.
LEMMA EocdAtEnd ==
  ASSUME NEW f, IsList(f), NEW n \in Nat, NEW off, Len(f) \in Nat \ {0},
         f[Len(f)] = <<"eocd", n, off>>
  PROVE  /\ Len(f) \in Eocds(f) /\ Eocds(f) # {}
         /\ ReadEocd(f).num = n /\ ReadEocd(f).off = off
<1>1. DOMAIN f = 1..Len(f)
  BY ListDomain
<1>2. Len(f) \in Eocds(f) /\ \A j \in Eocds(f) : j <= Len(f) /\ j \in Nat
  BY <1>1 DEF Eocds
<1>3. \A i \in Eocds(f) : (\A j \in Eocds(f) : j <= i) => i = Len(f)
  BY <1>2
<1>4. (CHOOSE i \in Eocds(f) : \A j \in Eocds(f) : j <= i) = Len(f)
  BY <1>2, <1>3
<1>5. LastEocd(f) = <<"eocd", n, off>>
  BY <1>4 DEF LastEocd
<1> QED BY <1>2, <1>5 DEF ReadEocd

\* Entries in place, their directory behind them and the EOCD behind that are a sound archive.
LEMMA SoundFile ==
  ASSUME NEW f, f # NoFile, NEW es, EntryList(es), NamedOnce(es), NEW off, Placed(f, es, off),
         \A i \in 1..Len(es) : ~es[i].deleted /\ f[off + i] = Cde(es[i]),
         Len(f) = off + Len(es) + 1, f[Len(f)] = <<"eocd", Len(es), off>>
  PROVE  Sound(f)
<1>1. PICK m \in Nat : m = Len(es)
  BY DEF EntryList, IsList
<1>2. off \in Nat /\ IsList(f) /\ Kept(f, es) /\ InOrder(es, off)
  BY DEF Placed
<1>3. Len(f) = off + m + 1 /\ Len(f) \in Nat \ {0} /\ DOMAIN f = 1..Len(f)
  BY <1>1, <1>2, ListDomain
<1>4. /\ Len(f) \in Eocds(f) /\ Eocds(f) # {}
      /\ ReadEocd(f).num = m /\ ReadEocd(f).off = off
  BY <1>1, <1>2, <1>3, EocdAtEnd
<1>5. PICK rs : rs = ReadCentralDir(f)
  OBVIOUS
<1>6. rs = [i \in 1..m |-> FromCde(f[off + i])]
  BY <1>4, <1>5 DEF ReadCentralDir
<1>7. IsList(rs) /\ Len(rs) = m
  BY <1>6, FunctionIsList
<1>8. ASSUME NEW i \in 1..m
      PROVE  /\ rs[i].name = es[i].name /\ rs[i].off = es[i].off /\ rs[i].method = es[i].method
             /\ rs[i].crc = es[i].crc /\ rs[i].len = es[i].len
  <2>1. rs[i] = FromCde(Cde(es[i]))
    BY <1>1, <1>6
  <2> QED BY <2>1 DEF FromCde, Cde
<1>9. ASSUME NEW i \in 1..m PROVE Whole(f, rs[i]) /\ Whole(f, es[i])
  <2>1. Whole(f, es[i])
    BY <1>1, <1>2 DEF Kept
  <2> QED BY <1>8, <2>1, WholeSame
<1>10. ASSUME NEW i \in 1..m PROVE InitFromCDE(f, off + i)
  <2>1. off + i \in 1..Len(f) /\ f[off + i] = Cde(es[i])
    BY <1>1, <1>2, <1>3
  <2>2. f[off + i][1] = "cde" /\ f[off + i][3] = es[i].off
    BY <2>1 DEF Cde
  <2>3. es[i].off \in Nat /\ es[i].len \in Nat /\ EndOf(es[i]) < off
    BY <1>1, <1>2, PlacedEntry DEF EntryList
  <2>4. es[i].off + 1 \in 1..Len(f)
    BY <1>2, <1>3, <2>3 DEF EndOf
  <2>5. f[es[i].off + 1][1] = "lfh"
    <3>1. f[es[i].off + 1] = Lfh(es[i])
      BY <1>9 DEF Whole, HeadersAgree
    <3> QED BY <3>1 DEF Lfh
  <2> QED BY <1>3, <2>1, <2>2, <2>4, <2>5 DEF InitFromCDE
<1>11. Readable(f)
  BY <1>3, <1>4, <1>10 DEF Readable
<1>12. AllWhole(f)
  BY <1>5, <1>7, <1>9, <1>11, ListDomain DEF AllWhole
<1>13. ASSUME NEW i \in 1..m, NEW j \in 1..m, rs[i].name = rs[j].name PROVE i = j
  BY <1>1, <1>8, <1>13 DEF NamedOnce
<1>14. \A k \in 1..m + 1 : Border(rs, off, k) = Border(es, off, k)
  BY <1>1, <1>7, <1>8 DEF Border
<1>15. ASSUME NEW i \in 1..m
       PROVE  /\ rs[i].off \in Nat /\ rs[i].len \in Nat
              /\ \A j \in i + 1..m + 1 : rs[i].off + rs[i].len < Border(rs, off, j)
  <2>1. DOMAIN es = 1..m
    BY <1>1, ListDomain DEF EntryList
  <2>2. /\ es[i].off \in Nat /\ es[i].len \in Nat
        /\ \A j \in i + 1..m + 1 : es[i].off + es[i].len < Border(es, off, j)
    BY <1>1, <1>2, <2>1 DEF InOrder
  <2>3. \A j \in i + 1..m + 1 : j \in 1..m + 1
    OBVIOUS
  <2> QED BY <1>8, <1>14, <2>2, <2>3
<1>16. InOrder(rs, off)
  BY <1>7, <1>15, ListDomain DEF InOrder
<1>17. f = [i \in 1..(off + m + 1) |-> f[i]]
  BY <1>2, <1>3 DEF IsList
<1>18. \A i, j \in DOMAIN rs : rs[i].name = rs[j].name => i = j
  BY <1>7, <1>13, ListDomain
<1> QED BY <1>1, <1>2, <1>4, <1>5, <1>12, <1>16, <1>17, <1>18, Zenon DEF Sound

\* With the EOCD and the truncation the file ends behind the directory, or an error is dropped.
LEMMA EocdLaid ==
  ASSUME Listed, InPlace, DirectoryBehind, WriteEocd
  PROVE  \/ unreported'
         \/ /\ UNCHANGED <<entries, eocd>> /\ IsList(file')
            /\ Len(file') = eocd.off + Len(entries) + 1
            /\ file'[Len(file')] = <<"eocd", Len(entries), eocd.off>>
            /\ \A i \in 1..eocd.off + Len(entries) : file'[i] = file[i]
<1>1. PICK m \in Nat : m = Len(entries)
  BY DEF Listed, EntryList, IsList
<1>2. PICK off \in Nat : off = eocd.off /\ off <= Len(file) /\ IsList(file)
  BY DEF InPlace, Placed
<1>3. PICK at \in Nat : at = off + m /\ at <= Len(file)
  BY <1>1, <1>2 DEF DirectoryBehind
<1>4. PICK q : q = <<(<<"eocd", m, off>>)>>
  OBVIOUS
<1>5. PICK f : f = WriteAt(file, at, q)
  OBVIOUS
<1>6. /\ UNCHANGED <<entries, eocd>>
      /\ file' = SubSeq(f, 1, at + 1) \/ unreported'
  <2>1. eocd.num = m /\ eocd.off + Len(entries) = at
    BY <1>1, <1>2, <1>3 DEF InPlace
  <2> QED BY <1>2, <1>4, <1>5, <2>1, Zenon DEF WriteEocd, Unreported
<1>7. SUFFICES ASSUME file' = SubSeq(f, 1, at + 1)
      PROVE  /\ IsList(file') /\ Len(file') = at + 1 /\ file'[at + 1] = <<"eocd", m, off>>
             /\ \A i \in 1..at : file'[i] = file[i]
  BY <1>1, <1>2, <1>3, <1>6
<1>8. IsList(q) /\ Len(q) = 1 /\ q[1] = <<"eocd", m, off>>
  BY <1>4, OneCell
<1>9. Laid(f, file, at, q)
  BY <1>2, <1>3, <1>5, <1>8, WriteAtKeeps
<1>10. /\ IsList(f) /\ at + 1 <= Len(f) /\ f[at + 1] = <<"eocd", m, off>>
       /\ \A i \in 1..at : f[i] = file[i]
  BY <1>8, <1>9 DEF Laid
<1>11. PICK n \in Nat : n = at + 1
  OBVIOUS
<1>12. /\ IsList(file') /\ Len(file') = n
       /\ \A i \in 1..n : file'[i] = f[i]
  <2>1. 1 \in Nat \ {0} /\ n <= Len(f) /\ 1 <= n + 1
    BY <1>10, <1>11
  <2>2. PICK g : g = SubSeq(f, 1, n)
    OBVIOUS
  <2>3. IsList(g) /\ Len(g) = n - 1 + 1 /\ \A i \in 1..(n - 1 + 1) : g[i] = f[1 + i - 1]
    BY <1>10, <2>1, <2>2, SubList
  <2>4. n - 1 + 1 = n /\ \A i \in 1..n : 1 + i - 1 = i
    OBVIOUS
  <2>5. file' = g
    BY <1>7, <1>11, <2>2
  <2> QED BY <2>3, <2>4, <2>5
<1> QED BY <1>10, <1>11, <1>12

\* The archive is sound then.
LEMMA EocdWritten ==
  ASSUME Listed, InPlace, AllLive, DirectoryBehind, WriteEocd
  PROVE  (InPlace' /\ (file = NoFile \/ Sound(file))') \/ unreported'
<1>1. PICK m \in Nat : m = Len(entries)
  BY DEF Listed, EntryList, IsList
<1>2. PICK off \in Nat : off = eocd.off /\ off <= Len(file)
  BY DEF InPlace, Placed
<1>3. SUFFICES ASSUME ~unreported' PROVE InPlace' /\ (file' = NoFile \/ Sound(file'))
  OBVIOUS
<1>4. /\ UNCHANGED <<entries, eocd>> /\ IsList(file') /\ Len(file') = off + m + 1
      /\ file'[Len(file')] = <<"eocd", m, off>> /\ \A i \in 1..off + m : file'[i] = file[i]
  BY <1>1, <1>2, <1>3, EocdLaid
<1>5. Placed(file', entries, off)
  <2>1. off <= Len(file') /\ \A i \in 1..off : file'[i] = file[i]
    BY <1>4
  <2> QED BY <1>2, <1>4, <2>1, PlacedStays DEF InPlace, Listed, EntryList
<1>6. InPlace'
  BY <1>2, <1>4, <1>5 DEF InPlace
<1>7. ASSUME NEW i \in 1..m PROVE ~entries[i].deleted /\ file'[off + i] = Cde(entries[i])
  <2>1. off + i \in 1..off + m
    OBVIOUS
  <2> QED BY <1>1, <1>2, <1>4, <2>1 DEF AllLive, DirectoryBehind
<1>8. CASE file' # NoFile
  <2>1. PICK g : g = file'
    OBVIOUS
  <2>2. /\ g # NoFile /\ Placed(g, entries, off) /\ Len(g) = off + Len(entries) + 1
        /\ g[Len(g)] = <<"eocd", Len(entries), off>>
        /\ \A i \in 1..Len(entries) : ~entries[i].deleted /\ g[off + i] = Cde(entries[i])
    BY <1>1, <1>4, <1>5, <1>7, <1>8, <2>1
  <2>3. EntryList(entries) /\ NamedOnce(entries)
    BY DEF Listed
  <2>4. Sound(g)
    BY <2>2, <2>3, SoundFile
  <2> QED BY <1>6, <2>1, <2>4
<1> QED BY <1>6, <1>8

-----------------------------------------------------------------------------
(* The layout of the archive behind every step.                            *)

\* A step has at most one I/O error, and forgets none that was dropped.
FaultStep ==
  /\ faults' = faults \/ faults' = faults + 1
  /\ unreported' = unreported \/ unreported' = TRUE

\* All steps do.
LEMMA FaultSteps ==
  ASSUME [Next]_vars
  PROVE  FaultStep
<1> USE DEF FaultStep, NoIOError, Reported, Unreported, IOError
<1>1. ASSUME NEW es, NEW name, NEW v, NEW method, NEW when,
             AddBegin(es, name, v, method, when) \/ AddRefused(es, name)
      PROVE  FaultStep
  BY <1>1, Zenon DEF AddBegin, AddRefused
<1>2. ASSUME NEW es, Touch(es) PROVE FaultStep
  BY <1>2 DEF Touch
<1>3. ASSUME UNCHANGED zipVars PROVE FaultStep
  BY <1>3 DEF zipVars
<1>4. ASSUME Close \/ FlushBegin \/ (\E f : Open(f)) PROVE FaultStep
  BY <1>4, Zenon DEF Close, FlushBegin, Open
<1>5. ASSUME NEW es, NEW o, AddOutput(es, o) PROVE FaultStep
  BY <1>1, <1>5, AddOutputCases
<1>6. ASSUME NEW s \in Names, NEW t \in 1..MaxClock, Edit(s, t) PROVE FaultStep
  BY <1>3, <1>6 DEF Edit
<1>7. ASSUME NEW cmd, NEW outs, Begin(cmd, outs) PROVE FaultStep
  <2>1. UNCHANGED zipVars \/ \E f : Open(f) /\ unreported' = unreported
    BY <1>7, Zenon DEF Begin
  <2> QED BY <1>3, <1>4, <2>1
<1>8. CASE Kill
  BY <1>4, <1>8 DEF Kill, ZipKilled
<1>9. CASE ProcessFile
  BY <1>2, <1>5, <1>9, ProcessFileCases DEF FileFails
<1>10. CASE Added
  BY <1>2, <1>3, <1>10 DEF Added
<1>11. CASE ProcessClass
  <2>1. \/ \E name, v, method, when : AddBegin(entries, name, v, method, when)
        \/ \E name : AddRefused(entries, name)
        \/ Reported
    BY <1>11, Zenon DEF ProcessClass
  <2> QED BY <1>1, <2>1
<1>12. CASE CruftAndFlush
  BY <1>4, <1>12 DEF CruftAndFlush
<1>13. CASE Flushed
  BY <1>3, <1>4, <1>13 DEF Flushed
<1>14. CASE AddSpec
  BY <1>1, <1>14 DEF AddSpec
<1>15. CASE SpecAdded \/ SpecsDone
  BY <1>3, <1>15 DEF SpecAdded, SpecsDone
<1>16. CASE RemoveSpecs
  BY <1>16 DEF RemoveSpecs
<1>17. CASE RemoveFlush \/ DestructorFlush
  BY <1>3, <1>4, <1>17 DEF RemoveFlush, DestructorFlush
<1>18. CASE Bail
  BY <1>4, <1>18 DEF Bail
<1>19. CASE ZipSteps
  <2> USE DEF ZipSteps
  <2>1. CASE AddDeflated \/ AddStored \/ AddGzip
    BY <2>1, Zenon DEF AddDeflated, AddStored, AddGzip, Store, AddFails, AddData, AddEnd, AddBlank,
                       AddLost
  <2>2. CASE CrunchDeleted \/ CrunchMove \/ CrunchDone
    BY <2>2, Zenon DEF CrunchDeleted, CrunchMove, CrunchDone
  <2>3. CASE WriteCentralDir \/ WriteEocd
    BY <2>3, Zenon DEF WriteCentralDir, WriteEocd
  <2> QED BY <1>19, <2>1, <2>2, <2>3 DEF ZipStep
<1>20. CASE UNCHANGED vars
  BY <1>3, <1>20 DEF vars
<1> QED BY <1>6, <1>7, <1>8, <1>9, <1>10, <1>11, <1>12, <1>13, <1>14, <1>15, <1>16, <1>17, <1>18,
           <1>19, <1>20 DEF Next

\* What is trusted behind a step of a command was trusted before it.
LEMMA TrustedBefore ==
  ASSUME PcInv, FaultStep, UNCHANGED <<before, command, outputs>>, Trusted'
  PROVE  Trusted /\ ~unreported'
<1>1. before' = before /\ Listens' = Listens
  BY DEF Listens, NoClasses, Packaging
<1>2. ~unreported' /\ ~unreported
  BY DEF Trusted, FaultStep
<1>3. faults' = 0 => faults = 0
  BY DEF FaultStep, PcInv
<1> QED BY <1>1, <1>2, <1>3 DEF Trusted

\* A step between methods that leaves the file alone, but may delete entries.
LEMMA LayoutKept ==
  ASSUME Listed, Layout, op = "ready", op' = "ready", UNCHANGED <<file, eocd>>,
         Thinned(entries', entries), ~needRewrite' => ~needRewrite,
         pc' = "closing" => ~needRewrite'
  PROVE  Layout'
<1>1. InPlace /\ (~needRewrite => file = NoFile \/ Sound(file))
  BY DEF Layout
<1>2. PICK es : es = entries'
  OBVIOUS
<1>3. Placed(file, es, eocd.off) /\ Len(es) = Len(entries)
  BY <1>1, <1>2, PlacedThinned DEF InPlace, Listed, EntryList, Thinned
<1>4. InPlace'
  BY <1>1, <1>2, <1>3 DEF InPlace
<1> QED BY <1>1, <1>4 DEF Layout

\* An addition begins or is refused.
LEMMA AddLayout ==
  ASSUME Listed, Layout, PcInv, op = "ready", NEW es, Thinned(es, entries),
         NEW name, NEW v, NEW method, NEW when, pc' # "closing", ~unreported',
         AddBegin(es, name, v, method, when) \/ AddRefused(es, name)
  PROVE  Layout'
<1>1. InPlace /\ (~needRewrite => file = NoFile \/ Sound(file))
  BY DEF Layout
<1>2. CASE AddBegin(es, name, v, method, when)
  <2>1. InPlace' /\ (eocd.off + 1 <= Len(file))'
    BY <1>1, <1>2, AddBeginPlaced
  <2>2. op' = "adding" /\ needRewrite'
    BY <1>2 DEF AddBegin
  <2> QED BY <2>1, <2>2 DEF Layout
<1>3. CASE AddRefused(es, name)
  <2>1. InPlace'
    BY <1>1, <1>3, AddRefusedPlaced
  <2>2. op' = "ready" /\ file' = file /\ (~needRewrite' => ~needRewrite)
    BY <1>3, Zenon DEF AddRefused
  <2> QED BY <1>1, <2>1, <2>2 DEF Layout
<1> QED BY <1>2, <1>3

\* A flush begins.
LEMMA FlushLayout ==
  ASSUME Listed, Layout, FlushBegin
  PROVE  Layout'
<1>1. Crunching' /\ op' = "crunch"
  BY CrunchBegins DEF Layout, FlushBegin
<1> QED BY <1>1 DEF Layout

\* A step of a method.
LEMMA ZipLayout ==
  ASSUME Listed, PcInv, CurInv, Sane, Layout, ZipSteps, Sane', ~unreported'
  PROVE  Layout'
<1>0. UNCHANGED <<pc, result, command, before, outputs>> /\ ZipStep
  BY DEF ZipSteps
<1>1. CASE AddDeflated \/ AddStored \/ AddGzip
  <2>1. op = "adding" /\ op' = "ready" /\ needRewrite' = needRewrite
    BY <1>1, Zenon DEF AddDeflated, AddStored, AddGzip, Store, AddFails, AddData, AddEnd, AddBlank,
                       AddLost, AddEntry
  <2>2. /\ InPlace /\ needRewrite /\ eocd.off + 1 <= Len(file)
        /\ cur.v \in Contents /\ cur.head = 1
    BY <2>1 DEF Layout, CurInv, Sane, Trusted
  <2>5. ~Lost
    <3>1. SUFFICES ASSUME Lost PROVE FALSE
      OBVIOUS
    <3>2. Packaging /\ NoClasses
      <4>1. faults' # 0
        BY <3>1 DEF Lost, PcInv
      <4> QED BY <1>0, <4>1 DEF Sane, Trusted, Listens, Packaging, NoClasses
    <3>3. pc = "added"
      BY <2>1, <3>2 DEF PcInv, CurInv, Packaging
    <3> QED BY <1>0, <3>1, <3>3 DEF Sane, Lost
  <2>3. InPlace'
    BY <1>1, <2>2, <2>5, AddPlaced
  <2>4. needRewrite' /\ pc' # "closing"
    BY <1>0, <2>1, <2>2 DEF PcInv
  <2> QED BY <2>1, <2>3, <2>4 DEF Layout
<1>2. CASE CrunchDeleted
  <2>1. op = "crunch" /\ op' = "crunch"
    BY <1>2 DEF CrunchDeleted
  <2> QED BY <1>2, <2>1, CrunchDeletedKeeps DEF Layout
<1>3. CASE CrunchMove
  <2>1. op = "crunch"
    BY <1>3 DEF CrunchMove
  <2>2. CASE Crunching' /\ op' = "crunch"
    BY <2>2 DEF Layout
  <2>3. CASE op' = "ready" /\ status' = "error" /\ faults' = faults + 1
    <3>1. faults' # 0
      BY <2>3 DEF PcInv
    <3>2. Packaging /\ result = "ok"
      BY <1>0, <3>1 DEF Sane, Trusted, Listens, NoClasses, Packaging
    <3>3. pc = "flushed"
      BY <2>1, <3>2 DEF PcInv, Sane
    <3> QED BY <1>0, <2>3, <3>3 DEF Sane
  <2> QED BY <1>3, <2>1, <2>2, <2>3, CrunchMoveKeeps DEF Layout
<1>4. CASE CrunchDone
  <2>1. op = "crunch" /\ op' = "central"
    BY <1>4 DEF CrunchDone
  <2>2. InPlace' /\ AllLive'
    BY <1>4, <2>1, CrunchDonePlaces DEF Layout, AllLive
  <2> QED BY <2>1, <2>2 DEF Layout
<1>5. CASE WriteCentralDir
  <2>1. op = "central"
    BY <1>5 DEF WriteCentralDir
  <2>3. ~Lost
    <3>1. SUFFICES ASSUME Lost PROVE FALSE
      OBVIOUS
    <3>2. Packaging /\ result = "ok"
      <4>1. faults' # 0
        BY <3>1 DEF Lost, PcInv
      <4> QED BY <1>0, <4>1 DEF Sane, Trusted, Listens, NoClasses, Packaging
    <3>3. pc = "flushed"
      BY <2>1, <3>2 DEF PcInv, Sane
    <3> QED BY <1>0, <3>1, <3>3 DEF Sane, Lost
  <2>2. op' = "end" /\ InPlace' /\ AllLive' /\ DirectoryBehind'
    BY <1>5, <2>1, <2>3, CentralWritten DEF Layout
  <2> QED BY <2>2 DEF Layout
<1>6. CASE WriteEocd
  <2>1. op = "end" /\ op' = "ready" /\ ~needRewrite'
    BY <1>6, Zenon DEF WriteEocd
  <2>2. InPlace' /\ (file = NoFile \/ Sound(file))'
    BY <1>6, <2>1, EocdWritten DEF Layout
  <2> QED BY <2>1, <2>2 DEF Layout
<1> QED BY <1>0, <1>1, <1>2, <1>3, <1>4, <1>5, <1>6 DEF ZipStep

\* The archive is opened.
LEMMA OpenLayout ==
  ASSUME NEW f, f = NoFile \/ Sound(f), Open(f), pc' = "files"
  PROVE  Layout'
<1>1. op' = "ready"
  BY DEF Open
<1>2. CASE f = NoFile
  <2>1. /\ file' = << >> /\ entries' = << >> /\ eocd' = [num |-> 0, off |-> 0]
        /\ needRewrite'
    BY <1>2 DEF Open, Readable
  <2>2. InOrder(<< >>, 0) /\ Kept(<< >>, << >>)
    BY EmptyEntries, ListDomain DEF InOrder, Kept
  <2>3. Placed(<< >>, << >>, 0)
    BY <2>2, EmptyEntries DEF Placed
  <2>4. InPlace'
    BY <2>1, <2>3, EmptyEntries DEF InPlace
  <2> QED BY <1>1, <2>1, <2>4 DEF Layout
<1>3. CASE f # NoFile /\ Sound(f)
  <2>1. Readable(f)
    BY <1>3 DEF Sound, AllWhole
  <2>2. file' = f /\ entries' = ReadCentralDir(f) /\ eocd' = ReadEocd(f)
    BY <1>3, <2>1 DEF Open
  <2>3. InPlace'
    BY <1>3, <2>2, SoundPlaced, SoundEntries DEF InPlace
  <2>4. file' = NoFile \/ Sound(file')
    BY <1>3, <2>2
  <2> QED BY <1>1, <2>3, <2>4 DEF Layout
<1> QED BY <1>2, <1>3

\* A command that is sane behind a step was sane before it, or has just begun.
LEMMA SaneBefore ==
  ASSUME PcInv, [Next]_vars, Sane', UNCHANGED <<before, command, outputs>>,
         pc # "idle", result = "ok",
         pc \in {"added", "flushed"} /\ op = "ready" => status = "ok"
  PROVE  Sane /\ ~unreported'
<1>1. FaultStep
  BY FaultSteps
<1>2. Trusted /\ ~unreported'
  BY <1>1, TrustedBefore DEF Sane
<1> QED BY <1>2 DEF Sane

\* The layout is kept by every step.
LEMMA LayStep ==
  SourceInv /\ PcInv /\ CurInv /\ UniqueInv /\ LayInv /\ [Next]_vars => LayInv'
<1> SUFFICES ASSUME SourceInv, PcInv, CurInv, UniqueInv, LayInv, [Next]_vars, Sane'
             PROVE  Layout'
  BY DEF LayInv
<1>a. ASSUME UNCHANGED <<before, command, outputs>>, pc # "idle", result = "ok",
             pc \in {"added", "flushed"} /\ op = "ready" => status = "ok"
      PROVE  Sane /\ ~unreported' /\ Layout /\ Listed /\ Free
  <2>1. Sane /\ ~unreported'
    BY <1>a, SaneBefore
  <2>2. before.sound
    BY <2>1 DEF Sane, Trusted
  <2> QED BY <2>1, <2>2 DEF LayInv, UniqueInv
<1>b. pc' # "idle" /\ result' = "ok"
  BY DEF Sane
<1>c. ASSUME Layout, UNCHANGED zipVars, op = "ready", pc' = "closing" => ~needRewrite
      PROVE Layout'
  BY <1>c DEF Layout, zipVars, InPlace
<1>1. ASSUME NEW s \in Names, NEW t \in 1..MaxClock, Edit(s, t) PROVE Layout'
  BY <1>1, <1>b DEF Edit
<1>2. ASSUME NEW cmd \in {"update", "force", "plain", "add", "remove"}, NEW outs,
             Begin(cmd, outs)
      PROVE  Layout'
  <2>1. PICK f : /\ before'.sound = (f = NoFile \/ Sound(f))
                 /\ \/ ~before'.opened
                    \/ Open(f) /\ pc' = "files"
                    \/ pc' = "idle"
    BY <1>2, Zenon DEF Begin
  <2>2. before'.opened /\ before'.sound
    BY DEF Sane, Trusted
  <2>3. Open(f) /\ pc' = "files" /\ (f = NoFile \/ Sound(f))
    BY <1>b, <2>1, <2>2
  <2> QED BY <2>3, OpenLayout
<1>3. CASE Kill
  BY <1>3, <1>b DEF Kill
<1>d. ~unreported'
  BY DEF Sane, Trusted
<1>4. ASSUME op = "ready", Layout, Listed, NEW es, AddOutput(es, Head(todo)), Thinned(es, entries)
      PROVE  Layout'
  <2>1. pc' = "added"
    BY <1>4, AddOutputCases DEF Goes
  <2> QED BY <1>4, <1>d, <2>1, AddOutputCases, AddLayout
<1>5. CASE ProcessFile
  <2>1. /\ pc = "files" /\ op = "ready" /\ UNCHANGED <<before, command, outputs>>
        /\ pc' \in {"files", "added", "close"}
    BY <1>5, ProcessFileCases, AddOutputCases DEF FileFails, Goes, Done
  <2>2. Layout /\ Listed
    BY <1>a, <2>1 DEF PcInv
  <2>3. ASSUME NEW es, Touch(es), Thinned(es, entries) PROVE Layout'
    <3>1. entries' = es /\ UNCHANGED <<file, eocd, needRewrite, op>>
      BY <2>3 DEF Touch
    <3> QED BY <2>1, <2>2, <2>3, <3>1, LayoutKept
  <2>4. CASE Touch(entries)
    BY <2>2, <2>3, <2>4, ThinnedSelf DEF Listed
  <2>5. CASE FileFails
    BY <1>b, <2>5 DEF FileFails
  <2>6. CASE AddOutput(entries, Head(todo))
    BY <1>4, <2>1, <2>2, <2>6, ThinnedSelf DEF Listed
  <2>7. PICK i : i = EntryByName(entries, Head(todo).name)
    OBVIOUS
  <2>8. CASE Found(entries, Head(todo).name) # {} /\ Touch(SetMarked(entries, i))
    <3>1. i \in 1..Len(entries)
      BY <2>2, <2>7, <2>8, EntryFound DEF Listed
    <3>2. Thinned(SetMarked(entries, i), entries)
      BY <2>2, <3>1, MarkedThinned DEF Listed
    <3> QED BY <2>3, <2>8, <3>2
  <2>9. CASE Found(entries, Head(todo).name) # {} /\ AddOutput(SetDeleted(entries, i), Head(todo))
    <3>1. i \in 1..Len(entries)
      BY <2>2, <2>7, <2>9, EntryFound DEF Listed
    <3>2. Thinned(SetDeleted(entries, i), entries)
      BY <2>2, <3>1, DeletedThinned DEF Listed
    <3> QED BY <1>4, <2>1, <2>2, <2>9, <3>2
  <2> QED BY <1>5, <2>4, <2>5, <2>6, <2>7, <2>8, <2>9, ProcessFileCases
<1>6. CASE Added
  <2>1. /\ pc = "added" /\ op = "ready" /\ UNCHANGED <<before, command, outputs>>
        /\ pc' \in {"files", "close"} /\ status = "ok"
    BY <1>6, <1>b DEF Added, Goes, Done
  <2>2. Layout /\ Listed
    BY <1>a, <2>1 DEF PcInv
  <2>3. CASE UNCHANGED zipVars
    BY <1>c, <2>1, <2>2, <2>3
  <2>4. CASE Touch(SetMarked(entries, Len(entries)))
    <3>1. Len(entries) \in Nat /\ IsList(entries) /\ EntryList(entries)
      BY <2>2 DEF Listed, EntryList, IsList
    <3>2. entries' = SetMarked(entries, Len(entries)) /\ UNCHANGED <<file, eocd, needRewrite, op>>
      BY <2>4 DEF Touch
    <3>3. Thinned(SetMarked(entries, Len(entries)), entries)
      <4>1. CASE Len(entries) \in 1..Len(entries)
        BY <3>1, <4>1, MarkedThinned
      <4>2. CASE Len(entries) = 0
        <5>1. DOMAIN entries = {}
          BY <3>1, <4>2, ListDomain
        <5>2. SetMarked(entries, Len(entries)) = entries
          BY <3>1, <4>2, <5>1 DEF SetMarked, IsList
        <5> QED BY <3>1, <5>2, ThinnedSelf
      <4> QED BY <3>1, <4>1, <4>2
    <3> QED BY <2>1, <2>2, <3>2, <3>3, LayoutKept
  <2> QED BY <1>6, <2>3, <2>4 DEF Added
<1>7. CASE ProcessClass
  <2>1. /\ pc = "files" /\ op = "ready" /\ UNCHANGED <<before, command, outputs>>
        /\ \/ pc' = "files" /\ \/ \E name, v, method, when : AddBegin(entries, name, v, method, when)
                               \/ \E name : AddRefused(entries, name)
           \/ result' = "error"
    BY <1>7, Zenon DEF ProcessClass, Goes, Done
  <2>2. Layout /\ Listed
    BY <1>a, <2>1 DEF PcInv
  <2>3. Thinned(entries, entries)
    BY <2>2, ThinnedSelf DEF Listed
  <2> QED BY <1>b, <1>d, <2>1, <2>2, <2>3, AddLayout
<1>8. CASE CruftAndFlush
  <2>1. /\ pc = "files" /\ op = "ready" /\ UNCHANGED <<before, command, outputs>> /\ pc' = "flushed"
        /\ \/ FlushBegin
           \/ UNCHANGED <<file, entries, eocd, needRewrite, op>>
    BY <1>8 DEF CruftAndFlush, Goes
  <2>2. Layout /\ Listed
    BY <1>a, <2>1 DEF PcInv
  <2>3. Thinned(entries, entries)
    BY <2>2, ThinnedSelf DEF Listed
  <2>4. CASE FlushBegin
    BY <2>2, <2>4, FlushLayout
  <2>5. CASE UNCHANGED <<file, entries, eocd, needRewrite, op>>
    BY <2>1, <2>2, <2>3, <2>5, LayoutKept
  <2> QED BY <2>1, <2>4, <2>5
<1>9. CASE Flushed
  <2>1. /\ pc = "flushed" /\ op = "ready" /\ UNCHANGED <<before, command, outputs>>
        /\ status = "ok" /\ pc' = "close" /\ UNCHANGED zipVars
    BY <1>9, <1>b DEF Flushed, Goes
  <2>2. Layout
    BY <1>a, <2>1 DEF PcInv
  <2> QED BY <1>c, <2>1, <2>2
<1>10. CASE AddSpec
  <2>1. /\ pc = "files" /\ op = "ready" /\ UNCHANGED <<before, command, outputs>> /\ pc' = "specAdded"
        /\ \/ \E name, v, method, when : AddBegin(entries, name, v, method, when)
           \/ \E name : AddRefused(entries, name)
    BY <1>10, Zenon DEF AddSpec, Goes
  <2>2. Layout /\ Listed
    BY <1>a, <2>1 DEF PcInv
  <2>3. Thinned(entries, entries)
    BY <2>2, ThinnedSelf DEF Listed
  <2> QED BY <1>d, <2>1, <2>2, <2>3, AddLayout
<1>11. CASE SpecAdded \/ SpecsDone
  <2>1. /\ pc \in {"files", "specAdded"} /\ op = "ready" /\ UNCHANGED <<before, command, outputs>>
        /\ pc' \in {"files", "close"} /\ UNCHANGED zipVars
    BY <1>11 DEF SpecAdded, SpecsDone, Goes, Done
  <2>2. Layout
    BY <1>a, <2>1 DEF PcInv
  <2> QED BY <1>c, <2>1, <2>2
<1>12. CASE RemoveSpecs
  <2>1. /\ pc = "files" /\ op = "ready" /\ UNCHANGED <<before, command, outputs>> /\ pc' = "removed"
        /\ UNCHANGED <<file, eocd, op>>
    BY <1>12 DEF RemoveSpecs, Goes
  <2>2. Layout /\ Listed
    BY <1>a, <2>1 DEF PcInv
  <2>3. /\ \E S : entries' = [i \in DOMAIN entries |->
                    IF i \in S THEN [entries[i] EXCEPT !.deleted = TRUE] ELSE entries[i]]
        /\ ~needRewrite' => ~needRewrite
    BY <1>12, Zenon DEF RemoveSpecs
  <2>4. Thinned(entries', entries)
    BY <2>2, <2>3, SetThinned DEF Listed
  <2> QED BY <2>1, <2>2, <2>3, <2>4, LayoutKept
<1>13. CASE RemoveFlush
  <2>1. /\ pc = "removed" /\ op = "ready" /\ UNCHANGED <<before, command, outputs, result>>
        /\ pc' = "close" /\ (FlushBegin \/ UNCHANGED zipVars)
    BY <1>13 DEF RemoveFlush, Goes
  <2>2. Layout /\ Listed
    BY <1>a, <1>b, <2>1
  <2> QED BY <1>c, <2>1, <2>2, FlushLayout
<1>14. CASE DestructorFlush
  <2>1. /\ pc = "close" /\ UNCHANGED <<before, command, outputs, result>> /\ FlushBegin
    BY <1>14 DEF DestructorFlush, Goes
  <2>2. Layout /\ Listed
    BY <1>a, <1>b, <2>1
  <2> QED BY <2>1, <2>2, FlushLayout
<1>15. CASE Bail
  BY <1>15, <1>b DEF Bail, Goes
<1>16. CASE ZipSteps
  <2>1. UNCHANGED <<before, command, outputs, result, pc>> /\ op # "closed" /\ op # "ready"
    BY <1>16, Zenon DEF ZipSteps, ZipStep, AddDeflated, AddStored, AddGzip, CrunchDeleted,
                        CrunchMove, CrunchDone, WriteCentralDir, WriteEocd
  <2>2. Sane /\ ~unreported' /\ Layout /\ Listed
    BY <1>a, <1>b, <2>1
  <2> QED BY <1>16, <2>2, ZipLayout
<1>17. CASE UNCHANGED vars
  <2>1. Sane' = Sane /\ Layout' = Layout
    BY <1>17 DEF vars, zipVars, Sane, Trusted, Listens, NoClasses, Packaging, Layout, InPlace, Crunching,
                 AllLive, DirectoryBehind
  <2> QED BY <2>1 DEF LayInv
<1> QED BY <1>1, <1>2, <1>3, <1>5, <1>6, <1>7, <1>8, <1>9, <1>10, <1>11, <1>12, <1>13, <1>14, <1>15,
           <1>16, <1>17 DEF Next

-----------------------------------------------------------------------------
(* What a command that reports success leaves behind.                      *)

\* The archive is sound when the command ends, and stays so until the next one begins.
LEMMA SuccessStep ==
  WriterInv /\ [Next]_vars => SuccessIsSound'
<1> SUFFICES ASSUME WriterInv, [Next]_vars, Reports', Trusted'
             PROVE  file' = NoFile \/ Sound(file')
  BY DEF SuccessIsSound
<1> USE DEF WriterInv
<1>a. pc' = "idle" /\ result' = "ok" /\ before'.opened
  BY DEF Reports
<1>b. ASSUME UNCHANGED <<pc, result, before, command, outputs, zipVars>>
      PROVE  file' = NoFile \/ Sound(file')
  <2>1. Reports' = Reports /\ Trusted' = Trusted /\ file' = file
    BY <1>b DEF Reports, Trusted, Listens, NoClasses, Packaging, zipVars
  <2> QED BY <2>1 DEF SuccessIsSound
<1>1. ASSUME NEW s \in Names, NEW t \in 1..MaxClock, Edit(s, t)
      PROVE  file' = NoFile \/ Sound(file')
  BY <1>1, <1>b DEF Edit
<1>2. ASSUME NEW cmd \in {"update", "force", "plain", "add", "remove"}, NEW outs,
             Begin(cmd, outs)
      PROVE  file' = NoFile \/ Sound(file')
  <2>1. ~before'.opened \/ pc' # "idle"
    BY <1>2, Zenon DEF Begin
  <2> QED BY <1>a, <2>1
<1>3. CASE Kill
  BY <1>3, <1>a DEF Kill
<1>4. CASE Flushed
  BY <1>4, <1>a DEF Flushed, Goes
<1>5. CASE Bail
  <2>1. /\ op = "ready" /\ pc \in {"close", "closing"} /\ (pc = "close" => ~needRewrite)
        /\ UNCHANGED <<result, before, command, outputs>>
        /\ file' \in {NoFile, file}
    BY <1>5 DEF Bail, Goes
  <2>2. FaultStep
    BY FaultSteps
  <2>3. Sane
    BY <1>a, <2>1, <2>2, TrustedBefore DEF Sane
  <2>4. ~needRewrite /\ (file = NoFile \/ Sound(file))
    BY <2>1, <2>3 DEF LayInv, Layout
  <2> QED BY <2>1, <2>4
<1>6. CASE UNCHANGED vars
  BY <1>6, <1>b DEF vars
<1>7. CASE ZipSteps
  <2>1. pc' = pc /\ op # "closed"
    BY <1>7, Zenon DEF ZipSteps, ZipStep, AddDeflated, AddStored, AddGzip, CrunchDeleted,
                       CrunchMove, CrunchDone, WriteCentralDir, WriteEocd
  <2> QED BY <1>a, <2>1 DEF PcInv
<1>8. CASE ProcessFile
  BY <1>8, <1>a, ProcessFileCases, AddOutputCases DEF FileFails, Goes, Done
<1>9. CASE Added \/ ProcessClass \/ CruftAndFlush \/ AddSpec \/ SpecAdded \/ RemoveSpecs
           \/ RemoveFlush \/ SpecsDone \/ DestructorFlush
  <2>1. pc' # "idle"
    BY <1>9, Zenon DEF Added, ProcessClass, CruftAndFlush, AddSpec, SpecAdded, RemoveSpecs,
                       RemoveFlush, SpecsDone, DestructorFlush, Goes, Done
  <2> QED BY <1>a, <2>1
<1> QED BY <1>1, <1>2, <1>3, <1>4, <1>5, <1>6, <1>7, <1>8, <1>9 DEF Next

\* The invariant holds: where the command is, what it works on, the names of the entries, and the
\* layout of the archive between and inside the methods of ZipFile.
THEOREM WriterInvariance == Spec => []WriterInv
<1>1. Init => WriterInv
  BY WriterInit
<1>2. WriterInv /\ [Next]_vars => WriterInv'
  BY SourceStep, PcStep, CurStep, UniqueStep, LayStep, SuccessStep DEF WriterInv
<1> QED BY <1>1, <1>2, PTL DEF Spec

\* No two live entries of an open archive have the same name (NamesUnique): the removal of the
\* entry that is replaced, the refusal of a name that is taken, and the crunch keep it so.
THEOREM UniqueNames == Spec => []NamesUnique
<1>1. WriterInv => NamesUnique
  BY ListDomain DEF WriterInv, UniqueInv, Listed, EntryList, NamedOnce, NamesUnique
<1> QED BY <1>1, WriterInvariance, PTL

\* A command that reports success leaves a sound archive or none (SuccessIsSound).
THEOREM SoundSuccess == Spec => []SuccessIsSound
<1>1. WriterInv => SuccessIsSound
  BY DEF WriterInv
<1> QED BY <1>1, WriterInvariance, PTL
=============================================================================
