------------------------- MODULE ApkContentsProofs -------------------------
(***************************************************************************)
(* What an archive contains, for all contents, output sets and arguments,  *)
(* and any number of processes and failures: TypeOK, which holds of every  *)
(* archive a dying process can leave behind and not of the sound ones only,*)
(* and the two action properties of ApkWriter, that a package run which    *)
(* reports success has written the outputs it was given and nothing new,   *)
(* and that the sources among them are as they were when it began.         *)
(***************************************************************************)
EXTENDS ApkWriterProofs, FiniteSetTheorems

-----------------------------------------------------------------------------
(* Numbers.                                                                *)

\* A set of numbers that is not empty has a smallest one: of the sets {k \in S : k <= n} the
\* smallest belongs to it.
LEMMA SmallestOf ==
  ASSUME NEW S \in SUBSET Nat, S # {}
  PROVE  \E n \in S : \A k \in S : n <= k
<1> DEFINE To(n) == {k \in S : k <= n}
           F == FiniteSubsetsOf(Nat)
           R == StrictSubsetOrdering(Nat)
           T == {To(n) : n \in S}
<1>1. IsWellFoundedOn(R, F)
  BY FS_StrictSubsetOrderingWellFounded
<1>2. \A n \in S : To(n) \in F
  <2>1. TAKE n \in S
  <2>2. To(n) \in SUBSET Nat /\ n \in Nat /\ \A s \in To(n) : s <= n
    OBVIOUS
  <2>3. IsFiniteSet(To(n))
    BY <2>2, FS_BoundedSetOfNaturals
  <2> QED BY <2>2, <2>3 DEF FiniteSubsetsOf
<1>3. T \subseteq F /\ T # {}
  BY <1>2
<1>4. \E x \in T : \A y \in T : ~(<<y, x>> \in R)
  <2> HIDE DEF T, F, R
  <2> QED BY <1>1, <1>3, WFMin
<1>5. PICK n \in S : \A m \in S : ~(<<To(m), To(n)>> \in R)
  BY <1>4
<1>6. ASSUME NEW m \in S, m < n PROVE FALSE
  <2>0. n \in Nat /\ m \in Nat /\ \A k \in S : k \in Nat
    OBVIOUS
  <2>1. To(m) \subseteq To(n)
    <3>1. \A k \in S : k <= m => k <= n
      BY <1>6, <2>0
    <3> QED BY <3>1
  <2>2. n \in To(n) /\ n \notin To(m)
    BY <1>6, <2>0
  <2>3. To(m) \in SUBSET Nat /\ To(n) \in SUBSET Nat
    OBVIOUS
  <2> HIDE DEF To
  <2>4. <<To(m), To(n)>> \in R
    BY <2>1, <2>2, <2>3 DEF StrictSubsetOrdering
  <2> QED BY <1>5, <2>4
<1> QED BY <1>6

\* A set of numbers up to n that is not empty has a largest one.
LEMMA LargestOf ==
  ASSUME NEW S \in SUBSET Nat, S # {}, NEW n \in Nat, \A k \in S : k <= n
  PROVE  \E m \in S : \A k \in S : k <= m
<1> DEFINE T == {n - k : k \in S}
<1>1. T \in SUBSET Nat /\ T # {}
  <2>1. \A k \in S : n - k \in Nat
    OBVIOUS
  <2> QED BY <2>1
<1>2. PICK t \in T : \A k \in T : t <= k
  BY <1>1, SmallestOf
<1>3. PICK m \in S : t = n - m
  BY <1>2
<1>4. \A k \in S : n - k \in T
  OBVIOUS
<1>5. \A k \in S : t <= n - k
  BY <1>2, <1>4
<1> QED BY <1>3, <1>5

-----------------------------------------------------------------------------
(* The invariants.                                                         *)

\* What a cell and an entry are made of.  T: the names, checksums and times that an entry may have.
CellOf(c, T) ==
  /\ c \in Seq(Field) /\ c[1] \in {"lfh", "data", "cde", "eocd"}
  /\ c[1] = "cde" => c[3] \in Nat /\ c[4] \in Field /\ c[6] \in Field /\ <<c[2], c[5], c[7]>> \in T
  /\ c[1] = "eocd" => c[2] \in Nat /\ c[3] \in Nat
FileOf(f, T) == IsList(f) /\ \A i \in 1..Len(f) : CellOf(f[i], T)
EntryOf(e, T) ==
  /\ Plain(e) /\ e.off \in Nat /\ e.method \in Field /\ e.len \in Field
  /\ <<e.name, e.crc, e.mod>> \in T
ListOf(es, T) == IsList(es) /\ \A i \in 1..Len(es) : EntryOf(es[i], T)

\* Of a source file an entry has a version, and no time stamp later than the second to which the
\* time of that version is rounded up.
Honest(name, crc, mod) ==
  \A o \in AllOutputs :
    o.name = name /\ o.kind = "source" /\ OneSource(o) /\ crc # Garbage =>
      /\ \E v \in 0..src[o.src].ver : crc = <<o.src, v>>
      /\ mod <= madeAt[crc] + 1
\* The triples that an entry may have.
Triples == STRING \X (Contents \cup {Garbage}) \X Nat
Honests == {t \in Triples : Honest(t[1], t[2], t[3])}

\* The sources are as old as they are known to be, and a run works on what the build gave it.
TimeInv ==
  /\ clock \in Nat /\ madeAt \in [Contents -> Nat]
  /\ \A s \in Names : src[s].mod = madeAt[Content(s)]
AskedInv ==
  /\ command \in {"update", "force", "plain", "add", "remove"}
  /\ \A i \in 1..Len(outputs) : outputs[i] \in AllOutputs
  /\ ~Packaging => \A i \in 1..Len(outputs) : outputs[i].kind = "source"
  /\ \A i \in 1..Len(todo) : \E j \in 1..Len(outputs) : todo[i] = outputs[j]

\* The first entry with an offset, from the i-th on, and the directory if there is none, are
\* at n or behind it.
NoLater(es, end, i, n) ==
  /\ \A j \in i..Len(es) :
        es[j].off # 0 /\ (\A k \in i..j - 1 : es[k].off = 0) => n <= es[j].off
  /\ (\A k \in i..Len(es) : es[k].off = 0) => n <= end

\* Where the methods of ZipFile write, in any archive.
Rewriting == needRewrite \/ pc \in {"files", "added", "specAdded", "removed"}
CrunchBounds ==
  /\ cur.i <= Len(entries) + 1 /\ cur.adjust \in Nat /\ cur.del \in Nat
  /\ NoLater(entries, eocd.off, cur.i, cur.adjust)
Bounds(f) ==
  /\ eocd.off \in Nat /\ eocd.num \in Nat /\ eocd.off <= Len(f)
  /\ Rewriting => \A i \in 1..Len(entries) : entries[i].off <= Len(f)
BoundsOf(T) ==
  /\ T \subseteq Triples
  /\ file = NoFile \/ FileOf(file, T)
  /\ ListOf(entries, T)
  /\ op # "closed" => FileOf(file, T) /\ Bounds(file)
  /\ op = "adding" =>
       /\ needRewrite /\ cur.head \in Nat /\ DataAt <= Len(file)
       /\ <<cur.name, cur.v, DosTime(cur.when)>> \in T
  /\ op = "crunch" => needRewrite /\ CrunchBounds
  /\ op \in {"central", "end"} => needRewrite /\ eocd.num = Len(entries)
  /\ op = "end" => eocd.off + Len(entries) <= Len(file)
BoundsInv == BoundsOf(Honests)
\* Where addCommon asserts it, and in the middle of it.
CountInv ==
  /\ op = "adding" => Counted(entries)
  /\ op = "ready" /\ BeforeAdd /\ (faults = 0 \/ NoClasses) => Counted(entries)
StatusInv == status \in {"ok", "error", "exists"} /\ result \in {"ok", "error", "killed"}

\* The archive as its entries have it, and as it will be.
Live(es) == {i \in 1..Len(es) : ~es[i].deleted}
Pairs(es) == {<<es[i].name, es[i].crc>> : i \in Live(es)}
NamesOf(P) == {p[1] : p \in P}
Pending == {todo[i].name : i \in {j \in 1..Len(todo) : todo[j].kind # "excluded"}}
Coming == IF op = "adding" THEN {cur.name} ELSE {}

\* The names that are there or still to come are those that were there and those that are wanted,
\* and what is no output of the run is as it was.
AsAsked ==
  /\ NamesIn(before.list) \cup Wanted = NamesOf(Pairs(entries)) \cup Coming \cup Pending
  /\ \A p \in Pairs(entries) :
       p[1] \notin Wanted =>
         \E j \in 1..Len(before.list) : before.list[j].name = p[1] /\ before.list[j].crc = p[2]
\* An output is there when its addition has succeeded.
Arriving ==
  /\ pc = "added" => Head(todo).kind \notin {"excluded", "class"}
  /\ pc = "added" /\ op = "adding" => cur.name = Head(todo).name
  /\ pc = "added" /\ op = "ready" /\ status = "ok" => Head(todo).name \in NamesOf(Pairs(entries))
  /\ pc = "files" /\ op = "adding" => ~Listens
  /\ op = "adding" => cur.name \in Wanted
  /\ pc \in {"flushed", "close"} => todo = << >>

\* A rewritten archive reads as the entries say.
Reads(f, es) ==
  LET rs == ReadCentralDir(f)
  IN  /\ IsList(rs) /\ Len(rs) = Len(es)
      /\ \A i \in 1..Len(es) :
           /\ ~es[i].deleted /\ ~rs[i].deleted
           /\ rs[i].name = es[i].name /\ rs[i].crc = es[i].crc
OnDisk == op = "ready" /\ ~needRewrite => Reads(file, entries)

\* The outputs that are in the archive already are fresh, or will be replaced.
FreshCrc(crc, s) == crc = Content(s) \/ src[s].mod - madeAt[crc] <= 1
Fresh1(o) ==
  o.kind = "source" /\ OneSource(o) =>
    /\ \A p \in Pairs(entries) : p[1] = o.name => FreshCrc(p[2], o.src)
    /\ op = "adding" /\ cur.name = o.name => cur.v = Content(o.src)
FreshInv ==
  /\ \A k \in 1..Len(outputs) :
       Fresh1(outputs[k]) \/ \E i \in 1..Len(todo) : todo[i] = outputs[k]
  /\ pc = "added" /\ (op = "adding" \/ status = "ok") => Fresh1(Head(todo))

RunInv == Sane /\ Packaging => AsAsked /\ Arriving /\ OnDisk /\ FreshInv
BeforeInv ==
  before.sound => /\ IsList(before.list)
                  /\ \A i \in 1..Len(before.list) : ~before.list[i].deleted
                  /\ \A i, j \in 1..Len(before.list) :
                        before.list[i].name = before.list[j].name => i = j

-----------------------------------------------------------------------------
(* The sources, and what is asked.                                         *)

\* A time stamp is rounded up by a second at most.
LEMMA DosTimeIs ==
  ASSUME NEW t \in Nat
  PROVE  DosTime(t) \in Nat /\ t <= DosTime(t) /\ DosTime(t) <= t + 1
BY DEF DosTime

\* What a build may ask for is an output.
LEMMA OutputsTyped ==
  AllOutputs \subseteq Output
<1> SUFFICES ASSUME NEW q \in OutputSets \cup JarLists \cup FileSpecs, NEW i \in DOMAIN q
             PROVE  q[i] \in Output
  BY DEF AllOutputs, Range
<1>1. q \in Seq(Output)
  BY WriterAssumption
<1> QED BY <1>1

\* A source has a content.
LEMMA SourceContent ==
  ASSUME SourceInv, NEW s \in Names
  PROVE  /\ src[s].ver \in 0..MaxEdits /\ src[s].mod \in Nat
         /\ Content(s) \in Contents /\ Content(s) = <<s, src[s].ver>>
BY WriterAssumption DEF SourceInv, Content

\* A source is only ever edited.
LEMMA EditOnly ==
  ASSUME [Next]_vars
  PROVE  UNCHANGED <<src, clock, madeAt>> \/ \E s \in Names, t \in 1..MaxClock : Edit(s, t)
<1> USE DEF Goes, Done
<1>1. ASSUME NEW cmd, NEW outs, Begin(cmd, outs) PROVE UNCHANGED <<src, clock, madeAt>>
  BY <1>1 DEF Begin
<1>2. CASE Kill
  BY <1>2 DEF Kill
<1>3. CASE ProcessFile
  BY <1>3, ProcessFileCases, AddOutputCases DEF FileFails
<1>4. CASE Added \/ ProcessClass \/ CruftAndFlush \/ Flushed
  BY <1>4, Zenon DEF Added, ProcessClass, CruftAndFlush, Flushed
<1>5. CASE AddSpec \/ SpecAdded \/ RemoveSpecs \/ RemoveFlush \/ SpecsDone
  BY <1>5, Zenon DEF AddSpec, SpecAdded, RemoveSpecs, RemoveFlush, SpecsDone
<1>6. CASE DestructorFlush \/ Bail \/ ZipSteps
  BY <1>6, Zenon DEF DestructorFlush, Bail, ZipSteps
<1>7. CASE UNCHANGED vars
  BY <1>7 DEF vars
<1> QED BY <1>1, <1>2, <1>3, <1>4, <1>5, <1>6, <1>7 DEF Next

\* What an edit does to the sources.
LEMMA EditEffect ==
  ASSUME SourceInv, TimeInv, NEW s \in Names, NEW t \in 1..MaxClock, Edit(s, t)
  PROVE  /\ t \in Nat /\ clock' = t /\ <<s, src[s].ver + 1>> \in Contents
         /\ src' = [src EXCEPT ![s] = [ver |-> src[s].ver + 1, mod |-> t]]
         /\ madeAt' = [madeAt EXCEPT ![<<s, src[s].ver + 1>>] = t]
<1>1. src[s].ver + 1 \in 0..MaxEdits /\ t \in Nat
  BY SourceContent, WriterAssumption DEF Edit
<1>2. <<s, src[s].ver + 1>> \in Contents
  BY <1>1, WriterAssumption
<1> QED BY <1>1, <1>2 DEF Edit

\* The times.
LEMMA TimeStep ==
  SourceInv /\ TimeInv /\ [Next]_vars => TimeInv'
<1> SUFFICES ASSUME SourceInv, TimeInv, [Next]_vars PROVE TimeInv'
  OBVIOUS
<1>1. CASE UNCHANGED <<src, clock, madeAt>>
  BY <1>1 DEF TimeInv, Content
<1>2. ASSUME NEW s \in Names, NEW t \in 1..MaxClock, Edit(s, t) PROVE TimeInv'
  <2>1. PICK c \in Contents : c = <<s, src[s].ver + 1>>
    BY <1>2, EditEffect
  <2>2. /\ t \in Nat /\ clock' = t /\ madeAt' = [madeAt EXCEPT ![c] = t]
        /\ src' = [src EXCEPT ![s] = [ver |-> src[s].ver + 1, mod |-> t]]
    BY <1>2, <2>1, EditEffect
  <2>3. madeAt' \in [Contents -> Nat] /\ clock' \in Nat
    BY <2>2 DEF TimeInv
  <2>4. ASSUME NEW r \in Names PROVE src'[r].mod = madeAt'[Content(r)']
    <3>1. CASE r = s
      <4>1. src'[r] = [ver |-> src[s].ver + 1, mod |-> t]
        BY <2>2, <3>1 DEF SourceInv
      <4>2. Content(r)' = c
        BY <2>1, <3>1, <4>1 DEF Content
      <4> QED BY <2>2, <4>1, <4>2 DEF TimeInv
    <3>2. CASE r # s
      <4>1. src'[r] = src[r]
        BY <2>2, <3>2 DEF SourceInv
      <4>2. Content(r)' = Content(r) /\ Content(r) # c /\ Content(r) \in Contents
        BY <2>1, <3>2, <4>1, SourceContent DEF Content
      <4> QED BY <2>2, <4>1, <4>2 DEF TimeInv
    <3> QED BY <3>1, <3>2
  <2> QED BY <2>3, <2>4 DEF TimeInv
<1> QED BY <1>1, <1>2, EditOnly

\* What was true of an entry stays true: a new version is made of nothing that is there.
LEMMA HonestStays ==
  SourceInv /\ TimeInv /\ [Next]_vars => Honests \subseteq Honests'
<1> SUFFICES ASSUME SourceInv, TimeInv, [Next]_vars, NEW x \in Honests PROVE x \in Honests'
  OBVIOUS
<1>1. CASE UNCHANGED <<src, clock, madeAt>>
  BY <1>1 DEF Honests, Honest
<1>2. ASSUME NEW s \in Names, NEW t \in 1..MaxClock, Edit(s, t) PROVE x \in Honests'
  <2>1. x \in Triples /\ Honest(x[1], x[2], x[3])
    BY DEF Honests
  <2>2. PICK c \in Contents : c = <<s, src[s].ver + 1>>
    BY <1>2, EditEffect
  <2>3. /\ t \in Nat /\ madeAt' = [madeAt EXCEPT ![c] = t]
        /\ src' = [src EXCEPT ![s] = [ver |-> src[s].ver + 1, mod |-> t]]
    BY <1>2, <2>2, EditEffect
  <2>4. \A r \in Names : src[r].ver \in Nat /\ src'[r].ver \in Nat /\ src[r].ver <= src'[r].ver
    BY <2>3 DEF SourceInv
  <2>5. ASSUME NEW o \in AllOutputs, o.name = x[1], o.kind = "source", OneSource(o), x[2] # Garbage
        PROVE  /\ \E v \in 0..src'[o.src].ver : x[2] = <<o.src, v>>
               /\ x[3] <= madeAt'[x[2]] + 1
    <3>1. PICK v \in 0..src[o.src].ver : x[2] = <<o.src, v>>
      BY <2>1, <2>5 DEF Honest
    <3>2. x[3] <= madeAt[x[2]] + 1
      BY <2>1, <2>5 DEF Honest
    <3>3. o.src \in Names
      BY OutputsTyped DEF Output
    <3>4. v \in 0..src'[o.src].ver
      BY <2>4, <3>3
    <3>5. x[2] # c /\ x[2] \in Contents
      BY <2>1, <2>2, <2>4, <2>5, <3>1, <3>3 DEF Triples
    <3>6. madeAt'[x[2]] = madeAt[x[2]]
      BY <2>3, <3>5 DEF TimeInv
    <3> QED BY <3>1, <3>2, <3>4, <3>6
  <2>6. Honest(x[1], x[2], x[3])'
    BY <2>5 DEF Honest
  <2> QED BY <2>1, <2>6 DEF Honests
<1> QED BY <1>1, <1>2, EditOnly

\* The outputs of a run are what the build gave it.
LEMMA AskedStep ==
  SourceInv /\ PcInv /\ AskedInv /\ [Next]_vars => AskedInv'
<1> SUFFICES ASSUME SourceInv, PcInv, AskedInv, [Next]_vars PROVE AskedInv'
  OBVIOUS
<1> USE DEF Goes, Done
<1>a. ASSUME UNCHANGED <<command, outputs>>, 
             todo' \in {todo, << >>} \/ (todo # << >> /\ todo' = Tail(todo))
      PROVE  AskedInv'
  <2>1. todo \in Seq(Output) /\ Len(todo) \in Nat
    BY DEF SourceInv
  <2>2. ASSUME NEW i \in 1..Len(todo') PROVE \E j \in 1..Len(todo) : todo'[i] = todo[j]
    <3>1. CASE todo' = todo
      BY <3>1
    <3>2. CASE todo' = << >>
      BY <3>2
    <3>3. CASE todo' = Tail(todo) /\ todo # << >>
      <4>1. Len(todo') = Len(todo) - 1 /\ todo'[i] = todo[i + 1]
        BY <2>1, <3>3
      <4> QED BY <2>1, <4>1
    <3> QED BY <1>a, <3>1, <3>2, <3>3
  <2>3. Packaging' = Packaging
    BY <1>a DEF Packaging
  <2> QED BY <1>a, <2>2, <2>3 DEF AskedInv
<1>1. ASSUME NEW s \in Names, NEW t \in 1..MaxClock, Edit(s, t) PROVE AskedInv'
  BY <1>1, <1>a DEF Edit
<1>2. ASSUME NEW cmd \in {"update", "force", "plain", "add", "remove"}, NEW outs \in Seq(Output),
             Begin(cmd, outs), \A i \in 1..Len(outs) : outs[i] \in AllOutputs,
             cmd \in {"add", "remove"} => \A i \in 1..Len(outs) : outs[i].kind = "source"
      PROVE  AskedInv'
  <2>1. command' = cmd /\ outputs' = outs /\ todo' = outs
    BY <1>2 DEF Begin
  <2>2. \A i \in 1..Len(todo') : \E j \in 1..Len(outputs') : todo'[i] = outputs'[j]
    BY <2>1
  <2> QED BY <1>2, <2>1, <2>2 DEF AskedInv, Packaging
<1>3. ASSUME NEW q \in OutputSets \cup JarLists \cup FileSpecs
      PROVE  q \in Seq(Output) /\ \A i \in 1..Len(q) : q[i] \in AllOutputs
  <2>1. q \in Seq(Output)
    BY WriterAssumption
  <2>2. \A i \in 1..Len(q) : i \in DOMAIN q
    BY <2>1
  <2> QED BY <2>1, <2>2 DEF AllOutputs, Range
<1>4. ASSUME NEW cmd \in {"update", "force", "plain"}, NEW outs \in OutputSets, NEW jars \in JarLists,
             Begin(cmd, outs \o jars)
      PROVE  AskedInv'
  <2>1. /\ outs \in Seq(Output) /\ jars \in Seq(Output)
        /\ \A i \in 1..Len(outs) : outs[i] \in AllOutputs
        /\ \A i \in 1..Len(jars) : jars[i] \in AllOutputs
    BY <1>3
  <2>2. PICK q : q = outs \o jars
    OBVIOUS
  <2>3. q \in Seq(Output) /\ Len(q) = Len(outs) + Len(jars)
    BY <2>1, <2>2
  <2>4. ASSUME NEW i \in 1..Len(q) PROVE q[i] \in AllOutputs
    <3>1. CASE i \in 1..Len(outs)
      BY <2>1, <2>2, <3>1
    <3>2. CASE i \notin 1..Len(outs)
      <4>1. i - Len(outs) \in 1..Len(jars) /\ q[i] = jars[i - Len(outs)]
        BY <2>1, <2>2, <2>3, <3>2
      <4> QED BY <2>1, <4>1
    <3> QED BY <3>1, <3>2
  <2> QED BY <1>2, <1>4, <2>2, <2>3, <2>4
<1>5. ASSUME NEW cmd \in {"add", "remove"}, NEW outs \in FileSpecs, Begin(cmd, outs)
      PROVE  AskedInv'
  <2>1. outs \in Seq(Output) /\ \A i \in 1..Len(outs) : outs[i] \in AllOutputs
    BY <1>3
  <2>2. \A i \in 1..Len(outs) : outs[i].kind = "source"
    BY <2>1, WriterAssumption
  <2> QED BY <1>2, <1>5, <2>1, <2>2
<1>6. CASE Kill
  BY <1>6, <1>a DEF Kill
<1>7. CASE ProcessFile
  BY <1>7, <1>a, ProcessFileCases, AddOutputCases DEF FileFails
<1>8. CASE Added
  <2>1. todo # << >>
    BY <1>8 DEF Added, SourceInv
  <2> QED BY <1>8, <2>1, <1>a DEF Added
<1>9. CASE ProcessClass \/ CruftAndFlush \/ Flushed
  <2>1. /\ UNCHANGED <<command, outputs>>
        /\ todo' \in {todo, << >>} \/ (todo # << >> /\ todo' = Tail(todo))
    BY <1>9, Zenon DEF ProcessClass, CruftAndFlush, Flushed
  <2> QED BY <1>a, <2>1
<1>10. CASE SpecAdded
  <2>1. todo # << >>
    BY <1>10 DEF SpecAdded, SourceInv, PcInv
  <2> QED BY <1>10, <2>1, <1>a DEF SpecAdded
<1>11. CASE AddSpec \/ RemoveSpecs \/ RemoveFlush \/ SpecsDone
  <2>1. UNCHANGED <<command, outputs>> /\ todo' \in {todo, << >>}
    BY <1>11, Zenon DEF AddSpec, RemoveSpecs, RemoveFlush, SpecsDone
  <2>2. CASE todo' = todo
    BY <2>1, <2>2, <1>a
  <2>3. CASE todo' = << >> /\ todo' # todo
    BY <2>1, <2>3, <1>a
  <2> QED BY <2>1, <2>2, <2>3
<1>12. CASE DestructorFlush \/ Bail \/ ZipSteps
  BY <1>12, <1>a DEF DestructorFlush, Bail, ZipSteps
<1>13. CASE UNCHANGED vars
  BY <1>13, <1>a DEF vars
<1> QED BY <1>1, <1>4, <1>5, <1>6, <1>7, <1>8, <1>9, <1>10, <1>11, <1>12, <1>13 DEF Next

\* The name, the content and the time of an output that is added may go into the archive.
LEMMA AddedHonest ==
  ASSUME SourceInv, TimeInv, AskedInv, todo # << >>, NEW o, o = Head(todo), o.kind # "excluded",
         NEW when, when = src[o.src].mod \/ (when \in 1..clock /\ o.kind # "source")
  PROVE  <<o.name, Content(o.src), DosTime(when)>> \in Honests
<1>1. o \in AllOutputs /\ o \in Output
  <2>1. Len(todo) \in Nat \ {0} /\ o = todo[1]
    BY DEF SourceInv
  <2> QED BY <2>1, OutputsTyped DEF AskedInv
<1>2. o.src \in Names /\ o.name \in STRING
  BY <1>1 DEF Output
<1>3. /\ src[o.src].ver \in 0..MaxEdits /\ src[o.src].mod \in Nat /\ src[o.src].ver \in Nat
      /\ Content(o.src) \in Contents /\ Content(o.src) = <<o.src, src[o.src].ver>>
  BY <1>2, SourceContent, WriterAssumption
<1>4. DosTime(when) \in Nat /\ DosTime(when) <= when + 1
  <2>1. when \in Nat
    BY <1>3 DEF TimeInv
  <2> QED BY <2>1, DosTimeIs
<1>5. ASSUME NEW p \in AllOutputs, p.name = o.name, p.kind = "source", OneSource(p)
      PROVE  /\ \E v \in 0..src[p.src].ver : Content(o.src) = <<p.src, v>>
             /\ DosTime(when) <= madeAt[Content(o.src)] + 1
  <2>1. o.kind = "source" /\ o.src = p.src
    BY <1>1, <1>5 DEF OneSource
  <2>2. when = madeAt[Content(o.src)]
    BY <1>2, <2>1 DEF TimeInv
  <2>3. src[p.src].ver \in 0..src[p.src].ver /\ Content(o.src) = <<p.src, src[p.src].ver>>
    BY <1>3, <2>1
  <2> QED BY <1>4, <2>2, <2>3
<1>6. Honest(o.name, Content(o.src), DosTime(when))
  BY <1>5 DEF Honest
<1>7. <<o.name, Content(o.src), DosTime(when)>> \in Triples
  BY <1>2, <1>3, <1>4 DEF Triples
<1> QED BY <1>6, <1>7 DEF Honests

\* T allows what its entries would be with a checksum that was never computed.
Lenient(T) == T \subseteq Triples /\ \A t \in T : <<t[1], Garbage, t[3]>> \in T

\* So do the honest ones.
LEMMA HonestsLenient ==
  Lenient(Honests)
BY DEF Lenient, Honests, Honest, Triples

-----------------------------------------------------------------------------
(* Files of any kind.                                                      *)

\* What a file may contain it may contain later on.
LEMMA FileMore ==
  ASSUME NEW f, NEW T, NEW U, T \subseteq U, FileOf(f, T)
  PROVE  FileOf(f, U)
BY DEF FileOf, CellOf

\* Writing into a file.
LEMMA WriteAtOf ==
  ASSUME NEW T, NEW f, FileOf(f, T), NEW off \in Nat, off <= Len(f), NEW cells, IsList(cells),
         \A i \in 1..Len(cells) : CellOf(cells[i], T)
  PROVE  /\ FileOf(WriteAt(f, off, cells), T) /\ Len(f) <= Len(WriteAt(f, off, cells))
         /\ off + Len(cells) <= Len(WriteAt(f, off, cells))
<1>1. PICK g : g = WriteAt(f, off, cells)
  OBVIOUS
<1>2. Wrote(g, f, off, cells)
  BY <1>1, WriteAtList DEF FileOf
<1>3. Len(f) \in Nat /\ Len(cells) \in Nat /\ IsList(g)
  BY <1>2 DEF FileOf, IsList, Wrote
<1>4. Len(f) <= Len(g) /\ off + Len(cells) <= Len(g)
  BY <1>2, <1>3 DEF Wrote
<1>5. ASSUME NEW i \in 1..Len(g) PROVE CellOf(g[i], T)
  <2>1. CASE i <= off
    <3>1. i \in 1..off /\ i \in 1..Len(f)
      BY <1>3, <2>1
    <3> QED BY <1>2, <3>1 DEF Wrote, FileOf
  <2>2. CASE i > off /\ i <= off + Len(cells)
    <3>1. i - off \in 1..Len(cells) /\ i = off + (i - off)
      BY <1>3, <2>2
    <3> QED BY <1>2, <3>1 DEF Wrote
  <2>3. CASE i > off + Len(cells)
    <3>1. i \in (off + Len(cells) + 1)..Len(f) /\ i \in 1..Len(f)
      BY <1>2, <1>3, <2>3 DEF Wrote
    <3> QED BY <1>2, <3>1 DEF Wrote, FileOf
  <2> QED BY <1>3, <2>1, <2>2, <2>3
<1> QED BY <1>1, <1>3, <1>4, <1>5 DEF FileOf

\* A part of a file.
LEMMA SubOf ==
  ASSUME NEW T, NEW f, FileOf(f, T), NEW m \in Nat \ {0}, NEW n \in Nat, n <= Len(f), m <= n + 1
  PROVE  FileOf(SubSeq(f, m, n), T) /\ Len(SubSeq(f, m, n)) = n - m + 1
<1>1. PICK g : g = SubSeq(f, m, n)
  OBVIOUS
<1>2. IsList(g) /\ Len(g) = n - m + 1 /\ \A i \in 1..(n - m + 1) : g[i] = f[m + i - 1]
  BY <1>1, SubList DEF FileOf
<1>3. \A i \in 1..(n - m + 1) : m + i - 1 \in 1..Len(f)
  BY DEF FileOf, IsList
<1>4. FileOf(g, T)
  BY <1>2, <1>3 DEF FileOf
<1> QED BY <1>1, <1>2, <1>4

\* What a reader takes out of a file it can read, sound or not.
LEMMA ReadOf ==
  ASSUME NEW T, NEW f, FileOf(f, T), Readable(f)
  PROVE  /\ ReadEocd(f).num \in Nat /\ ReadEocd(f).off \in Nat /\ ReadEocd(f).off <= Len(f)
         /\ ListOf(ReadCentralDir(f), T) /\ Len(ReadCentralDir(f)) = ReadEocd(f).num
         /\ \A i \in 1..Len(ReadCentralDir(f)) : ReadCentralDir(f)[i].off <= Len(f)
<1>1. DOMAIN f = 1..Len(f) /\ Len(f) \in Nat
  BY ListDomain DEF FileOf, IsList
<1>2. Eocds(f) \in SUBSET Nat /\ Eocds(f) # {} /\ \A k \in Eocds(f) : k <= Len(f)
  BY <1>1 DEF Eocds, Readable
<1>3. \E i \in Eocds(f) : \A j \in Eocds(f) : j <= i
  BY <1>1, <1>2, LargestOf
<1>4. PICK i \in Eocds(f) : LastEocd(f) = f[i]
  BY <1>3 DEF LastEocd
<1>5. CellOf(f[i], T) /\ f[i][1] = "eocd"
  BY <1>1, <1>4 DEF Eocds, FileOf
<1>6. PICK e : e = ReadEocd(f)
  OBVIOUS
<1>7. e.num \in Nat /\ e.off \in Nat
  BY <1>4, <1>5, <1>6 DEF CellOf, ReadEocd
<1>8. /\ \A k \in 1..e.num : InitFromCDE(f, e.off + k)
      /\ e.off + e.num + 1 \in Eocds(f)
  BY <1>6 DEF Readable
<1>9. e.off <= Len(f)
  BY <1>1, <1>2, <1>7, <1>8
<1>10. PICK rs : rs = ReadCentralDir(f)
  OBVIOUS
<1>11. rs = [k \in 1..e.num |-> FromCde(f[e.off + k])]
  BY <1>6, <1>10 DEF ReadCentralDir
<1>12. IsList(rs) /\ Len(rs) = e.num
  BY <1>7, <1>11, FunctionIsList
<1>13. ASSUME NEW k \in 1..e.num PROVE EntryOf(rs[k], T) /\ rs[k].off <= Len(f)
  <2>1. InitFromCDE(f, e.off + k)
    BY <1>8
  <2>2. PICK c : c = f[e.off + k]
    OBVIOUS
  <2>3. /\ e.off + k \in 1..Len(f) /\ c[1] = "cde" /\ c[3] + 1 \in 1..Len(f)
    BY <1>1, <2>1, <2>2 DEF InitFromCDE
  <2>4. c[3] \in Nat /\ c[4] \in Field /\ c[6] \in Field /\ <<c[2], c[5], c[7]>> \in T
    BY <2>2, <2>3 DEF FileOf, CellOf
  <2>5. rs[k] = FromCde(c)
    BY <1>11, <2>2
  <2>6. /\ Plain(rs[k]) /\ rs[k].off = c[3] /\ rs[k].name = c[2] /\ rs[k].crc = c[5]
        /\ rs[k].mod = c[7] /\ rs[k].method = c[4] /\ rs[k].len = c[6]
    BY <2>5 DEF FromCde, Plain
  <2> QED BY <1>1, <2>3, <2>4, <2>6 DEF EntryOf
<1> QED BY <1>6, <1>7, <1>9, <1>10, <1>12, <1>13 DEF ListOf

\* Entries that are thinned out are still entries.
LEMMA ThinnedOf ==
  ASSUME NEW T, NEW es, ListOf(es, T), NEW ds, Thinned(ds, es)
  PROVE  ListOf(ds, T) /\ Len(ds) = Len(es) /\ \A i \in 1..Len(es) : ds[i].off = es[i].off
BY DEF ListOf, EntryOf, Thinned, EntryList

\* A typed list is a list of entries.
LEMMA ListEntries ==
  ASSUME NEW T, NEW es, ListOf(es, T)
  PROVE  EntryList(es) /\ IsList(es) /\ Len(es) \in Nat
BY DEF ListOf, EntryOf, EntryList, IsList

\* The entry of a name, with others of that name or not.
LEMMA NamedEntry ==
  ASSUME NEW es, IsList(es), NEW name, Found(es, name) # {}
  PROVE  EntryByName(es, name) \in Found(es, name) /\ EntryByName(es, name) \in 1..Len(es)
<1>1. DOMAIN es = 1..Len(es) /\ Len(es) \in Nat
  BY ListDomain DEF IsList
<1>2. Found(es, name) \in SUBSET Nat /\ \A k \in Found(es, name) : k <= Len(es)
  BY <1>1 DEF Found
<1>3. \E i \in Found(es, name) : \A j \in Found(es, name) : j <= i
  BY <1>1, <1>2, LargestOf
<1>4. EntryByName(es, name) \in Found(es, name)
  BY <1>3 DEF EntryByName
<1> QED BY <1>1, <1>4 DEF Found

-----------------------------------------------------------------------------
(* The methods of ZipFile on any archive.                                  *)

\* A step between methods that leaves the file alone.
LEMMA BoundsReady ==
  ASSUME NEW T, BoundsOf(T), op = "ready", op' = "ready", UNCHANGED <<file, eocd>>,
         ListOf(entries', T), Len(entries') = Len(entries),
         \A i \in 1..Len(entries) : entries'[i].off = entries[i].off,
         Rewriting' => Rewriting
  PROVE  BoundsOf(T)'
<1>1. FileOf(file, T) /\ Bounds(file)
  BY DEF BoundsOf
<1>2. FileOf(file, T)' /\ Bounds(file)'
  BY <1>1 DEF Bounds
<1> QED BY <1>2 DEF BoundsOf

\* The list is as it was.
LEMMA BoundsSame ==
  ASSUME NEW T, BoundsOf(T), op = "ready", op' = "ready", UNCHANGED <<file, entries, eocd>>,
         Rewriting' => Rewriting
  PROVE  BoundsOf(T)'
BY BoundsReady DEF BoundsOf

\* The archive is opened.
LEMMA OpenBounds ==
  ASSUME NEW T, T \subseteq Triples, NEW f, f = NoFile \/ FileOf(f, T), Open(f)
  PROVE  BoundsOf(T)'
<1>1. op' = "ready"
  BY DEF Open
<1>2. CASE Readable(f)
  <2>1. file' = f /\ entries' = ReadCentralDir(f) /\ eocd' = ReadEocd(f) /\ FileOf(f, T)
    BY <1>2 DEF Open, Readable
  <2>2. Bounds(file)' /\ ListOf(entries', T)
    BY <1>2, <2>1, ReadOf DEF Bounds
  <2> QED BY <1>1, <2>1, <2>2 DEF BoundsOf
<1>3. CASE ~Readable(f)
  <2>1. /\ entries' = << >> /\ eocd' = [num |-> 0, off |-> 0]
        /\ file' = IF f = NoFile THEN << >> ELSE f
    BY <1>3 DEF Open
  <2>2. FileOf(<< >>, T) /\ ListOf(<< >>, T) /\ Len(<< >>) = 0
    BY EmptyEntries DEF FileOf, ListOf
  <2>3. FileOf(file', T) /\ ListOf(entries', T) /\ Len(entries') = 0 /\ Len(file') \in Nat
    BY <2>1, <2>2 DEF FileOf, IsList
  <2>4. Bounds(file)'
    BY <2>1, <2>3 DEF Bounds
  <2> QED BY <1>1, <2>3, <2>4 DEF BoundsOf
<1> QED BY <1>2, <1>3

\* The archive is closed.
LEMMA CloseBounds ==
  ASSUME NEW T, BoundsOf(T), Close, file' \in {file, NoFile}
  PROVE  BoundsOf(T)'
<1>1. op' = "closed" /\ entries' = << >>
  BY DEF Close
<1>2. ListOf(<< >>, T)
  BY EmptyEntries DEF ListOf
<1>3. file' = NoFile \/ FileOf(file', T)
  BY DEF BoundsOf
<1> QED BY <1>1, <1>2, <1>3 DEF BoundsOf

\* Cells are made of fields.
LEMMA FieldCells ==
  /\ \A name \in STRING : Blank(name) \in Seq(Field)
  /\ \A v \in Contents, method \in {"stored", "deflated"}, i \in Nat : <<"data", v, method, i>> \in Seq(Field)
  /\ \A n, off \in Nat : <<"eocd", n, off>> \in Seq(Field)
<1>1. \A s \in STRING : s \in Field
  BY DEF Field
<1>2. \A n \in Nat : n \in Field
  BY DEF Field
<1>3. "lfh" \in Field /\ "stored" \in Field /\ "data" \in Field /\ "eocd" \in Field
      /\ "deflated" \in Field
  BY DEF Field
<1>5. Fresh \in Field
  BY DEF Field
<1>4. \A v \in Contents : v \in Field
  BY DEF Field
<1> QED BY <1>1, <1>2, <1>3, <1>4, <1>5 DEF Blank

\* A cell that does not belong to the directory.
LEMMA PlainCell ==
  ASSUME NEW T, NEW c \in Seq(Field), c[1] \in {"lfh", "data"}
  PROVE  CellOf(c, T)
BY DEF CellOf

\* So are those of an entry.
LEMMA EntryCells ==
  ASSUME NEW T, T \subseteq Triples, NEW e, EntryOf(e, T)
  PROVE  Lfh(e) \in Seq(Field) /\ Cde(e) \in Seq(Field)
<1>1. e.name \in Field /\ e.crc \in Field /\ e.mod \in Field /\ e.off \in Field
  <2>1. <<e.name, e.crc, e.mod>> \in Triples
    BY DEF EntryOf
  <2>2. e.name \in STRING /\ e.crc \in Contents \cup {Garbage} /\ e.mod \in Nat
    BY <2>1 DEF Triples
  <2> QED BY <2>2 DEF Field, EntryOf
<1>2. "lfh" \in Field /\ "cde" \in Field /\ e.method \in Field /\ e.len \in Field
  <2>1. "lfh" \in Field /\ "cde" \in Field
    BY DEF Field
  <2>2. e.method \in Field /\ e.len \in Field
    BY DEF EntryOf
  <2> QED BY <2>1, <2>2
<1> QED BY <1>1, <1>2 DEF Lfh, Cde

\* An addition begins.
LEMMA AddBeginBounds ==
  ASSUME NEW T, BoundsOf(T), op = "ready", pc = "files", NEW es, Thinned(es, entries),
         NEW name, NEW v, NEW method, NEW when, <<name, v, DosTime(when)>> \in T,
         AddBegin(es, name, v, method, when)
  PROVE  BoundsOf(T)'
<1>1. /\ FileOf(file, T) /\ Bounds(file) /\ Rewriting /\ ListOf(entries, T)
  BY DEF BoundsOf, Rewriting
<1>2. /\ ListOf(es, T) /\ Len(es) = Len(entries)
      /\ \A i \in 1..Len(entries) : es[i].off = entries[i].off
  BY <1>1, ThinnedOf
<1>3. PICK q : q = <<Blank(name)>>
  OBVIOUS
<1>4. IsList(q) /\ Len(q) = 1 /\ \A i \in 1..Len(q) : CellOf(q[i], T)
  <2>1. name \in STRING
    BY DEF BoundsOf, Triples
  <2>2. Blank(name) \in Seq(Field)
    BY <2>1, FieldCells
  <2>3. Blank(name)[1] = "lfh"
    BY DEF Blank
  <2>4. CellOf(Blank(name), T)
    BY <2>2, <2>3, PlainCell
  <2> QED BY <1>3, <2>4, OneCell
<1>5. entries' = es /\ eocd' = eocd /\ op' = "adding" /\ needRewrite' = TRUE
  BY DEF AddBegin
<1>6. PICK head \in {0, 1} :
        /\ cur' = [name |-> name, v |-> v, method |-> method, when |-> when, head |-> head]
        /\ \/ head = 1 /\ file' = WriteAt(file, eocd.off, q)
           \/ head = 0 /\ file' = file
  BY <1>3, Zenon DEF AddBegin
<1>7. eocd.off \in Nat /\ eocd.num \in Nat /\ eocd.off <= Len(file)
  BY <1>1 DEF Bounds
<1>8. FileOf(file', T) /\ Len(file) <= Len(file') /\ eocd.off + head <= Len(file')
  <2>1. CASE head = 1
    <3>1. file' = WriteAt(file, eocd.off, q)
      BY <1>6, <2>1
    <3> QED BY <1>1, <1>4, <1>7, <2>1, <3>1, WriteAtOf
  <2>2. CASE head = 0
    <3>1. file' = file /\ Len(file) \in Nat
      BY <1>1, <1>6, <2>2 DEF FileOf, IsList
    <3> QED BY <1>1, <1>7, <2>2, <3>1
  <2> QED BY <2>1, <2>2
<1>9. Len(file) \in Nat /\ Len(file') \in Nat
  BY <1>1, <1>8 DEF FileOf, IsList
<1>10. ASSUME NEW i \in 1..Len(entries') PROVE entries'[i].off <= Len(file')
  <2>1. /\ i \in 1..Len(entries) /\ entries'[i].off = entries[i].off
        /\ entries[i].off \in Nat /\ entries[i].off <= Len(file)
    BY <1>1, <1>2, <1>5 DEF Bounds, ListOf, EntryOf
  <2> QED BY <1>8, <1>9, <2>1
<1>11. Bounds(file)'
  <2>1. eocd.off <= Len(file')
    BY <1>7, <1>8, <1>9
  <2> QED BY <1>5, <1>7, <1>10, <2>1 DEF Bounds
<1>12. <<cur'.name, cur'.v, DosTime(cur'.when)>> \in T /\ cur'.head = head
  BY <1>6
<1>13. cur'.head \in Nat /\ DataAt' <= Len(file')
  BY <1>5, <1>8, <1>12 DEF DataAt
<1> QED BY <1>1, <1>2, <1>5, <1>8, <1>11, <1>12, <1>13 DEF BoundsOf

\* An addition is refused.
LEMMA AddRefusedBounds ==
  ASSUME NEW T, BoundsOf(T), op = "ready", pc = "files", pc' \in {"files", "added", "specAdded"},
         NEW es, Thinned(es, entries), NEW name, AddRefused(es, name)
  PROVE  BoundsOf(T)'
<1>1. ListOf(es, T) /\ Len(es) = Len(entries) /\ \A i \in 1..Len(entries) : es[i].off = entries[i].off
  BY ThinnedOf DEF BoundsOf
<1>2. entries' = es /\ op' = "ready" /\ UNCHANGED <<file, eocd>>
  BY DEF AddRefused
<1>3. Rewriting
  BY DEF Rewriting
<1> QED BY <1>1, <1>2, <1>3, BoundsReady

\* f is a file that an addition may have made of the archive.
Grown(f, T) == FileOf(f, T) /\ Len(file) <= Len(f)

\* Data go behind the local header.
LEMMA PiecesBounds ==
  ASSUME NEW T, BoundsOf(T), op = "adding", NEW f, Grown(f, T), NEW v \in Contents,
         NEW method \in {"stored", "deflated"}, NEW n \in Nat
  PROVE  /\ Grown(WriteAt(f, DataAt, Pieces(v, method, n)), T)
         /\ DataAt + n <= Len(WriteAt(f, DataAt, Pieces(v, method, n)))
<1>1. PICK q : q = Pieces(v, method, n)
  OBVIOUS
<1>2. IsList(q) /\ Len(q) = n /\ \A i \in 1..Len(q) : CellOf(q[i], T)
  <2>1. IsList(q) /\ Len(q) = n /\ \A i \in 1..n : q[i] = <<"data", v, method, i>>
    BY <1>1, PiecesList
  <2>2. \A i \in 1..n : q[i] \in Seq(Field)
    <3>1. \A i \in 1..n : i \in Nat
      OBVIOUS
    <3> QED BY <2>1, <3>1, FieldCells
  <2>3. \A i \in 1..n : q[i][1] = "data"
    BY <2>1
  <2>4. \A i \in 1..n : CellOf(q[i], T)
    BY <2>2, <2>3, PlainCell
  <2> QED BY <2>1, <2>4
<1>3. FileOf(file, T) /\ eocd.off \in Nat /\ cur.head \in Nat /\ DataAt <= Len(file)
  BY DEF BoundsOf, Bounds
<1>4. PICK at \in Nat : at = DataAt /\ at <= Len(f)
  <2>1. Len(f) \in Nat /\ Len(file) \in Nat
    BY <1>3 DEF Grown, FileOf, IsList
  <2> QED BY <1>3, <2>1 DEF Grown, DataAt
<1>5. PICK g : g = WriteAt(f, at, q)
  OBVIOUS
<1>6. FileOf(g, T) /\ Len(f) <= Len(g) /\ at + n <= Len(g)
  BY <1>2, <1>4, <1>5, WriteAtOf DEF Grown
<1>7. Len(file) \in Nat /\ Len(f) \in Nat /\ Len(g) \in Nat
  BY <1>3, <1>6 DEF Grown, FileOf, IsList
<1> QED BY <1>1, <1>4, <1>5, <1>6, <1>7 DEF Grown

\* The entries are where they were, in a file that grew, and so may the central directory be.
LEMMA GrownBounds ==
  ASSUME NEW T, BoundsOf(T), op = "adding", Grown(file', T), op' = "ready", UNCHANGED entries,
         eocd'.num \in Nat, eocd'.off \in Nat, eocd'.off <= Len(file')
  PROVE  BoundsOf(T)'
<1>1. FileOf(file, T) /\ Bounds(file) /\ Rewriting /\ ListOf(entries, T)
  BY DEF BoundsOf, Rewriting
<1>2. FileOf(file', T) /\ Len(file) \in Nat /\ Len(file') \in Nat /\ Len(file) <= Len(file')
  BY <1>1 DEF Grown, FileOf, IsList
<1>3. ASSUME NEW i \in 1..Len(entries) PROVE entries[i].off <= Len(file')
  <2>1. entries[i].off \in Nat /\ entries[i].off <= Len(file)
    BY <1>1 DEF Bounds, ListOf, EntryOf
  <2> QED BY <1>2, <2>1
<1>4. Bounds(file)'
  BY <1>3 DEF Bounds
<1> QED BY <1>1, <1>2, <1>4 DEF BoundsOf

\* An addition fails.
LEMMA AddFailsBounds ==
  ASSUME NEW T, BoundsOf(T), op = "adding", NEW f, Grown(f, T), AddFails(f)
  PROVE  BoundsOf(T)'
<1>1. file' = f /\ op' = "ready" /\ UNCHANGED <<entries, eocd>>
  BY DEF AddFails
<1>2. FileOf(file, T) /\ eocd.off \in Nat /\ eocd.num \in Nat /\ eocd.off <= Len(file)
  BY DEF BoundsOf, Bounds
<1>3. Len(file) \in Nat /\ Len(f) \in Nat /\ Len(file) <= Len(f)
  BY <1>2 DEF Grown, FileOf, IsList
<1>4. eocd.off <= Len(f)
  BY <1>2, <1>3
<1> QED BY <1>1, <1>2, <1>4, GrownBounds

\* An addition is lost when it is counted already.
LEMMA AddLostBounds ==
  ASSUME NEW T, BoundsOf(T), op = "adding", NEW f, Grown(f, T), NEW n \in Nat,
         DataAt + n <= Len(f), AddLost(f, n)
  PROVE  BoundsOf(T)'
<1>1. /\ file' = f /\ op' = "ready" /\ UNCHANGED entries
      /\ eocd' = [num |-> eocd.num + 1, off |-> DataAt + n]
  BY DEF AddLost
<1>2. eocd.num \in Nat /\ DataAt \in Nat
  BY DEF BoundsOf, Bounds, DataAt
<1>3. eocd'.num \in Nat /\ eocd'.off \in Nat /\ eocd'.off <= Len(file')
  BY <1>1, <1>2
<1> QED BY <1>1, <1>3, GrownBounds

\* The entry that is added is honest, with its checksum or without one.
LEMMA NewEntryOf ==
  ASSUME NEW T, Lenient(T), BoundsOf(T), op = "adding", NEW n \in Nat,
         NEW method \in {"stored", "deflated"}, NEW crc, crc \in {cur.v, Garbage}
  PROVE  /\ EntryOf(NewEntry(n, method, crc), T) /\ NewEntry(n, method, crc).off = eocd.off
         /\ eocd.off \in Nat /\ eocd.num \in Nat /\ eocd.off <= Len(file) /\ Len(file) \in Nat
<1>1. PICK e : e = [name |-> cur.name, off |-> eocd.off, method |-> method, crc |-> crc,
                    len |-> n, mod |-> DosTime(cur.when), deleted |-> FALSE, marked |-> FALSE]
  OBVIOUS
<1>2. /\ <<cur.name, cur.v, DosTime(cur.when)>> \in T /\ FileOf(file, T)
      /\ eocd.off \in Nat /\ eocd.off <= Len(file) /\ eocd.num \in Nat
  BY DEF BoundsOf, Bounds
<1>3. <<cur.name, crc, DosTime(cur.when)>> \in T
  <2>1. PICK t \in T : t = <<cur.name, cur.v, DosTime(cur.when)>>
    BY <1>2
  <2>2. <<t[1], Garbage, t[3]>> \in T
    BY DEF Lenient
  <2> QED BY <2>1, <2>2
<1>4. EntryOf(e, T) /\ e.off = eocd.off
  <2>1. method \in Field /\ n \in Field
    BY DEF Field
  <2> HIDE DEF Field
  <2> QED BY <1>1, <1>2, <1>3, <2>1 DEF EntryOf, Plain
<1>5. NewEntry(n, method, crc) = e
  BY <1>1 DEF NewEntry
<1> QED BY <1>2, <1>4, <1>5 DEF FileOf, IsList

\* An entry is listed and counted.
LEMMA AddEntryBounds ==
  ASSUME NEW T, Lenient(T), BoundsOf(T), op = "adding", UNCHANGED needRewrite, Grown(file', T),
         NEW n \in Nat, DataAt + n <= Len(file'), NEW method \in {"stored", "deflated"},
         NEW crc, crc \in {cur.v, Garbage}, AddEntry(n, method, crc)
  PROVE  BoundsOf(T)'
<1>1. PICK e : e = NewEntry(n, method, crc)
  OBVIOUS
<1>2. /\ entries' = Append(entries, e) /\ op' = "ready"
      /\ eocd' = [num |-> eocd.num + 1, off |-> DataAt + n]
  BY <1>1, Zenon DEF AddEntry
<1>3. FileOf(file, T) /\ Bounds(file) /\ Rewriting /\ ListOf(entries, T) /\ DataAt \in Nat
  BY DEF BoundsOf, Rewriting, Bounds, DataAt
<1>4. /\ EntryOf(e, T) /\ e.off = eocd.off /\ eocd.off \in Nat /\ eocd.num \in Nat
      /\ eocd.off <= Len(file) /\ Len(file) \in Nat
  BY <1>1, NewEntryOf
<1>5. FileOf(file', T) /\ Len(file') \in Nat /\ Len(file) <= Len(file')
  BY DEF Grown, FileOf, IsList
<1>6. /\ IsList(entries') /\ Len(entries') = Len(entries) + 1 /\ entries'[Len(entries) + 1] = e
      /\ \A i \in 1..Len(entries) : entries'[i] = entries[i]
  BY <1>2, <1>3, AppendList DEF ListOf
<1>7. Len(entries) \in Nat
  BY <1>3 DEF ListOf, IsList
<1>8. \A i \in 1..Len(entries') : i = Len(entries) + 1 \/ i \in 1..Len(entries)
  BY <1>6, <1>7
<1>9. ListOf(entries', T)
  BY <1>3, <1>4, <1>6, <1>8 DEF ListOf
<1>10. \A i \in 1..Len(entries') : entries'[i].off <= Len(file')
  <2>1. ASSUME NEW i \in 1..Len(entries) PROVE entries[i].off <= Len(file')
    <3>1. entries[i].off \in Nat /\ entries[i].off <= Len(file)
      BY <1>3 DEF Bounds, ListOf, EntryOf
    <3> QED BY <1>4, <1>5, <3>1
  <2>2. e.off <= Len(file')
    BY <1>4, <1>5
  <2> QED BY <1>6, <1>8, <2>1, <2>2
<1>11. Bounds(file)'
  <2>1. eocd'.num \in Nat /\ eocd'.off \in Nat /\ eocd'.off <= Len(file')
    BY <1>2, <1>3, <1>4
  <2> QED BY <1>10, <2>1 DEF Bounds
<1> QED BY <1>2, <1>3, <1>5, <1>9, <1>11 DEF BoundsOf

\* An addition ends, with its header rewritten.
LEMMA AddEndBounds ==
  ASSUME NEW T, Lenient(T), BoundsOf(T), op = "adding", UNCHANGED needRewrite, NEW f, Grown(f, T),
         NEW n \in Nat, DataAt + n <= Len(f), NEW method \in {"stored", "deflated"}, NEW crc,
         crc \in {cur.v, Garbage}, AddEnd(f, n, method, crc)
  PROVE  BoundsOf(T)'
<1>1. PICK e : e = NewEntry(n, method, crc)
  OBVIOUS
<1>2. PICK q : q = <<Lfh(e)>>
  OBVIOUS
<1>3. file' = WriteAt(f, eocd.off, q) /\ AddEntry(n, method, crc)
  BY <1>1, <1>2, Zenon DEF AddEnd
<1>4. EntryOf(e, T) /\ eocd.off \in Nat /\ eocd.off <= Len(file) /\ Len(file) \in Nat
  BY <1>1, NewEntryOf
<1>5. IsList(q) /\ Len(q) = 1 /\ \A i \in 1..Len(q) : CellOf(q[i], T)
  <2>1. Lfh(e) \in Seq(Field)
    BY <1>4, EntryCells DEF Lenient
  <2>2. Lfh(e)[1] = "lfh"
    BY DEF Lfh
  <2>3. CellOf(Lfh(e), T)
    BY <2>1, <2>2, PlainCell
  <2> QED BY <1>2, <2>3, OneCell
<1>6. FileOf(f, T) /\ Len(f) \in Nat /\ Len(file) <= Len(f)
  BY DEF Grown, FileOf, IsList
<1>7. eocd.off <= Len(f)
  BY <1>4, <1>6
<1>8. FileOf(file', T) /\ Len(f) <= Len(file')
  BY <1>3, <1>4, <1>5, <1>6, <1>7, WriteAtOf
<1>9. Len(file') \in Nat
  BY <1>8 DEF FileOf, IsList
<1>10. DataAt \in Nat
  BY DEF BoundsOf, Bounds, DataAt
<1>11. Grown(file', T) /\ DataAt + n <= Len(file')
  BY <1>4, <1>6, <1>8, <1>9, <1>10 DEF Grown
<1> QED BY <1>3, <1>11, AddEntryBounds

\* The data are in, and what follows goes well or not.
LEMMA AddDataBounds ==
  ASSUME NEW T, Lenient(T), BoundsOf(T), op = "adding", UNCHANGED needRewrite, NEW f, Grown(f, T),
         NEW n \in Nat, DataAt + n <= Len(f), NEW method \in {"stored", "deflated"},
         AddData(f, n, method)
  PROVE  BoundsOf(T)'
<1>1. CASE AddEnd(f, n, method, cur.v)
  BY <1>1, AddEndBounds
<1>2. CASE AddBlank(f, n, method)
  <2>1. file' = f /\ AddEntry(n, method, cur.v)
    BY <1>2, Zenon DEF AddBlank
  <2> QED BY <2>1, AddEntryBounds
<1>3. CASE AddLost(f, n)
  BY <1>3, AddLostBounds
<1> QED BY <1>1, <1>2, <1>3 DEF AddData

\* Storing, over whatever a deflate attempt left.
LEMMA StoreBounds ==
  ASSUME NEW T, Lenient(T), BoundsOf(T), op = "adding", UNCHANGED needRewrite, cur.v \in Contents,
         NEW f, Grown(f, T), Store(f)
  PROVE  BoundsOf(T)'
<1>1. RawLen[cur.v] \in Nat
  BY ArchiveAssumption
<1>2. ASSUME NEW n \in Nat PROVE Grown(Stored(f, n), T) /\ DataAt + n <= Len(Stored(f, n))
  BY PiecesBounds DEF Stored
<1>3. \/ AddData(Stored(f, RawLen[cur.v]), RawLen[cur.v], "stored")
      \/ \E n \in 0..RawLen[cur.v] : AddFails(Stored(f, n))
  BY Zenon DEF Store
<1>4. CASE AddData(Stored(f, RawLen[cur.v]), RawLen[cur.v], "stored")
  BY <1>1, <1>2, <1>4, AddDataBounds
<1>5. ASSUME NEW n \in 0..RawLen[cur.v], AddFails(Stored(f, n)) PROVE BoundsOf(T)'
  BY <1>1, <1>2, <1>5, AddFailsBounds
<1> QED BY <1>3, <1>4, <1>5

\* The ways to add.
LEMMA AddBounds ==
  ASSUME NEW T, Lenient(T), BoundsOf(T), CurInv, AddDeflated \/ AddStored \/ AddGzip
  PROVE  BoundsOf(T)'
<1>1. op = "adding" /\ UNCHANGED needRewrite
  BY Zenon DEF AddDeflated, AddStored, AddGzip
<1>2. cur.v \in Contents /\ PackedLen[cur.v] \in Nat
  BY <1>1, ArchiveAssumption DEF CurInv
<1>3. Grown(file, T)
  <2>1. FileOf(file, T)
    BY <1>1 DEF BoundsOf
  <2> QED BY <2>1 DEF Grown, FileOf, IsList
<1>4. ASSUME NEW n \in Nat PROVE Grown(Deflated(n), T) /\ DataAt + n <= Len(Deflated(n))
  BY <1>1, <1>2, <1>3, PiecesBounds DEF Deflated
<1>5. ASSUME AddData(Deflated(PackedLen[cur.v]), PackedLen[cur.v], "deflated")
      PROVE  BoundsOf(T)'
  BY <1>1, <1>2, <1>4, <1>5, AddDataBounds
<1>6. CASE AddDeflated
  <2>1. \/ AddData(Deflated(PackedLen[cur.v]), PackedLen[cur.v], "deflated")
        \/ Store(Deflated(PackedLen[cur.v]))
        \/ \E n \in 0..PackedLen[cur.v] - 1 : AddEnd(Deflated(n), n, "deflated", Garbage)
    BY <1>6, Zenon DEF AddDeflated
  <2>2. CASE Store(Deflated(PackedLen[cur.v]))
    BY <1>1, <1>2, <1>4, <2>2, StoreBounds
  <2>3. ASSUME NEW n \in 0..PackedLen[cur.v] - 1, AddEnd(Deflated(n), n, "deflated", Garbage)
        PROVE  BoundsOf(T)'
    <3>1. n \in Nat
      BY <1>2
    <3> QED BY <1>1, <1>4, <2>3, <3>1, AddEndBounds
  <2> QED BY <1>5, <2>1, <2>2, <2>3
<1>7. CASE AddStored
  BY <1>1, <1>2, <1>3, <1>7, StoreBounds DEF AddStored
<1>8. CASE AddGzip
  <2>1. \/ AddData(Deflated(PackedLen[cur.v]), PackedLen[cur.v], "deflated")
        \/ \E k \in 0..PackedLen[cur.v] : AddFails(Deflated(k))
    BY <1>8, Zenon DEF AddGzip
  <2>2. ASSUME NEW k \in 0..PackedLen[cur.v], AddFails(Deflated(k)) PROVE BoundsOf(T)'
    BY <1>1, <1>2, <1>4, <2>2, AddFailsBounds
  <2> QED BY <1>5, <2>1, <2>2
<1> QED BY <1>6, <1>7, <1>8

\* A flush begins.
LEMMA FlushBounds ==
  ASSUME NEW T, BoundsOf(T), FlushBegin
  PROVE  BoundsOf(T)'
<1>1. /\ op = "ready" /\ needRewrite /\ op' = "crunch" /\ cur' = [i |-> 1, adjust |-> 0, del |-> 0]
      /\ UNCHANGED <<file, entries, eocd, needRewrite>>
  BY DEF FlushBegin
<1>2. FileOf(file, T) /\ Bounds(file) /\ Rewriting /\ ListOf(entries, T)
  BY <1>1 DEF BoundsOf, Rewriting
<1>3. Len(entries) \in Nat /\ \A i \in 1..Len(entries) : entries[i].off \in Nat
  BY <1>2 DEF ListOf, IsList, EntryOf
<1>4. eocd.off \in Nat
  BY <1>2 DEF Bounds
<1>5. NoLater(entries, eocd.off, 1, 0)
  BY <1>3, <1>4 DEF NoLater
<1>6. CrunchBounds'
  BY <1>1, <1>3, <1>5 DEF CrunchBounds
<1>7. FileOf(file, T)' /\ Bounds(file)' /\ ListOf(entries, T)'
  BY <1>1, <1>2 DEF Bounds
<1> QED BY <1>1, <1>6, <1>7 DEF BoundsOf

\* Where the bytes of the entry at hand end.
LEMMA NextOffset ==
  ASSUME NEW T, ListOf(entries, T), Bounds(file), Rewriting, FileOf(file, T),
         NEW i \in 1..Len(entries)
  PROVE  \E next \in Nat :
           /\ Span(i) = IF entries[i].off = 0 THEN 0 ELSE next - entries[i].off
           /\ NoLater(entries, eocd.off, i + 1, next) /\ next <= Len(file)
<1>1. Len(entries) \in Nat /\ \A j \in 1..Len(entries) : entries[j].off \in Nat
  BY DEF ListOf, IsList, EntryOf
<1> DEFINE later == {j \in i + 1..Len(entries) : entries[j].off # 0}
           next == IF later = {} THEN eocd.off
                   ELSE entries[CHOOSE j \in later : \A k \in later : j <= k].off
<1>2. Span(i) = IF entries[i].off = 0 THEN 0 ELSE next - entries[i].off
  BY DEF Span
<1>3. next \in Nat /\ NoLater(entries, eocd.off, i + 1, next) /\ next <= Len(file)
  <2>1. CASE later = {}
    <3>1. next = eocd.off
      BY <2>1
    <3>2. \A j \in i + 1..Len(entries) : entries[j].off = 0
      BY <2>1
    <3> HIDE DEF next
    <3> QED BY <3>1, <3>2 DEF NoLater, Bounds
  <2>2. CASE later # {}
    <3>1. later \in SUBSET Nat
      BY <1>1
    <3>2. \E j \in later : \A k \in later : j <= k
      <4> HIDE DEF later
      <4> QED BY <2>2, <3>1, SmallestOf
    <3>3. PICK j \in later : next = entries[j].off /\ \A k \in later : j <= k
      <4>1. PICK c : c = CHOOSE j \in later : \A k \in later : j <= k
        OBVIOUS
      <4>2. c \in later /\ \A k \in later : c <= k
        BY <3>2, <4>1
      <4>3. next = entries[c].off
        BY <2>2, <4>1
      <4> QED BY <4>2, <4>3
    <3> HIDE DEF next
    <3>4. j \in i + 1..Len(entries) /\ entries[j].off # 0 /\ j \in 1..Len(entries)
      BY <1>1
    <3>5. ASSUME NEW k \in i + 1..Len(entries), entries[k].off # 0,
                 \A l \in i + 1..k - 1 : entries[l].off = 0
          PROVE  k = j
      <4>1. k \in later
        BY <3>5
      <4>2. j <= k
        BY <3>3, <4>1
      <4> QED BY <1>1, <3>4, <3>5, <4>2
    <3>6. next \in Nat /\ next <= Len(file)
      BY <1>1, <3>3, <3>4 DEF Bounds
    <3>7. NoLater(entries, eocd.off, i + 1, next)
      BY <3>3, <3>4, <3>5, <3>6 DEF NoLater
    <3> QED BY <3>6, <3>7
  <2> QED BY <2>1, <2>2
<1> HIDE DEF next
<1> QED BY <1>2, <1>3

\* Taking an entry out that is next, or giving up what is in front of a later one.
LEMMA NoLaterRemove ==
  ASSUME NEW es, NEW m \in Nat, m = Len(es), NEW end \in Nat, NEW i \in 1..m, NEW n \in Nat,
         NoLater(es, end, i + 1, n),
         NEW ds, Len(ds) = m - 1, \A j \in i..(m - 1) : ds[j] = es[j + 1]
  PROVE  NoLater(ds, end, i, n)
<1>1. ASSUME NEW j \in i..m - 1, ds[j].off # 0, \A k \in i..j - 1 : ds[k].off = 0
      PROVE  n <= ds[j].off
  <2>1. j + 1 \in i + 1..m /\ es[j + 1].off # 0
    BY <1>1
  <2>2. ASSUME NEW k \in i + 1..(j + 1) - 1 PROVE es[k].off = 0
    <3>1. k - 1 \in i..j - 1 /\ k - 1 \in i..(m - 1) /\ (k - 1) + 1 = k
      OBVIOUS
    <3> QED BY <1>1, <3>1
  <2> QED BY <2>1, <2>2 DEF NoLater
<1>2. ASSUME \A k \in i..m - 1 : ds[k].off = 0 PROVE n <= end
  <2>1. ASSUME NEW k \in i + 1..m PROVE es[k].off = 0
    <3>1. k - 1 \in i..m - 1 /\ (k - 1) + 1 = k
      OBVIOUS
    <3> QED BY <1>2, <3>1
  <2> QED BY <2>1 DEF NoLater
<1> QED BY <1>1, <1>2 DEF NoLater

\* Past an entry without an offset.
LEMMA NoLaterPast ==
  ASSUME NEW es, NEW m \in Nat, m = Len(es), NEW end, NEW i \in 1..m, NEW n,
         NoLater(es, end, i, n), es[i].off = 0
  PROVE  NoLater(es, end, i + 1, n)
<1>1. ASSUME NEW j \in i + 1..m, es[j].off # 0, \A k \in i + 1..j - 1 : es[k].off = 0
      PROVE  n <= es[j].off
  <2>1. j \in i..m /\ \A k \in i..j - 1 : es[k].off = 0
    BY <1>1
  <2> QED BY <1>1, <2>1 DEF NoLater
<1>2. ASSUME \A k \in i + 1..m : es[k].off = 0 PROVE n <= end
  <2>1. \A k \in i..m : es[k].off = 0
    BY <1>2
  <2> QED BY <2>1 DEF NoLater
<1> QED BY <1>1, <1>2 DEF NoLater

\* What is no further than a limit.
LEMMA NoLaterLess ==
  ASSUME NEW es, NEW end \in Nat, NEW i \in Nat, NEW n \in Nat, NEW a \in Nat, a <= n,
         \A j \in i..Len(es) : es[j].off \in Nat, NoLater(es, end, i, n)
  PROVE  NoLater(es, end, i, a)
<1>1. ASSUME NEW j \in i..Len(es), es[j].off # 0, \A k \in i..j - 1 : es[k].off = 0
      PROVE  a <= es[j].off
  <2>1. n <= es[j].off /\ es[j].off \in Nat
    BY <1>1 DEF NoLater
  <2> QED BY <2>1
<1>2. ASSUME \A k \in i..Len(es) : es[k].off = 0 PROVE a <= end
  <2>1. n <= end
    BY <1>2 DEF NoLater
  <2> QED BY <2>1
<1> QED BY <1>1, <1>2 DEF NoLater

\* The crunch at an entry: its bytes, and those that are free in front of it.
LEMMA CrunchAt ==
  ASSUME NEW T, BoundsOf(T), CurInv, op = "crunch", cur.i <= Len(entries), HasRoom(cur.i)
  PROVE  \E i \in 1..Len(entries), next \in Nat :
           /\ i = cur.i /\ Len(entries) \in Nat /\ eocd.off \in Nat
           /\ \A j \in 1..Len(entries) : entries[j].off \in Nat
           /\ Span(i) = (IF entries[i].off = 0 THEN 0 ELSE next - entries[i].off)
           /\ NoLater(entries, eocd.off, i + 1, next) /\ next <= Len(file)
           /\ cur.adjust \in Nat
           /\ entries[i].off = 0 => NoLater(entries, eocd.off, i + 1, cur.adjust)
           /\ entries[i].off # 0 => cur.adjust <= entries[i].off /\ entries[i].off < next
<1>1. /\ ListOf(entries, T) /\ Bounds(file) /\ Rewriting /\ FileOf(file, T) /\ CrunchBounds
      /\ eocd.off \in Nat
  BY DEF BoundsOf, Rewriting, Bounds
<1>2. Len(entries) \in Nat /\ \A j \in 1..Len(entries) : entries[j].off \in Nat
  BY <1>1 DEF ListOf, IsList, EntryOf
<1>3. PICK i \in 1..Len(entries) : i = cur.i
  BY <1>2 DEF CurInv
<1>4. PICK next \in Nat : /\ Span(i) = (IF entries[i].off = 0 THEN 0 ELSE next - entries[i].off)
                          /\ NoLater(entries, eocd.off, i + 1, next) /\ next <= Len(file)
  BY <1>1, NextOffset
<1>5. cur.adjust \in Nat /\ NoLater(entries, eocd.off, i, cur.adjust)
  BY <1>1, <1>3 DEF CrunchBounds
<1>6. entries[i].off = 0 => NoLater(entries, eocd.off, i + 1, cur.adjust)
  BY <1>2, <1>5, NoLaterPast
<1>7. ASSUME entries[i].off # 0 PROVE cur.adjust <= entries[i].off /\ entries[i].off < next
  <2>1. i \in i..Len(entries) /\ \A k \in i..i - 1 : entries[k].off = 0
    BY <1>2
  <2>2. cur.adjust <= entries[i].off
    BY <1>5, <1>7, <2>1 DEF NoLater
  <2>3. next - entries[i].off >= 1
    BY <1>3, <1>4, <1>7 DEF HasRoom
  <2> QED BY <1>2, <2>2, <2>3
<1> QED BY <1>1, <1>2, <1>3, <1>4, <1>5, <1>6, <1>7

\* A deleted entry is taken out.
LEMMA CrunchDeletedBounds ==
  ASSUME NEW T, BoundsOf(T), CurInv, CrunchDeleted
  PROVE  BoundsOf(T)'
<1>1. /\ op = "crunch" /\ cur.i <= Len(entries) /\ HasRoom(cur.i) /\ op' = "crunch"
      /\ cur' = [cur EXCEPT !.adjust = @ + Span(cur.i), !.del = @ + 1]
      /\ entries' = RemoveAt(entries, cur.i) /\ UNCHANGED <<file, eocd, needRewrite>>
  BY DEF CrunchDeleted
<1>2. PICK i \in 1..Len(entries), next \in Nat :
           /\ i = cur.i /\ Len(entries) \in Nat /\ eocd.off \in Nat
           /\ \A j \in 1..Len(entries) : entries[j].off \in Nat
           /\ Span(i) = (IF entries[i].off = 0 THEN 0 ELSE next - entries[i].off)
           /\ NoLater(entries, eocd.off, i + 1, next) /\ next <= Len(file)
           /\ cur.adjust \in Nat
           /\ entries[i].off = 0 => NoLater(entries, eocd.off, i + 1, cur.adjust)
           /\ entries[i].off # 0 => cur.adjust <= entries[i].off /\ entries[i].off < next
  BY <1>1, CrunchAt
<1>3. /\ FileOf(file, T) /\ Bounds(file) /\ needRewrite /\ ListOf(entries, T)
      /\ cur.del \in Nat /\ Rewriting
  BY <1>1 DEF BoundsOf, CrunchBounds, Rewriting
<1>4. PICK ds : ds = entries'
  OBVIOUS
<1>5. /\ IsList(ds) /\ Len(ds) = Len(entries) - 1
      /\ \A j \in 1..(i - 1) : ds[j] = entries[j]
      /\ \A j \in i..(Len(entries) - 1) : ds[j] = entries[j + 1]
  BY <1>1, <1>2, <1>3, <1>4, RemoveAtList DEF ListOf
<1>6. \A j \in 1..Len(ds) : \E k \in 1..Len(entries) : ds[j] = entries[k]
  <2>1. TAKE j \in 1..Len(ds)
  <2>2. CASE j < i
    BY <1>2, <1>5, <2>2
  <2>3. CASE j >= i
    <3>1. j + 1 \in 1..Len(entries) /\ j \in i..(Len(entries) - 1)
      BY <1>2, <1>5, <2>3
    <3> QED BY <1>5, <3>1
  <2> QED BY <1>2, <1>5, <2>2, <2>3
<1>7. ListOf(ds, T) /\ \A j \in 1..Len(ds) : ds[j].off <= Len(file)
  BY <1>3, <1>5, <1>6 DEF ListOf, Bounds
<1>8. PICK a \in Nat : a = cur.adjust + Span(i) /\ NoLater(ds, eocd.off, i, a)
  <2>1. CASE entries[i].off = 0
    <3>1. cur.adjust + Span(i) = cur.adjust
      BY <1>2, <2>1
    <3>2. NoLater(entries, eocd.off, i + 1, cur.adjust)
      BY <1>2, <2>1
    <3>3. NoLater(ds, eocd.off, i, cur.adjust)
      BY <1>2, <1>5, <3>2, NoLaterRemove
    <3> QED BY <1>2, <3>1, <3>3
  <2>2. CASE entries[i].off # 0
    <3>1. PICK a \in Nat : a = cur.adjust + Span(i) /\ a <= next
      BY <1>2, <2>2
    <3>2. /\ \A j \in i + 1..Len(entries) : entries[j].off \in Nat
          /\ i + 1 \in Nat /\ eocd.off \in Nat /\ NoLater(entries, eocd.off, i + 1, next)
      BY <1>2
    <3>3. NoLater(entries, eocd.off, i + 1, a)
      <4> HIDE <1>2
      <4> QED BY <3>1, <3>2, NoLaterLess
    <3>4. NoLater(ds, eocd.off, i, a)
      BY <1>2, <1>5, <3>3, NoLaterRemove
    <3> QED BY <3>1, <3>4
  <2> QED BY <2>1, <2>2
<1>9. cur'.i = i /\ cur'.adjust = a /\ cur'.del = cur.del + 1
  BY <1>1, <1>2, <1>8 DEF CurInv
<1>10. CrunchBounds'
  BY <1>1, <1>2, <1>3, <1>4, <1>5, <1>8, <1>9 DEF CrunchBounds
<1>11. Bounds(file)'
  BY <1>1, <1>3, <1>4, <1>7 DEF Bounds
<1> QED BY <1>1, <1>3, <1>4, <1>7, <1>10, <1>11 DEF BoundsOf

\* An entry is moved, or is not because nothing is free in front of it.
LEMMA CrunchMoveBounds ==
  ASSUME NEW T, BoundsOf(T), CurInv, pc' = pc, CrunchMove
  PROVE  BoundsOf(T)'
<1>1. /\ op = "crunch" /\ cur.i <= Len(entries) /\ HasRoom(cur.i) /\ UNCHANGED <<eocd, needRewrite>>
  BY DEF CrunchMove
<1>2. PICK i \in 1..Len(entries), next \in Nat :
           /\ i = cur.i /\ Len(entries) \in Nat /\ eocd.off \in Nat
           /\ \A j \in 1..Len(entries) : entries[j].off \in Nat
           /\ Span(i) = (IF entries[i].off = 0 THEN 0 ELSE next - entries[i].off)
           /\ NoLater(entries, eocd.off, i + 1, next) /\ next <= Len(file)
           /\ cur.adjust \in Nat
           /\ entries[i].off = 0 => NoLater(entries, eocd.off, i + 1, cur.adjust)
           /\ entries[i].off # 0 => cur.adjust <= entries[i].off /\ entries[i].off < next
  BY <1>1, CrunchAt
<1>3. /\ FileOf(file, T) /\ Bounds(file) /\ needRewrite /\ ListOf(entries, T)
      /\ cur.del \in Nat /\ Rewriting /\ Len(file) \in Nat
  BY <1>1 DEF BoundsOf, CrunchBounds, Rewriting, FileOf, IsList
<1>4. PICK n : n = IF cur.adjust > 0 THEN Span(i) ELSE 0
  OBVIOUS
<1> DEFINE Moved(k) == WriteAt(file, entries[i].off - cur.adjust,
                               SubSeq(file, entries[i].off + 1, entries[i].off + k))
<1>5. \/ /\ file' = (IF n = 0 THEN file ELSE Moved(n))
         /\ entries' = (IF n = 0 THEN entries
                        ELSE [entries EXCEPT ![i].off = @ - cur.adjust])
         /\ cur' = [cur EXCEPT !.i = @ + 1] /\ op' = op
      \/ /\ n > 0 /\ \E k \in 0..n - 1 : file' = Moved(k)
         /\ op' = "ready" /\ entries' = entries
  BY <1>2, <1>4, Zenon DEF CrunchMove
<1>6. n \in Nat /\ (n # 0 => entries[i].off # 0 /\ n = next - entries[i].off /\ cur.adjust > 0)
  BY <1>2, <1>4
<1>7. ASSUME NEW k \in 0..n, n # 0
      PROVE  FileOf(Moved(k), T) /\ Len(file) <= Len(Moved(k))
  <2>1. PICK off \in Nat : off = entries[i].off
    BY <1>2
  <2>a. off < next /\ next \in Nat /\ next <= Len(file) /\ n = next - off /\ k \in 0..n
        /\ Len(file) \in Nat /\ cur.adjust \in Nat /\ cur.adjust <= off
    BY <1>2, <1>3, <1>6, <1>7, <2>1
  <2>2. off + k <= Len(file) /\ off + 1 \in Nat \ {0} /\ off + k \in Nat /\ off + 1 <= (off + k) + 1
    BY <2>a
  <2>3. PICK q : q = SubSeq(file, off + 1, off + k)
    OBVIOUS
  <2>4. FileOf(q, T)
    BY <1>3, <2>2, <2>3, SubOf
  <2>5. PICK to \in Nat : to = off - cur.adjust /\ to <= Len(file)
    <3>1. off - cur.adjust \in Nat /\ off - cur.adjust <= Len(file)
      BY <2>a
    <3> QED BY <3>1
  <2>6. IsList(q) /\ \A j \in 1..Len(q) : CellOf(q[j], T)
    BY <2>4 DEF FileOf
  <2>7. FileOf(WriteAt(file, to, q), T) /\ Len(file) <= Len(WriteAt(file, to, q))
    BY <1>3, <2>5, <2>6, WriteAtOf
  <2> QED BY <2>1, <2>3, <2>5, <2>7
<1> HIDE DEF Moved
<1>8. FileOf(file', T) /\ Len(file) <= Len(file')
  <2>1. CASE n = 0
    <3>1. file' = file
      BY <1>5, <2>1
    <3> QED BY <1>3, <3>1
  <2>2. CASE n # 0
    <3>1. PICK k \in 0..n : file' = Moved(k)
      BY <1>5, <1>6, <2>2
    <3> QED BY <1>7, <2>2, <3>1
  <2> QED BY <2>1, <2>2
<1>9. Len(file') \in Nat
  BY <1>8 DEF FileOf, IsList
<1>10. /\ IsList(entries') /\ Len(entries') = Len(entries)
       /\ \A j \in 1..Len(entries) : j # i => entries'[j] = entries[j]
       /\ EntryOf(entries'[i], T) /\ entries'[i].off <= entries[i].off
  <2>1. IsList(entries) /\ EntryOf(entries[i], T) /\ entries[i].off \in Nat
    BY <1>2, <1>3 DEF ListOf
  <2>2. CASE entries' = entries
    BY <2>1, <2>2
  <2>3. CASE n # 0 /\ entries' = [entries EXCEPT ![i].off = @ - cur.adjust]
    <3>1. PICK x : x = [entries[i] EXCEPT !.off = @ - cur.adjust]
      OBVIOUS
    <3>2. IsReplaced([entries EXCEPT ![i] = x], entries, i, x)
      BY <2>1, ReplaceList
    <3>3. entries' = [entries EXCEPT ![i] = x]
      BY <2>3, <3>1
    <3>4. /\ Plain(x) /\ x.off = entries[i].off - cur.adjust /\ x.name = entries[i].name
          /\ x.crc = entries[i].crc /\ x.mod = entries[i].mod
          /\ x.method = entries[i].method /\ x.len = entries[i].len
      BY <2>1, <3>1 DEF EntryOf, Plain
    <3>5. EntryOf(x, T) /\ x.off <= entries[i].off
      BY <1>2, <1>6, <2>1, <2>3, <3>4 DEF EntryOf
    <3> QED BY <3>2, <3>3, <3>5 DEF IsReplaced
  <2> QED BY <1>5, <2>2, <2>3
<1>11. ListOf(entries', T)
  BY <1>3, <1>10 DEF ListOf
<1>12. ASSUME NEW j \in 1..Len(entries') PROVE entries'[j].off <= Len(file')
  <2>1. entries[j].off \in Nat /\ entries[j].off <= Len(file) /\ j \in 1..Len(entries)
    BY <1>2, <1>3, <1>10 DEF Bounds
  <2>2. entries'[j].off \in Nat /\ entries'[j].off <= entries[j].off
    BY <1>10, <1>11, <2>1 DEF ListOf, EntryOf
  <2> QED BY <1>3, <1>8, <1>9, <2>1, <2>2
<1>13. Bounds(file)'
  <2>1. eocd.num \in Nat /\ eocd.off <= Len(file)
    BY <1>3 DEF Bounds
  <2> QED BY <1>1, <1>2, <1>3, <1>8, <1>9, <1>12, <2>1 DEF Bounds
<1>14. CASE op' = "ready"
  BY <1>8, <1>11, <1>13, <1>14 DEF BoundsOf
<1>15. CASE cur' = [cur EXCEPT !.i = @ + 1] /\ op' = "crunch"
  <2>1. cur'.i = i + 1 /\ cur'.adjust = cur.adjust /\ cur'.del = cur.del
    BY <1>1, <1>2, <1>15 DEF CurInv
  <2>2. NoLater(entries, eocd.off, i + 1, cur.adjust)
    <3>1. CASE entries[i].off = 0
      BY <1>2, <3>1
    <3>2. CASE entries[i].off # 0
      <4>1. /\ \A j \in i + 1..Len(entries) : entries[j].off \in Nat
            /\ i + 1 \in Nat /\ eocd.off \in Nat /\ NoLater(entries, eocd.off, i + 1, next)
        BY <1>2
      <4>2. cur.adjust <= next /\ cur.adjust \in Nat
        BY <1>2, <3>2
      <4> HIDE <1>2
      <4> QED BY <4>1, <4>2, NoLaterLess
    <3> QED BY <3>1, <3>2
  <2>3. NoLater(entries', eocd.off, i + 1, cur.adjust)
    <3>1. \A j \in i + 1..Len(entries) : entries'[j] = entries[j]
      BY <1>2, <1>10
    <3> QED BY <1>10, <2>2, <3>1 DEF NoLater
  <2>4. CrunchBounds'
    BY <1>1, <1>2, <1>3, <1>10, <2>1, <2>3 DEF CrunchBounds
  <2> QED BY <1>1, <1>3, <1>8, <1>11, <1>13, <1>15, <2>4 DEF BoundsOf
<1> QED BY <1>1, <1>5, <1>14, <1>15


\* The crunch is over.
LEMMA CrunchDoneBounds ==
  ASSUME NEW T, BoundsOf(T), CurInv, CrunchDone
  PROVE  BoundsOf(T)'
<1>1. /\ op = "crunch" /\ cur.i > Len(entries) /\ eocd.num - cur.del = Len(entries)
      /\ eocd' = [num |-> eocd.num - cur.del, off |-> eocd.off - cur.adjust]
      /\ op' = "central" /\ UNCHANGED <<file, entries, needRewrite>>
  BY DEF CrunchDone
<1>2. /\ ListOf(entries, T) /\ Bounds(file) /\ Rewriting /\ FileOf(file, T) /\ needRewrite
      /\ cur.i <= Len(entries) + 1 /\ cur.adjust \in Nat
      /\ NoLater(entries, eocd.off, cur.i, cur.adjust)
  BY <1>1 DEF BoundsOf, Rewriting, CrunchBounds
<1>3. /\ Len(entries) \in Nat /\ Len(file) \in Nat /\ eocd.off \in Nat /\ eocd.off <= Len(file)
      /\ \A i \in 1..Len(entries) : entries[i].off <= Len(file)
  BY <1>2 DEF ListOf, FileOf, IsList, Bounds
<1>4. cur.i = Len(entries) + 1
  BY <1>1, <1>2, <1>3 DEF CurInv
<1>5. cur.adjust <= eocd.off
  <2>1. \A k \in cur.i..Len(entries) : entries[k].off = 0
    BY <1>3, <1>4
  <2> QED BY <1>2, <2>1 DEF NoLater
<1>6. /\ eocd'.num = Len(entries) /\ eocd'.off \in Nat /\ eocd'.off <= Len(file)
  BY <1>1, <1>2, <1>3, <1>5
<1>7. Bounds(file)'
  BY <1>1, <1>3, <1>6 DEF Bounds
<1> QED BY <1>1, <1>2, <1>6, <1>7 DEF BoundsOf

\* The first CDEs of the central directory.
LEMMA CdesOf ==
  ASSUME NEW T, T \subseteq Triples, NEW es, ListOf(es, T), NEW k \in 0..Len(es),
         NEW cdes, cdes = [i \in DOMAIN es |-> Cde(es[i])]
  PROVE  /\ IsList(SubSeq(cdes, 1, k)) /\ Len(SubSeq(cdes, 1, k)) = k
         /\ \A i \in 1..k : CellOf(SubSeq(cdes, 1, k)[i], T)
         /\ IsList(cdes) /\ Len(cdes) = Len(es) /\ \A i \in 1..Len(es) : CellOf(cdes[i], T)
<1>1. Len(es) \in Nat /\ DOMAIN es = 1..Len(es)
  BY ListDomain DEF ListOf, IsList
<1>2. cdes = [i \in 1..Len(es) |-> cdes[i]] /\ \A i \in 1..Len(es) : cdes[i] = Cde(es[i])
  BY <1>1
<1>3. IsList(cdes) /\ Len(cdes) = Len(es)
  BY <1>1, <1>2, FunctionIsList
<1>4. ASSUME NEW i \in 1..Len(es) PROVE CellOf(cdes[i], T)
  <2>1. EntryOf(es[i], T) /\ cdes[i] = Cde(es[i])
    BY <1>2 DEF ListOf
  <2>2. Cde(es[i]) \in Seq(Field)
    BY <2>1, EntryCells
  <2>3. PICK c : c = Cde(es[i])
    OBVIOUS
  <2>4. /\ c[1] = "cde" /\ c[3] = es[i].off /\ c[4] = es[i].method /\ c[6] = es[i].len
        /\ <<c[2], c[5], c[7]>> = <<es[i].name, es[i].crc, es[i].mod>>
    BY <2>3 DEF Cde
  <2>5. CellOf(c, T)
    <3>1. c \in Seq(Field)
      BY <2>2, <2>3
    <3>2. c[3] \in Nat /\ c[4] \in Field /\ c[6] \in Field /\ <<c[2], c[5], c[7]>> \in T
      BY <2>1, <2>4 DEF EntryOf
    <3> QED BY <2>4, <3>1, <3>2 DEF CellOf
  <2> QED BY <2>1, <2>3, <2>5
<1>5. 1 \in Nat \ {0} /\ k \in Nat /\ k <= Len(cdes) /\ 1 <= k + 1
  BY <1>1, <1>3
<1>6. /\ IsList(SubSeq(cdes, 1, k)) /\ Len(SubSeq(cdes, 1, k)) = k - 1 + 1
      /\ \A i \in 1..(k - 1 + 1) : SubSeq(cdes, 1, k)[i] = cdes[1 + i - 1]
  BY <1>3, <1>5, SubList
<1>7. k - 1 + 1 = k /\ \A i \in 1..k : 1 + i - 1 = i /\ i \in 1..Len(es)
  BY <1>1
<1> QED BY <1>3, <1>4, <1>6, <1>7

\* The CDEs are written, or some of them.
LEMMA CentralBounds ==
  ASSUME NEW T, BoundsOf(T), pc' = pc, WriteCentralDir
  PROVE  BoundsOf(T)'
<1>1. PICK cdes : cdes = [i \in DOMAIN entries |-> Cde(entries[i])]
  OBVIOUS
<1>2. /\ op = "central" /\ UNCHANGED <<entries, eocd, cur>>
      /\ \/ file' = WriteAt(file, eocd.off, cdes) /\ op' = "end" /\ needRewrite' = needRewrite
         \/ /\ \E k \in 0..Len(cdes) - 1 : file' = WriteAt(file, eocd.off, SubSeq(cdes, 1, k))
            /\ op' = "ready" /\ needRewrite' = FALSE
         \/ op' = "ready" /\ UNCHANGED <<file, needRewrite>>
  BY <1>1, Zenon DEF WriteCentralDir
<1>3. /\ ListOf(entries, T) /\ Bounds(file) /\ Rewriting /\ FileOf(file, T) /\ needRewrite
      /\ eocd.num = Len(entries)
  BY <1>2 DEF BoundsOf, Rewriting
<1>4. /\ Len(entries) \in Nat /\ Len(file) \in Nat /\ eocd.off \in Nat /\ eocd.off <= Len(file)
      /\ \A i \in 1..Len(entries) : entries[i].off \in Nat /\ entries[i].off <= Len(file)
  BY <1>3 DEF ListOf, FileOf, IsList, Bounds, EntryOf
<1>5. Len(entries) \in 0..Len(entries)
  BY <1>4
<1>6. IsList(cdes) /\ Len(cdes) = Len(entries) /\ \A i \in 1..Len(entries) : CellOf(cdes[i], T)
  BY <1>1, <1>3, <1>5, CdesOf DEF BoundsOf
<1>7. CASE file' = WriteAt(file, eocd.off, cdes) /\ op' = "end" /\ needRewrite' = needRewrite
  <2>1. FileOf(file', T) /\ Len(file) <= Len(file') /\ eocd.off + Len(entries) <= Len(file')
    BY <1>3, <1>4, <1>6, <1>7, WriteAtOf
  <2>2. Len(file') \in Nat
    BY <2>1 DEF FileOf, IsList
  <2>3. /\ eocd.off <= Len(file') /\ \A i \in 1..Len(entries) : entries[i].off <= Len(file')
    BY <1>4, <2>1, <2>2
  <2>4. Bounds(file)'
    BY <1>2, <1>3, <2>3 DEF Bounds
  <2> QED BY <1>2, <1>3, <1>7, <2>1, <2>4 DEF BoundsOf
<1>8. ASSUME NEW k \in 0..Len(cdes) - 1, file' = WriteAt(file, eocd.off, SubSeq(cdes, 1, k)),
             op' = "ready", needRewrite' = FALSE
      PROVE  BoundsOf(T)'
  <2>1. k \in 0..Len(entries)
    BY <1>4, <1>6
  <2>2. PICK q : q = SubSeq(cdes, 1, k)
    OBVIOUS
  <2>3. IsList(q) /\ \A i \in 1..Len(q) : CellOf(q[i], T)
    BY <1>1, <1>3, <2>1, <2>2, CdesOf DEF BoundsOf
  <2>4. FileOf(file', T) /\ Len(file) <= Len(file')
    BY <1>3, <1>4, <1>8, <2>2, <2>3, WriteAtOf
  <2>5. Len(file') \in Nat
    BY <2>4 DEF FileOf, IsList
  <2>6. /\ eocd.off <= Len(file') /\ \A i \in 1..Len(entries) : entries[i].off <= Len(file')
    BY <1>4, <2>4, <2>5
  <2>7. Bounds(file)'
    BY <1>2, <1>3, <2>6 DEF Bounds
  <2> QED BY <1>2, <1>3, <1>8, <2>4, <2>7 DEF BoundsOf
<1>9. CASE op' = "ready" /\ UNCHANGED <<file, needRewrite>>
  <2>1. Bounds(file)'
    BY <1>2, <1>3, <1>9 DEF Bounds, Rewriting
  <2> QED BY <1>2, <1>3, <1>9, <2>1 DEF BoundsOf
<1> QED BY <1>2, <1>7, <1>8, <1>9

\* The EOCD is written, and the file cut behind it; or one of the two fails.
LEMMA EocdBounds ==
  ASSUME NEW T, PcInv, BoundsOf(T), pc' = pc, WriteEocd
  PROVE  BoundsOf(T)'
<1>1. op = "end"
  BY DEF WriteEocd
<1>2. /\ ListOf(entries, T) /\ Bounds(file) /\ FileOf(file, T) /\ eocd.num = Len(entries)
      /\ eocd.off + Len(entries) <= Len(file)
  BY <1>1 DEF BoundsOf
<1>3. Len(entries) \in Nat /\ Len(file) \in Nat /\ eocd.off \in Nat /\ eocd.num \in Nat
  BY <1>2 DEF ListOf, FileOf, IsList, Bounds
<1>4. PICK at \in Nat : at = eocd.off + Len(entries) /\ at <= Len(file) /\ eocd.off <= at
  BY <1>2, <1>3
<1>5. PICK q : q = <<(<<"eocd", eocd.num, eocd.off>>)>>
  OBVIOUS
<1>6. IsList(q) /\ Len(q) = 1 /\ \A i \in 1..Len(q) : CellOf(q[i], T)
  <2>1. <<"eocd", eocd.num, eocd.off>> \in Seq(Field)
    BY <1>3, FieldCells
  <2>2. PICK c : c = <<"eocd", eocd.num, eocd.off>>
    OBVIOUS
  <2>3. c[1] = "eocd" /\ c[2] = eocd.num /\ c[3] = eocd.off /\ c \in Seq(Field)
    BY <2>1, <2>2
  <2>4. CellOf(c, T)
    BY <1>3, <2>3 DEF CellOf
  <2> QED BY <1>5, <2>2, <2>4, OneCell
<1>7. PICK f : f = WriteAt(file, at, q)
  OBVIOUS
<1>8. FileOf(f, T) /\ at + 1 <= Len(f) /\ Len(f) \in Nat
  <2>1. FileOf(f, T) /\ at + 1 <= Len(f)
    BY <1>2, <1>4, <1>6, <1>7, WriteAtOf
  <2> QED BY <2>1 DEF FileOf, IsList
<1>9. /\ file' \in {SubSeq(f, 1, at + 1), f, SubSeq(file, 1, at)}
      /\ op' = "ready" /\ needRewrite' = FALSE /\ UNCHANGED <<entries, eocd, cur>>
  BY <1>4, <1>5, <1>7 DEF WriteEocd
<1>10. FileOf(file', T) /\ at <= Len(file')
  <2>0. 1 \in Nat \ {0} /\ at + 1 \in Nat /\ 1 <= (at + 1) + 1 /\ 1 <= at + 1
        /\ (at + 1) - 1 + 1 = at + 1 /\ at - 1 + 1 = at
    BY <1>4
  <2>1. CASE file' = SubSeq(f, 1, at + 1)
    <3>1. FileOf(SubSeq(f, 1, at + 1), T) /\ Len(SubSeq(f, 1, at + 1)) = (at + 1) - 1 + 1
      BY <1>8, <2>0, SubOf
    <3> QED BY <1>4, <2>0, <2>1, <3>1
  <2>2. CASE file' = f
    BY <1>4, <1>8, <2>2
  <2>3. CASE file' = SubSeq(file, 1, at)
    <3>1. FileOf(SubSeq(file, 1, at), T) /\ Len(SubSeq(file, 1, at)) = at - 1 + 1
      BY <1>2, <1>4, <2>0, SubOf
    <3> QED BY <1>4, <2>0, <2>3, <3>1
  <2> QED BY <1>9, <2>1, <2>2, <2>3
<1>11. ~Rewriting'
  BY <1>1, <1>9 DEF PcInv, Rewriting
<1>12. Bounds(file)'
  <2>1. Len(file') \in Nat
    BY <1>10 DEF FileOf, IsList
  <2>2. eocd.off <= Len(file')
    BY <1>3, <1>4, <1>10, <2>1
  <2> QED BY <1>3, <1>9, <1>11, <2>2 DEF Bounds
<1> QED BY <1>2, <1>9, <1>10, <1>11, <1>12 DEF BoundsOf

\* A step inside a method.
LEMMA ZipBounds ==
  ASSUME NEW T, Lenient(T), PcInv, CurInv, BoundsOf(T), pc' = pc, ZipStep
  PROVE  BoundsOf(T)'
BY AddBounds, CrunchDeletedBounds, CrunchMoveBounds, CrunchDoneBounds, CentralBounds, EocdBounds
   DEF ZipStep


-----------------------------------------------------------------------------
(* The commands on any archive.                                            *)

\* What becomes of an output of the set, and why.
LEMMA FileCases ==
  ASSUME ProcessFile
  PROVE  \E o, i :
           /\ o = Head(todo) /\ i = EntryByName(entries, o.name)
           /\ pc = "files" /\ op = "ready" /\ Packaging /\ todo # << >> /\ o.kind # "class"
           /\ \/ o.kind = "excluded" /\ Touch(entries) /\ Done("files")
              \/ FileFails
              \/ /\ o.kind = "source" /\ Found(entries, o.name) # {}
                 /\ src[o.src].mod <= entries[i].mod
                 /\ Touch(SetMarked(entries, i)) /\ Done("files")
              \/ /\ o.kind # "excluded" /\ Found(entries, o.name) # {}
                 /\ AddOutput(SetDeleted(entries, i), o)
              \/ o.kind # "excluded" /\ AddOutput(entries, o)
<1>1. PICK o, i : o = Head(todo) /\ i = EntryByName(entries, o.name)
  OBVIOUS
<1>2. pc = "files" /\ op = "ready" /\ Packaging /\ todo # << >> /\ o.kind # "class"
  BY <1>1 DEF ProcessFile
<1>3. \/ o.kind = "excluded" /\ Touch(entries) /\ Done("files")
      \/ FileFails
      \/ /\ o.kind = "source" /\ Found(entries, o.name) # {}
         /\ src[o.src].mod <= entries[i].mod
         /\ Touch(SetMarked(entries, i)) /\ Done("files")
      \/ /\ o.kind # "excluded" /\ Found(entries, o.name) # {}
         /\ AddOutput(SetDeleted(entries, i), o)
      \/ o.kind # "excluded" /\ AddOutput(entries, o)
  BY <1>1, Zenon DEF ProcessFile, FileFails
<1> QED BY <1>1, <1>2, <1>3

\* How an output is added.
LEMMA AddCases ==
  ASSUME NEW es, NEW o, AddOutput(es, o)
  PROVE  /\ UNCHANGED <<todo, result>> /\ Goes("added")
         /\ \/ \E when \in Stamps(o) :
                  AddBegin(es, o.name, Content(o.src), o.method, when)
            \/ AddRefused(es, o.name)
BY Zenon DEF AddOutput

\* The last entry is marked, if there is one.
LEMMA LastMarked ==
  ASSUME NEW es, EntryList(es)
  PROVE  Thinned(SetMarked(es, Len(es)), es)
<1>1. Len(es) \in Nat /\ es = [i \in 1..Len(es) |-> es[i]]
  BY DEF EntryList, IsList
<1>2. CASE Len(es) = 0
  <2>1. SetMarked(es, Len(es)) = es
    BY <1>1, <1>2 DEF SetMarked
  <2> QED BY <2>1, ThinnedSelf
<1>3. CASE Len(es) # 0
  BY <1>1, <1>3, MarkedThinned
<1> QED BY <1>2, <1>3

\* Marking and deleting between methods.
LEMMA TouchBounds ==
  ASSUME NEW T, BoundsOf(T), op = "ready", pc \in {"files", "added"}, pc' = "files",
         NEW es, Thinned(es, entries), Touch(es)
  PROVE  BoundsOf(T)'
<1>1. ListOf(es, T) /\ Len(es) = Len(entries) /\ \A i \in 1..Len(entries) : es[i].off = entries[i].off
  BY ThinnedOf DEF BoundsOf
<1>2. entries' = es /\ op' = "ready" /\ UNCHANGED <<file, eocd>> /\ Rewriting
  BY DEF Touch, Rewriting
<1> QED BY <1>1, <1>2, BoundsReady

\* An output is added to the entries left after a removal.
LEMMA AddOutputBounds ==
  ASSUME NEW T, T = Honests, SourceInv, TimeInv, AskedInv, BoundsOf(T), op = "ready", pc = "files",
         todo # << >>, Head(todo).kind # "excluded", NEW es, Thinned(es, entries),
         AddOutput(es, Head(todo))
  PROVE  BoundsOf(T)'
<1>1. PICK o : o = Head(todo)
  OBVIOUS
<1>2. pc' = "added" /\ \/ \E when \in Stamps(o) :
                              AddBegin(es, o.name, Content(o.src), o.method, when)
                       \/ AddRefused(es, o.name)
  BY <1>1, AddCases DEF Goes
<1>3. ASSUME NEW when \in Stamps(o) PROVE <<o.name, Content(o.src), DosTime(when)>> \in T
  BY <1>1, AddedHonest DEF Stamps
<1>4. ASSUME NEW when \in Stamps(o), AddBegin(es, o.name, Content(o.src), o.method, when)
      PROVE  BoundsOf(T)'
  BY <1>3, <1>4, AddBeginBounds
<1>5. CASE AddRefused(es, o.name)
  BY <1>2, <1>5, AddRefusedBounds
<1> QED BY <1>2, <1>4, <1>5

\* A step of the program keeps within what was honest before.
LEMMA BoundsKept ==
  ASSUME NEW T, T = Honests, SourceInv, PcInv, CurInv, TimeInv, AskedInv, BoundsOf(T), [Next]_vars
  PROVE  BoundsOf(T)'
<1> USE DEF Goes, Done
<1>a. ASSUME UNCHANGED <<zipVars, pc>> PROVE BoundsOf(T)'
  BY <1>a DEF zipVars, BoundsOf, Bounds, Rewriting, CrunchBounds, DataAt
<1>b. ASSUME UNCHANGED <<file, entries, eocd, needRewrite, op>>, op = "ready",
             pc \notin {"files", "added", "specAdded", "removed"} =>
               pc' \notin {"files", "added", "specAdded", "removed"}
      PROVE  BoundsOf(T)'
  BY <1>b, BoundsSame DEF Rewriting
<1>c. EntryList(entries) /\ IsList(entries) /\ Lenient(T)
  BY ListEntries, HonestsLenient DEF BoundsOf
<1>1. ASSUME NEW s \in Names, NEW t \in 1..MaxClock, Edit(s, t) PROVE BoundsOf(T)'
  BY <1>1, <1>a DEF Edit
<1>2. ASSUME NEW cmd, NEW outs, Begin(cmd, outs) PROVE BoundsOf(T)'
  <2>1. \/ pc = "idle" /\ pc' = "idle" /\ UNCHANGED zipVars
        \/ \E f \in {file, NoFile} : Open(f)
    BY <1>2, Zenon DEF Begin
  <2>2. ASSUME NEW f \in {file, NoFile}, Open(f) PROVE BoundsOf(T)'
    <3>1. T \subseteq Triples /\ (f = NoFile \/ FileOf(f, T))
      BY DEF BoundsOf
    <3> QED BY <2>2, <3>1, OpenBounds
  <2> QED BY <1>a, <2>1, <2>2
<1>3. CASE Kill
  BY <1>3, CloseBounds DEF Kill, ZipKilled
<1>4. CASE ProcessFile
  <2>1. PICK o, i :
           /\ o = Head(todo) /\ i = EntryByName(entries, o.name)
           /\ pc = "files" /\ op = "ready" /\ Packaging /\ todo # << >> /\ o.kind # "class"
           /\ \/ o.kind = "excluded" /\ Touch(entries) /\ Done("files")
              \/ FileFails
              \/ /\ o.kind = "source" /\ Found(entries, o.name) # {}
                 /\ src[o.src].mod <= entries[i].mod
                 /\ Touch(SetMarked(entries, i)) /\ Done("files")
              \/ /\ o.kind # "excluded" /\ Found(entries, o.name) # {}
                 /\ AddOutput(SetDeleted(entries, i), o)
              \/ o.kind # "excluded" /\ AddOutput(entries, o)
    BY <1>4, FileCases
  <2>2. Found(entries, o.name) # {} => i \in 1..Len(entries)
    BY <1>c, <2>1, NamedEntry
  <2>3. CASE Touch(entries) /\ Done("files")
    BY <1>c, <2>1, <2>3, ThinnedSelf, TouchBounds
  <2>4. CASE FileFails
    BY <2>1, <2>4, <1>b DEF FileFails
  <2>5. CASE Found(entries, o.name) # {} /\ Touch(SetMarked(entries, i)) /\ Done("files")
    BY <1>c, <2>1, <2>2, <2>5, MarkedThinned, TouchBounds
  <2>6. CASE /\ o.kind # "excluded" /\ Found(entries, o.name) # {}
             /\ AddOutput(SetDeleted(entries, i), o)
    BY <1>c, <2>1, <2>2, <2>6, DeletedThinned, AddOutputBounds
  <2>7. CASE o.kind # "excluded" /\ AddOutput(entries, o)
    BY <1>c, <2>1, <2>7, ThinnedSelf, AddOutputBounds
  <2> QED BY <2>1, <2>3, <2>4, <2>5, <2>6, <2>7
<1>5. CASE Added
  <2>1. /\ pc = "added" /\ op = "ready"
        /\ \/ Touch(SetMarked(entries, Len(entries))) /\ pc' = "files"
           \/ UNCHANGED zipVars /\ pc' = "close"
    BY <1>5 DEF Added
  <2>2. CASE Touch(SetMarked(entries, Len(entries))) /\ pc' = "files"
    BY <1>c, <2>1, <2>2, LastMarked, TouchBounds
  <2>3. CASE UNCHANGED zipVars /\ pc' = "close"
    BY <2>1, <2>3, <1>b DEF zipVars
  <2> QED BY <2>1, <2>2, <2>3
<1>6. CASE ProcessClass
  <2>1. PICK o : o = Head(todo)
    OBVIOUS
  <2>2. /\ pc = "files" /\ op = "ready" /\ todo # << >> /\ o.kind = "class"
        /\ \/ /\ \E when \in Stamps(o) :
                    AddBegin(entries, o.name, Content(o.src), o.method, when)
              /\ pc' = "files"
           \/ AddRefused(entries, o.name) /\ pc' = "files"
           \/ pc' = "close" /\ UNCHANGED <<file, entries, eocd, needRewrite, op>>
    BY <1>6, <2>1, Zenon DEF ProcessClass
  <2>3. ASSUME NEW when \in Stamps(o),
               AddBegin(entries, o.name, Content(o.src), o.method, when)
        PROVE  BoundsOf(T)'
    <3>1. <<o.name, Content(o.src), DosTime(when)>> \in T
      BY <2>1, <2>2, AddedHonest DEF Stamps
    <3> QED BY <1>c, <2>2, <2>3, <3>1, ThinnedSelf, AddBeginBounds
  <2>4. CASE AddRefused(entries, o.name) /\ pc' = "files"
    BY <1>c, <2>2, <2>4, ThinnedSelf, AddRefusedBounds
  <2>5. CASE pc' = "close" /\ UNCHANGED <<file, entries, eocd, needRewrite, op>>
    BY <2>2, <2>5, <1>b
  <2> QED BY <2>2, <2>3, <2>4, <2>5
<1>7. CASE CruftAndFlush
  BY <1>7, <1>b, FlushBounds DEF CruftAndFlush
<1>8. CASE Flushed
  BY <1>8, <1>b, CloseBounds DEF Flushed, zipVars
<1>9. CASE AddSpec
  <2>1. PICK o : o = Head(todo)
    OBVIOUS
  <2>2. /\ pc = "files" /\ op = "ready" /\ todo # << >> /\ command = "add" /\ pc' = "specAdded"
        /\ \/ AddBegin(entries, o.name, Content(o.src), o.method, src[o.src].mod)
           \/ AddRefused(entries, o.name)
    BY <1>9, <2>1 DEF AddSpec
  <2>3. o.kind = "source"
    <3>1. ~Packaging
      BY <2>2 DEF Packaging
    <3>2. 1 \in 1..Len(todo) /\ o = todo[1]
      BY <2>1, <2>2 DEF SourceInv
    <3> QED BY <3>1, <3>2 DEF AskedInv
  <2>4. <<o.name, Content(o.src), DosTime(src[o.src].mod)>> \in T
    BY <2>1, <2>2, <2>3, AddedHonest
  <2> QED BY <1>c, <2>2, <2>4, ThinnedSelf, AddBeginBounds, AddRefusedBounds
<1>10. CASE SpecAdded \/ SpecsDone
  BY <1>10, <1>b DEF SpecAdded, SpecsDone, zipVars
<1>11. CASE RemoveSpecs
  <2>1. PICK S : entries' = [i \in DOMAIN entries |->
                               IF i \in S THEN [entries[i] EXCEPT !.deleted = TRUE]
                               ELSE entries[i]]
    BY <1>11, Zenon DEF RemoveSpecs
  <2>2. Thinned(entries', entries)
    BY <1>c, <2>1, SetThinned
  <2>3. /\ ListOf(entries', T) /\ Len(entries') = Len(entries)
        /\ \A i \in 1..Len(entries) : entries'[i].off = entries[i].off
    BY <2>2, ThinnedOf DEF BoundsOf
  <2>4. /\ pc = "files" /\ op = "ready" /\ op' = "ready" /\ UNCHANGED <<file, eocd>> /\ pc' = "removed"
    BY <1>11 DEF RemoveSpecs
  <2>5. Rewriting
    BY <2>4 DEF Rewriting
  <2> QED BY <2>3, <2>4, <2>5, BoundsReady
<1>12. CASE RemoveFlush
  BY <1>12, <1>b, FlushBounds DEF RemoveFlush, zipVars
<1>13. CASE DestructorFlush
  BY <1>13, FlushBounds DEF DestructorFlush
<1>14. CASE Bail
  BY <1>14, CloseBounds DEF Bail
<1>15. CASE ZipSteps
  BY <1>15, <1>c, ZipBounds DEF ZipSteps
<1>16. CASE UNCHANGED vars
  BY <1>16, <1>a DEF vars
<1> QED BY <1>1, <1>2, <1>3, <1>4, <1>5, <1>6, <1>7, <1>8, <1>9, <1>10, <1>11, <1>12, <1>13,
           <1>14, <1>15, <1>16 DEF Next

\* Behind every step the archive is made of honest entries, in their bounds.
LEMMA BoundsStep ==
  SourceInv /\ PcInv /\ CurInv /\ TimeInv /\ AskedInv /\ BoundsInv /\ [Next]_vars => BoundsInv'
<1> SUFFICES ASSUME SourceInv, PcInv, CurInv, TimeInv, AskedInv, BoundsInv, [Next]_vars
             PROVE  BoundsInv'
  OBVIOUS
<1>1. PICK T : T = Honests
  OBVIOUS
<1>2. BoundsOf(T)
  BY <1>1 DEF BoundsInv
<1>3. BoundsOf(T)'
  BY <1>1, <1>2, BoundsKept
<1>4. PICK U : U = Honests'
  OBVIOUS
<1>5. T \subseteq U /\ U \subseteq Triples
  BY <1>1, <1>4, HonestStays DEF Honests, Triples
<1>6. BoundsOf(U)'
  <2>1. FileOf(file', T) => FileOf(file', U)
    BY <1>5, FileMore
  <2>2. ListOf(entries', T) => ListOf(entries', U)
    BY <1>5 DEF ListOf, EntryOf
  <2> QED BY <1>3, <1>5, <2>1, <2>2 DEF BoundsOf
<1> QED BY <1>4, <1>6 DEF BoundsInv, BoundsOf


\* What methods and commands return.
LEMMA StatusStep ==
  StatusInv /\ [Next]_vars => StatusInv'
<1> SUFFICES ASSUME StatusInv, [Next]_vars PROVE StatusInv'
  OBVIOUS
<1> USE DEF StatusInv, Goes, Done
<1>1. ASSUME NEW s \in Names, NEW t \in 1..MaxClock, Edit(s, t) PROVE StatusInv'
  BY <1>1 DEF Edit, zipVars
<1>2. ASSUME NEW cmd, NEW outs, Begin(cmd, outs) PROVE StatusInv'
  <2>1. UNCHANGED zipVars \/ \E f : Open(f)
    BY <1>2, Zenon DEF Begin
  <2>2. status' \in {"ok", "error", "exists"}
    BY <2>1 DEF zipVars, Open
  <2>3. result' \in {"ok", "error"}
    BY <1>2, Zenon DEF Begin
  <2> QED BY <2>2, <2>3
<1>3. CASE Kill
  BY <1>3 DEF Kill, ZipKilled
<1>4. CASE ProcessFile
  <2>1. /\ result' \in {result, "error"}
        /\ status' \in {status, "error", "exists"}
    <3>1. ASSUME NEW es, NEW o, AddOutput(es, o) PROVE result' = result /\ status' \in {status, "error", "exists"}
      BY <3>1, AddOutputCases DEF AddBegin, AddRefused
    <3> QED BY <1>4, <3>1, ProcessFileCases DEF Touch, FileFails
  <2> QED BY <2>1
<1>5. CASE Added
  <2>1. result' \in {result, "error"} /\ status' = status
    BY <1>5 DEF Added, Touch, zipVars
  <2> QED BY <2>1
<1>6. CASE ProcessClass
  <2>1. result' \in {result, "error"} /\ status' \in {status, "error", "exists"}
    BY <1>6, Zenon DEF ProcessClass, AddBegin, AddRefused
  <2> QED BY <2>1
<1>7. CASE CruftAndFlush
  BY <1>7 DEF CruftAndFlush, FlushBegin
<1>8. CASE Flushed
  BY <1>8 DEF Flushed, zipVars
<1>9. CASE AddSpec
  <2>1. result' = result /\ status' \in {status, "error", "exists"}
    BY <1>9, Zenon DEF AddSpec, AddBegin, AddRefused
  <2> QED BY <2>1
<1>10. CASE SpecAdded
  BY <1>10 DEF SpecAdded, zipVars
<1>11. CASE RemoveSpecs
  <2>1. result' \in {"ok", "error"} /\ status' = status
    BY <1>11, Zenon DEF RemoveSpecs
  <2> QED BY <2>1
<1>12. CASE RemoveFlush
  BY <1>12 DEF RemoveFlush, FlushBegin, zipVars
<1>13. CASE SpecsDone
  BY <1>13 DEF SpecsDone, zipVars
<1>14. CASE DestructorFlush
  BY <1>14 DEF DestructorFlush, FlushBegin
<1>15. CASE Bail
  BY <1>15 DEF Bail
<1>16. CASE ZipSteps
  <2>1. ZipStep /\ result' = result
    BY <1>16 DEF ZipSteps
  <2>2. status' \in {status, "ok", "error"}
    <3>1. CASE AddDeflated \/ AddStored \/ AddGzip
      BY <3>1, Zenon DEF AddDeflated, AddStored, AddGzip, Store, AddData, AddEnd, AddBlank,
                         AddEntry, AddLost, AddFails
    <3>2. CASE CrunchDeleted \/ CrunchMove \/ CrunchDone
      BY <3>2, Zenon DEF CrunchDeleted, CrunchMove, CrunchDone
    <3>3. CASE WriteCentralDir \/ WriteEocd
      BY <3>3, Zenon DEF WriteCentralDir, WriteEocd
    <3> QED BY <2>1, <3>1, <3>2, <3>3 DEF ZipStep
  <2> QED BY <2>1, <2>2
<1>17. CASE UNCHANGED vars
  BY <1>17 DEF vars, zipVars
<1> QED BY <1>1, <1>2, <1>3, <1>4, <1>5, <1>6, <1>7, <1>8, <1>9, <1>10, <1>11, <1>12, <1>13,
           <1>14, <1>15, <1>16, <1>17 DEF Next

\* How an addition leaves the list and the count.
AddOutcome ==
  \/ \E n, method, crc : AddEntry(n, method, crc)
  \/ UNCHANGED <<entries, eocd>>
  \/ UNCHANGED entries /\ status' = "error" /\ faults' = faults + 1
LEMMA AddReaches ==
  ASSUME AddDeflated \/ AddStored \/ AddGzip
  PROVE  /\ op = "adding" /\ op' = "ready" /\ needRewrite' = needRewrite /\ AddOutcome
<1>1. op = "adding" /\ needRewrite' = needRewrite
  BY Zenon DEF AddDeflated, AddStored, AddGzip
<1>2. /\ \A f, n, method, crc : AddEnd(f, n, method, crc) => AddEntry(n, method, crc)
      /\ \A f, n, method : AddBlank(f, n, method) => AddEntry(n, method, cur.v)
  BY Zenon DEF AddEnd, AddBlank
<1>3. \A f, n : AddLost(f, n) =>
        UNCHANGED entries /\ status' = "error" /\ faults' = faults + 1 /\ op' = "ready"
  BY Zenon DEF AddLost, Reported, IOError
<1>4. \A f : AddFails(f) => UNCHANGED <<entries, eocd>> /\ op' = "ready"
  BY DEF AddFails
<1>5. \A n, method, crc : AddEntry(n, method, crc) => op' = "ready"
  BY Zenon DEF AddEntry
<1>6. \A f, n, method : AddData(f, n, method) => AddOutcome /\ op' = "ready"
  BY <1>2, <1>3, <1>5, Zenon DEF AddData, AddOutcome
<1>7. \A f : Store(f) => AddOutcome /\ op' = "ready"
  BY <1>4, <1>6, Zenon DEF Store, AddOutcome
<1>8. AddOutcome /\ op' = "ready"
  BY <1>2, <1>4, <1>5, <1>6, <1>7, Zenon DEF AddDeflated, AddStored, AddGzip, AddOutcome
<1> QED BY <1>1, <1>8

\* The assertion at the head of addCommon holds of every addition, and of what it leaves.
LEMMA CountStep ==
  PcInv /\ CurInv /\ BoundsInv /\ CountInv /\ [Next]_vars => CountInv'
<1> SUFFICES ASSUME PcInv, CurInv, BoundsInv, CountInv, [Next]_vars PROVE CountInv'
  OBVIOUS
<1> USE DEF Goes, Done
<1>a. ASSUME op' # "adding", ~BeforeAdd' PROVE CountInv'
  BY <1>a DEF CountInv
<1>b. ASSUME Counted(entries') \/ Counted(entries), eocd' = eocd, Len(entries') = Len(entries)
      PROVE  CountInv'
  BY <1>b DEF CountInv, Counted
<1>c. ASSUME UNCHANGED <<entries, eocd, op, faults, outputs>>, BeforeAdd' => BeforeAdd PROVE CountInv'
  BY <1>c DEF CountInv, Counted, NoClasses
<1>d. EntryList(entries) /\ IsList(entries) /\ Len(entries) \in Nat /\ file \in {file, NoFile}
  BY ListEntries DEF BoundsInv, BoundsOf
<1>e. ASSUME NEW es, NEW name,
             AddRefused(es, name) \/ \E v, method, when : AddBegin(es, name, v, method, when)
      PROVE  CountInv'
  BY <1>e, Zenon DEF AddBegin, AddRefused, CountInv, Counted
<1>f. ASSUME NEW es, Len(es) = Len(entries), Touch(es), outputs' = outputs, BeforeAdd PROVE CountInv'
  BY <1>f DEF CountInv, Counted, Touch, NoIOError, NoClasses
<1>1. ASSUME NEW s \in Names, NEW t \in 1..MaxClock, Edit(s, t) PROVE CountInv'
  BY <1>1, <1>c DEF Edit, zipVars, BeforeAdd
<1>2. ASSUME NEW cmd, NEW outs, Begin(cmd, outs) PROVE CountInv'
  <2>1. \/ pc = "idle" /\ pc' = "idle" /\ UNCHANGED zipVars
        \/ \E f \in {file, NoFile} : Open(f)
    BY <1>2, Zenon DEF Begin
  <2>2. CASE pc = "idle" /\ pc' = "idle" /\ UNCHANGED zipVars
    BY <2>2, <1>a DEF PcInv, BeforeAdd, zipVars
  <2>3. ASSUME NEW f \in {file, NoFile}, Open(f) PROVE CountInv'
    <3>1. Readable(f) => Len(ReadCentralDir(f)) = ReadEocd(f).num
      BY <1>d, <2>3, ReadOf DEF BoundsInv, BoundsOf, Readable
    <3>2. op' = "ready" /\ Counted(entries)'
      BY <2>3, <3>1, EmptyEntries DEF Open, Counted
    <3> QED BY <3>2 DEF CountInv
  <2> QED BY <2>1, <2>2, <2>3
<1>3. CASE Kill
  BY <1>3, <1>a DEF Kill, ZipKilled, Close, BeforeAdd
<1>4. CASE ProcessFile
  <2>1. /\ pc = "files" /\ outputs' = outputs
        /\ \/ Touch(entries)
           \/ pc' = "close" /\ op' = "ready"
           \/ /\ Found(entries, Head(todo).name) # {}
              /\ Touch(SetMarked(entries, EntryByName(entries, Head(todo).name)))
           \/ AddOutput(SetDeleted(entries, EntryByName(entries, Head(todo).name)), Head(todo))
           \/ AddOutput(entries, Head(todo))
    BY <1>4, ProcessFileCases, AddOutputCases DEF FileFails
  <2>2. BeforeAdd
    BY <2>1 DEF BeforeAdd
  <2>3. ASSUME NEW es, AddOutput(es, Head(todo)) PROVE CountInv'
    BY <2>3, <1>e, AddOutputCases
  <2>4. CASE pc' = "close" /\ op' = "ready"
    BY <2>4, <1>a DEF BeforeAdd
  <2>5. CASE Touch(entries)
    BY <2>1, <2>2, <2>5, <1>f
  <2>6. CASE /\ Found(entries, Head(todo).name) # {}
             /\ Touch(SetMarked(entries, EntryByName(entries, Head(todo).name)))
    <3>1. PICK i : i = EntryByName(entries, Head(todo).name)
      OBVIOUS
    <3>2. Len(SetMarked(entries, i)) = Len(entries)
      BY <1>d, <2>6, <3>1, NamedEntry, MarkedThinned DEF Thinned
    <3> QED BY <2>1, <2>2, <2>6, <3>1, <3>2, <1>f
  <2> QED BY <2>1, <2>3, <2>4, <2>5, <2>6
<1>5. CASE Added
  <2>1. /\ pc = "added" /\ op = "ready" /\ outputs' = outputs
        /\ \/ status = "ok" /\ Touch(SetMarked(entries, Len(entries)))
           \/ UNCHANGED zipVars /\ pc' = "close"
    BY <1>5 DEF Added
  <2>2. CASE status = "ok" /\ Touch(SetMarked(entries, Len(entries)))
    <3>1. Len(SetMarked(entries, Len(entries))) = Len(entries)
      BY <1>d, LastMarked DEF Thinned
    <3>2. BeforeAdd
      BY <2>1, <2>2 DEF BeforeAdd
    <3> QED BY <2>1, <2>2, <3>1, <3>2, <1>f
  <2>3. CASE UNCHANGED zipVars /\ pc' = "close"
    BY <2>1, <2>3, <1>a DEF zipVars, BeforeAdd
  <2> QED BY <2>1, <2>2, <2>3
<1>6. CASE ProcessClass
  <2>1. \/ AddRefused(entries, Head(todo).name)
        \/ \E v, method, when : AddBegin(entries, Head(todo).name, v, method, when)
        \/ pc' = "close" /\ op = "ready" /\ op' = op
    BY <1>6, Zenon DEF ProcessClass
  <2>2. CASE pc' = "close" /\ op = "ready" /\ op' = op
    BY <2>2, <1>a DEF BeforeAdd
  <2> QED BY <2>1, <2>2, <1>e
<1>7. CASE CruftAndFlush \/ Flushed \/ RemoveSpecs \/ RemoveFlush \/ SpecsDone \/ DestructorFlush
           \/ Bail
  <2>1. pc' \in {"flushed", "idle", "close", "removed", "closing"} /\ op' # "adding"
    BY <1>7 DEF CruftAndFlush, Flushed, RemoveSpecs, RemoveFlush, SpecsDone, DestructorFlush, Bail,
                FlushBegin, Close, zipVars
  <2> QED BY <2>1, <1>a DEF BeforeAdd
<1>8. CASE AddSpec
  <2>1. \/ AddRefused(entries, Head(todo).name)
        \/ \E v, method, when : AddBegin(entries, Head(todo).name, v, method, when)
    BY <1>8, Zenon DEF AddSpec
  <2> QED BY <2>1, <1>e
<1>9. CASE SpecAdded
  <2>1. /\ pc = "specAdded" /\ op = "ready" /\ UNCHANGED <<zipVars, outputs>>
        /\ (status = "ok" \/ pc' = "close")
    BY <1>9 DEF SpecAdded
  <2>2. BeforeAdd' => BeforeAdd
    BY <2>1 DEF BeforeAdd
  <2> QED BY <2>1, <2>2, <1>c DEF zipVars
<1>10. CASE ZipSteps
  <2>1. ZipStep /\ pc' = pc /\ outputs' = outputs
    BY <1>10 DEF ZipSteps
  <2>2. CASE AddDeflated \/ AddStored \/ AddGzip
    <3>1. op = "adding" /\ op' = "ready" /\ AddOutcome
      BY <2>2, AddReaches
    <3>2. Counted(entries) /\ (pc = "files" => ~NoClasses)
      BY <3>1 DEF CountInv, CurInv
    <3>3. ASSUME NEW n, NEW method, NEW crc, AddEntry(n, method, crc) PROVE CountInv'
      <4>1. Len(entries') = Len(entries) + 1 /\ eocd'.num = eocd.num + 1
        BY <1>d, <3>3, AppendList DEF AddEntry
      <4> QED BY <3>1, <3>2, <4>1 DEF CountInv, Counted
    <3>4. CASE UNCHANGED <<entries, eocd>>
      BY <3>2, <3>4, <1>b
    <3>5. CASE UNCHANGED entries /\ status' = "error" /\ faults' = faults + 1
      <4>1. faults' # 0
        BY <3>5 DEF PcInv
      <4>2. BeforeAdd' => ~NoClasses'
        BY <2>1, <3>2, <3>5 DEF BeforeAdd, NoClasses
      <4> QED BY <3>1, <4>1, <4>2 DEF CountInv
    <3> QED BY <3>1, <3>3, <3>4, <3>5 DEF AddOutcome
  <2>3. CASE CrunchDeleted \/ CrunchMove \/ CrunchDone \/ WriteCentralDir \/ WriteEocd
    <3>1. op \in {"crunch", "central", "end"} /\ op' # "adding"
      BY <2>3, Zenon DEF CrunchDeleted, CrunchMove, CrunchDone, WriteCentralDir, WriteEocd
    <3>2. pc \notin {"files", "added", "specAdded"}
      BY <3>1 DEF PcInv
    <3> QED BY <2>1, <3>1, <3>2, <1>a DEF BeforeAdd
  <2> QED BY <2>1, <2>2, <2>3 DEF ZipStep
<1>11. CASE UNCHANGED vars
  BY <1>11, <1>c DEF vars, zipVars, BeforeAdd
<1> QED BY <1>1, <1>2, <1>3, <1>4, <1>5, <1>6, <1>7, <1>8, <1>9, <1>10, <1>11 DEF Next

\* What holds of every archive.
ArchiveInv == TimeInv /\ AskedInv /\ StatusInv /\ BoundsInv /\ CountInv

\* Initially.
LEMMA ArchiveInit ==
  Init => ArchiveInv
<1> SUFFICES ASSUME Init PROVE ArchiveInv
  OBVIOUS
<1> USE DEF Init, ZipInit
<1>1. TimeInv
  <2>1. \A s \in Names : Content(s) \in Contents
    <3>1. \A s \in Names : Content(s) = <<s, 0>> /\ 0 \in 0..MaxEdits
      BY WriterAssumption DEF Content
    <3> QED BY <3>1, WriterAssumption
  <2> QED BY <2>1 DEF TimeInv
<1>2. AskedInv
  <2>1. Len(outputs) = 0 /\ Len(todo) = 0
    OBVIOUS
  <2> QED BY <2>1 DEF AskedInv
<1>3. StatusInv
  BY DEF StatusInv
<1>4. BoundsInv
  BY EmptyEntries DEF BoundsInv, BoundsOf, ListOf, Honests
<1>5. CountInv
  BY DEF CountInv
<1> QED BY <1>1, <1>2, <1>3, <1>4, <1>5 DEF ArchiveInv

\* The types follow.
LEMMA ArchiveTyped ==
  ArchiveInv => TypeOK
<1> SUFFICES ASSUME ArchiveInv PROVE TypeOK
  OBVIOUS
<1>1. PICK T : T = Honests
  OBVIOUS
<1>2. BoundsOf(T) /\ T \subseteq Triples
  BY <1>1 DEF ArchiveInv, BoundsInv, Honests
<1>3. ListOf(entries, T) /\ DOMAIN entries = 1..Len(entries)
  BY <1>2, ListDomain DEF BoundsOf, ListOf
<1>4. \A i \in DOMAIN entries : entries[i].off \in Nat /\ entries[i].name \in STRING
  <2>1. TAKE i \in DOMAIN entries
  <2>2. EntryOf(entries[i], T)
    BY <1>3 DEF ListOf
  <2>3. entries[i].off \in Nat /\ <<entries[i].name, entries[i].crc, entries[i].mod>> \in Triples
    BY <1>2, <2>2 DEF EntryOf
  <2> QED BY <2>3 DEF Triples
<1>5. file # NoFile => \A i \in DOMAIN file : file[i][1] \in {"lfh", "data", "cde", "eocd"}
  <2>1. ASSUME file # NoFile, NEW i \in DOMAIN file PROVE CellOf(file[i], T)
    <3>1. FileOf(file, T)
      BY <1>2, <2>1 DEF BoundsOf
    <3> QED BY <2>1, <3>1, ListDomain DEF FileOf
  <2> QED BY <2>1 DEF CellOf
<1>6. op = "ready" /\ BeforeAdd /\ (faults = 0 \/ NoClasses) => Counted(entries)
  BY DEF ArchiveInv, CountInv
<1> QED BY <1>4, <1>5, <1>6 DEF TypeOK, ArchiveInv, StatusInv

\* Any archive, whatever a process that died left of it, is a file of cells and its entries are
\* where the file has bytes; the counter of mEOCD agrees with mEntries wherever addCommon looks,
\* unless processJarFile passed over an error.
THEOREM ArchiveInvariance == Spec => []ArchiveInv
<1>1. Init => ArchiveInv
  BY ArchiveInit
<1>2. WriterInv /\ ArchiveInv /\ [Next]_vars => ArchiveInv'
  BY TimeStep, AskedStep, StatusStep, BoundsStep, CountStep DEF WriterInv, ArchiveInv
<1> QED BY <1>1, <1>2, WriterInvariance, PTL DEF Spec

\* The types of every archive, and the assertion at the head of addCommon (ZipFile.cpp:377): the
\* list is as long as the counter says at every add of every command, whatever failed before it,
\* unless an I/O error came before a class of a jar.
THEOREM ArchiveTypes == Spec => []TypeOK
BY ArchiveInvariance, ArchiveTyped, PTL


-----------------------------------------------------------------------------
(* Names and checksums.                                                    *)

\* Each live entry of ds is like one of es.
LEMMA PairsWithin ==
  ASSUME NEW es, NEW ds,
         \A j \in Live(ds) : \E k \in Live(es) : ds[j].name = es[k].name /\ ds[j].crc = es[k].crc
  PROVE  Pairs(ds) \subseteq Pairs(es)
BY DEF Pairs

\* What entries are there for.
SameEntries(ds, es) ==
  /\ Len(ds) = Len(es)
  /\ \A i \in 1..Len(es) :
       ds[i].name = es[i].name /\ ds[i].crc = es[i].crc /\ ds[i].deleted = es[i].deleted

\* The same entries in other places, or with other marks.
LEMMA PairsSame ==
  ASSUME NEW es, NEW ds, SameEntries(ds, es)
  PROVE  Pairs(ds) = Pairs(es)
<1>1. Pairs(ds) \subseteq Pairs(es)
  BY DEF SameEntries, Pairs, Live
<1>2. Pairs(es) \subseteq Pairs(ds)
  BY DEF SameEntries, Pairs, Live
<1> QED BY <1>1, <1>2

\* Another entry at a place, of the same name and content.
LEMMA PairsReplaced ==
  ASSUME NEW es, IsList(es), NEW i \in 1..Len(es), NEW x,
         x.name = es[i].name, x.crc = es[i].crc, x.deleted = es[i].deleted
  PROVE  Pairs([es EXCEPT ![i] = x]) = Pairs(es)
<1>1. PICK ds : ds = [es EXCEPT ![i] = x]
  OBVIOUS
<1>2. IsReplaced(ds, es, i, x)
  BY <1>1, ReplaceList
<1>3. SameEntries(ds, es)
  BY <1>2 DEF IsReplaced, SameEntries
<1> QED BY <1>1, <1>3, PairsSame

\* Marking changes nothing of that.
LEMMA MarkedSame ==
  ASSUME NEW es, EntryList(es), NEW i \in 1..Len(es)
  PROVE  SameEntries(SetMarked(es, i), es)
<1>1. PICK x : x = [es[i] EXCEPT !.marked = TRUE]
  OBVIOUS
<1>2. x.name = es[i].name /\ x.crc = es[i].crc /\ x.deleted = es[i].deleted
  <2>1. Plain(es[i])
    BY DEF EntryList
  <2> QED BY <1>1, <2>1 DEF Plain
<1>3. PICK ds : ds = [es EXCEPT ![i] = x]
  OBVIOUS
<1>4. SetMarked(es, i) = ds
  BY <1>1, <1>3 DEF SetMarked
<1>5. IsReplaced(ds, es, i, x)
  BY <1>3, ReplaceList DEF EntryList
<1>6. SameEntries(ds, es)
  BY <1>2, <1>5 DEF IsReplaced, SameEntries
<1> QED BY <1>4, <1>6

\* Nor does marking the last one, if there is one.
LEMMA LastMarkedSame ==
  ASSUME NEW es, EntryList(es)
  PROVE  SameEntries(SetMarked(es, Len(es)), es)
<1>1. Len(es) \in Nat /\ es = [i \in 1..Len(es) |-> es[i]]
  BY DEF EntryList, IsList
<1>2. CASE Len(es) = 0
  <2>1. SetMarked(es, Len(es)) = es
    BY <1>1, <1>2 DEF SetMarked
  <2> QED BY <2>1 DEF SameEntries
<1>3. CASE Len(es) # 0
  BY <1>1, <1>3, MarkedSame
<1> QED BY <1>2, <1>3

\* Deleting.
LEMMA PairsDeleted ==
  ASSUME NEW es, EntryList(es), NEW i \in 1..Len(es)
  PROVE  /\ Pairs(SetDeleted(es, i)) \subseteq Pairs(es)
         /\ NamesOf(Pairs(es)) \subseteq NamesOf(Pairs(SetDeleted(es, i))) \cup {es[i].name}
<1>1. PICK x : x = [es[i] EXCEPT !.deleted = TRUE]
  OBVIOUS
<1>2. PICK ds : ds = [es EXCEPT ![i] = x]
  OBVIOUS
<1>3. SetDeleted(es, i) = ds
  BY <1>1, <1>2 DEF SetDeleted
<1>4. x.deleted
  <2>1. Plain(es[i])
    BY DEF EntryList
  <2> QED BY <1>1, <2>1 DEF Plain
<1>5. Len(ds) = Len(es) /\ ds[i] = x /\ \A j \in 1..Len(es) : j # i => ds[j] = es[j]
  <2>1. IsReplaced([es EXCEPT ![i] = x], es, i, x)
    BY ReplaceList DEF EntryList
  <2> QED BY <1>2, <2>1 DEF IsReplaced
<1>6. Live(ds) = Live(es) \ {i} /\ \A j \in Live(ds) : ds[j] = es[j]
  BY <1>4, <1>5 DEF Live
<1>7. Pairs(ds) \subseteq Pairs(es)
  BY <1>6 DEF Pairs
<1>8. ASSUME NEW k \in Live(es), k # i PROVE es[k].name \in NamesOf(Pairs(ds))
  <2>1. k \in Live(ds) /\ ds[k] = es[k]
    BY <1>6, <1>8
  <2>2. <<es[k].name, es[k].crc>> \in Pairs(ds)
    BY <2>1 DEF Pairs
  <2> QED BY <2>2 DEF NamesOf
<1>9. NamesOf(Pairs(es)) \subseteq NamesOf(Pairs(ds)) \cup {es[i].name}
  <2>1. SUFFICES ASSUME NEW n \in NamesOf(Pairs(es))
                 PROVE  n \in NamesOf(Pairs(ds)) \cup {es[i].name}
    OBVIOUS
  <2>2. PICK k \in Live(es) : n = es[k].name
    BY DEF NamesOf, Pairs
  <2> QED BY <1>8, <2>2
<1> QED BY <1>3, <1>7, <1>9

\* Adding.
LEMMA PairsAppend ==
  ASSUME NEW es, IsList(es), NEW e, ~e.deleted
  PROVE  Pairs(Append(es, e)) = Pairs(es) \cup {<<e.name, e.crc>>}
<1>1. PICK ds : ds = Append(es, e)
  OBVIOUS
<1>2. /\ Len(ds) = Len(es) + 1 /\ ds[Len(es) + 1] = e /\ \A i \in 1..Len(es) : ds[i] = es[i]
      /\ Len(es) \in Nat
  BY <1>1, AppendList DEF IsList
<1>3. Live(ds) = Live(es) \cup {Len(es) + 1}
  BY <1>2 DEF Live
<1>4. \A i \in Live(es) : ds[i] = es[i]
  BY <1>2 DEF Live
<1>5. Pairs(ds) = Pairs(es) \cup {<<e.name, e.crc>>}
  BY <1>2, <1>3, <1>4 DEF Pairs
<1> QED BY <1>1, <1>5

\* Taking an entry out that is deleted.
LEMMA PairsRemoved ==
  ASSUME NEW es, IsList(es), NEW k \in 1..Len(es), es[k].deleted
  PROVE  Pairs(RemoveAt(es, k)) = Pairs(es)
<1>1. PICK ds : ds = RemoveAt(es, k)
  OBVIOUS
<1>2. /\ Len(ds) = Len(es) - 1
      /\ \A i \in 1..(k - 1) : ds[i] = es[i]
      /\ \A i \in k..(Len(es) - 1) : ds[i] = es[i + 1]
      /\ Len(es) \in Nat
  BY <1>1, RemoveAtList DEF IsList
<1>3. ASSUME NEW j \in Live(ds) PROVE \E i \in Live(es) : ds[j] = es[i]
  <2>1. j \in 1..Len(ds) /\ ~ds[j].deleted
    BY DEF Live
  <2>2. CASE j < k
    <3>1. ds[j] = es[j] /\ j \in 1..Len(es)
      BY <1>2, <2>1, <2>2
    <3> QED BY <2>1, <3>1 DEF Live
  <2>3. CASE ~(j < k)
    <3>1. ds[j] = es[j + 1] /\ j + 1 \in 1..Len(es)
      BY <1>2, <2>1, <2>3
    <3> QED BY <2>1, <3>1 DEF Live
  <2> QED BY <2>2, <2>3
<1>4. ASSUME NEW i \in Live(es) PROVE \E j \in Live(ds) : es[i] = ds[j]
  <2>1. i \in 1..Len(es) /\ ~es[i].deleted /\ i # k
    BY DEF Live
  <2>2. CASE i < k
    <3>1. ds[i] = es[i] /\ i \in 1..Len(ds)
      BY <1>2, <2>1, <2>2
    <3> QED BY <2>1, <3>1 DEF Live
  <2>3. CASE ~(i < k)
    <3>1. i - 1 \in k..(Len(es) - 1) /\ (i - 1) + 1 = i /\ i - 1 \in 1..Len(ds)
      BY <1>2, <2>1, <2>3
    <3>2. ds[i - 1] = es[i]
      BY <1>2, <3>1
    <3> QED BY <2>1, <3>1, <3>2 DEF Live
  <2> QED BY <2>2, <2>3
<1>5. Pairs(ds) \subseteq Pairs(es)
  BY <1>3, PairsWithin
<1>6. Pairs(es) \subseteq Pairs(ds)
  BY <1>4, PairsWithin
<1> QED BY <1>1, <1>5, <1>6

\* A name is found when a live entry has it.
LEMMA FoundNames ==
  ASSUME NEW es, IsList(es), NEW name
  PROVE  Found(es, name) # {} <=> name \in NamesOf(Pairs(es))
<1>1. DOMAIN es = 1..Len(es)
  BY ListDomain
<1>2. \A i \in Live(es) : <<es[i].name, es[i].crc>> \in Pairs(es)
  BY DEF Pairs
<1>3. ASSUME NEW i \in Found(es, name) PROVE name \in NamesOf(Pairs(es))
  <2>1. i \in Live(es) /\ es[i].name = name
    BY <1>1 DEF Found, Live
  <2>2. <<name, es[i].crc>> \in Pairs(es)
    BY <1>2, <2>1
  <2> QED BY <2>2 DEF NamesOf
<1>4. name \in NamesOf(Pairs(es)) => Found(es, name) # {}
  BY <1>1 DEF Found, Live, NamesOf, Pairs
<1> QED BY <1>3, <1>4

\* The end of an addition, for what is in the archive.
LEMMA AddPairs ==
  ASSUME IsList(entries), AddDeflated \/ AddStored \/ AddGzip
  PROVE  /\ op = "adding" /\ op' = "ready" /\ needRewrite' = needRewrite
         /\ \/ Pairs(entries') = Pairs(entries) \cup {<<cur.name, cur.v>>}
            \/ unreported'
            \/ Pairs(entries') = Pairs(entries) /\ faults' = faults + 1 /\ status' = "error"
<1>1. op = "adding" /\ op' = "ready" /\ needRewrite' = needRewrite
  BY AddReaches
<1>2. \/ \E n, method : AddEntry(n, method, cur.v)
      \/ unreported'
      \/ Pairs(entries') = Pairs(entries) /\ faults' = faults + 1 /\ status' = "error"
  BY Zenon DEF AddDeflated, AddStored, AddGzip, Store, AddData, AddEnd, AddBlank, AddLost, AddFails,
               Unreported, Reported, IOError
<1>3. ASSUME NEW n, NEW method, AddEntry(n, method, cur.v)
      PROVE  Pairs(entries') = Pairs(entries) \cup {<<cur.name, cur.v>>}
  <2>1. PICK e : e = NewEntry(n, method, cur.v)
    OBVIOUS
  <2>2. entries' = Append(entries, e)
    BY <1>3, <2>1, Zenon DEF AddEntry
  <2>3. ~e.deleted /\ e.name = cur.name /\ e.crc = cur.v
    BY <2>1 DEF NewEntry
  <2> QED BY <2>2, <2>3, PairsAppend
<1> QED BY <1>1, <1>2, <1>3

\* A flush changes nothing of that.
LEMMA FlushPairs ==
  ASSUME EntryList(entries), CurInv,
         CrunchDeleted \/ CrunchMove \/ CrunchDone \/ WriteCentralDir \/ WriteEocd
  PROVE  /\ Pairs(entries') = Pairs(entries)
         /\ op \in {"crunch", "central", "end"} /\ op' \notin {"closed", "adding"}
<1>1. CASE CrunchDeleted
  <2>1. /\ op = "crunch" /\ op' = "crunch" /\ cur.i <= Len(entries) /\ entries[cur.i].deleted
        /\ entries' = RemoveAt(entries, cur.i)
    BY <1>1 DEF CrunchDeleted
  <2>2. IsList(entries) /\ cur.i \in 1..Len(entries)
    BY <2>1 DEF CurInv, EntryList, IsList
  <2> QED BY <2>1, <2>2, PairsRemoved
<1>2. CASE CrunchMove
  <2>1. /\ op = "crunch" /\ op' \in {"crunch", "ready"} /\ cur.i <= Len(entries)
        /\ entries' = entries \/ entries' = [entries EXCEPT ![cur.i].off = @ - cur.adjust]
    BY <1>2, Zenon DEF CrunchMove
  <2>2. IsList(entries) /\ cur.i \in 1..Len(entries)
    BY <2>1 DEF CurInv, EntryList, IsList
  <2>3. CASE entries' = [entries EXCEPT ![cur.i].off = @ - cur.adjust]
    <3>1. PICK x : x = [entries[cur.i] EXCEPT !.off = @ - cur.adjust]
      OBVIOUS
    <3>2. Plain(entries[cur.i])
      BY <2>2 DEF EntryList
    <3>3. /\ x.name = entries[cur.i].name /\ x.crc = entries[cur.i].crc
          /\ x.deleted = entries[cur.i].deleted
      BY <3>1, <3>2 DEF Plain
    <3>4. entries' = [entries EXCEPT ![cur.i] = x]
      BY <2>3, <3>1
    <3> QED BY <2>1, <2>2, <3>3, <3>4, PairsReplaced
  <2> QED BY <2>1, <2>3
<1>3. CASE CrunchDone
  BY <1>3 DEF CrunchDone
<1>4. CASE WriteCentralDir \/ WriteEocd
  <2>1. entries' = entries /\ op \in {"central", "end"} /\ op' \in {"ready", "end"}
    BY <1>4, Zenon DEF WriteCentralDir, WriteEocd
  <2> QED BY <2>1
<1> QED BY <1>1, <1>2, <1>3, <1>4


-----------------------------------------------------------------------------
(* What a package run does to what is there.                               *)

\* A run keeps to what it was asked, and the sources stay as they are.
SameRun == UNCHANGED <<before, command, outputs, src, madeAt>>
RunView == AsAsked /\ Arriving /\ FreshInv

\* The output at hand is one of those that were asked for.
LEMMA HeadAsked ==
  ASSUME SourceInv, AskedInv, todo # << >>
  PROVE  /\ \E k \in 1..Len(outputs) : Head(todo) = outputs[k]
         /\ Head(todo) \in AllOutputs /\ Head(todo) \in Output
         /\ Head(todo).kind # "excluded" => Head(todo).name \in Wanted /\ Head(todo).name \in Pending
<1>1. Len(todo) \in Nat \ {0} /\ Head(todo) = todo[1] /\ 1 \in 1..Len(todo)
  BY DEF SourceInv
<1>2. PICK k \in 1..Len(outputs) : Head(todo) = outputs[k]
  BY <1>1 DEF AskedInv
<1>3. Head(todo) \in AllOutputs /\ Head(todo) \in Output
  BY <1>2, OutputsTyped DEF AskedInv
<1>4. DOMAIN outputs = 1..Len(outputs)
  BY DEF SourceInv
<1>5. ASSUME Head(todo).kind # "excluded" PROVE Head(todo).name \in Wanted /\ Head(todo).name \in Pending
  BY <1>1, <1>2, <1>4, <1>5 DEF Wanted, Pending
<1> QED BY <1>2, <1>3, <1>5

\* The output at hand is done with.
LEMMA TailAsked ==
  ASSUME SourceInv, todo # << >>, todo' = Tail(todo)
  PROVE  /\ Pending = Pending' \cup {x \in {Head(todo).name} : Head(todo).kind # "excluded"}
         /\ \A i \in 1..Len(todo) :
              todo[i] = Head(todo) \/ \E j \in 1..Len(todo') : todo'[j] = todo[i]
<1>1. PICK m \in Nat : m + 1 = Len(todo)
  <2>1. Len(todo) - 1 \in Nat /\ (Len(todo) - 1) + 1 = Len(todo)
    BY DEF SourceInv
  <2> QED BY <2>1
<1>2. /\ Head(todo) = todo[1] /\ Len(todo') = m
      /\ \A j \in 1..m : todo'[j] = todo[j + 1]
  BY <1>1 DEF SourceInv
<1>3. \A i \in 1..m + 1 : i = 1 \/ (i - 1 \in 1..m /\ todo'[i - 1] = todo[i])
  BY <1>2
<1>4. \A i \in 1..Len(todo) :
              todo[i] = Head(todo) \/ \E j \in 1..Len(todo') : todo'[j] = todo[i]
  BY <1>1, <1>2, <1>3
<1>5. ASSUME NEW i \in 1..Len(todo), todo[i].kind # "excluded"
      PROVE  todo[i].name \in Pending' \cup {x \in {Head(todo).name} : Head(todo).kind # "excluded"}
  BY <1>4, <1>5 DEF Pending
<1>6. ASSUME NEW j \in 1..Len(todo'), todo'[j].kind # "excluded" PROVE todo'[j].name \in Pending
  <2>1. j + 1 \in 1..Len(todo) /\ todo[j + 1] = todo'[j]
    BY <1>1, <1>2
  <2> QED BY <1>6, <2>1 DEF Pending
<1>7. Head(todo).kind # "excluded" => Head(todo).name \in Pending
  <2>1. 1 \in 1..Len(todo)
    BY <1>1
  <2> QED BY <1>2, <2>1 DEF Pending
<1> QED BY <1>4, <1>5, <1>6, <1>7 DEF Pending

\* Nothing of what is asked is lost, and what is added was asked for.
LEMMA AsAskedKeeps ==
  ASSUME AsAsked, SameRun,
         NamesOf(Pairs(entries')) \cup Coming' \cup Pending'
           = NamesOf(Pairs(entries)) \cup Coming \cup Pending,
         \A p \in Pairs(entries') : p \in Pairs(entries) \/ p[1] \in Wanted
  PROVE  AsAsked'
<1>1. Wanted' = Wanted /\ before' = before
  BY DEF SameRun, Wanted
<1>2. (NamesIn(before.list) \cup Wanted)' = NamesIn(before.list) \cup Wanted
  BY <1>1
<1>3. ASSUME NEW p \in Pairs(entries'), p[1] \notin Wanted
      PROVE  \E j \in 1..Len(before.list) : before.list[j].name = p[1] /\ before.list[j].crc = p[2]
  BY <1>3 DEF AsAsked
<1> QED BY <1>1, <1>2, <1>3 DEF AsAsked

\* A name that is fresh stays so if nothing is added.
LEMMA FreshStays ==
  ASSUME SameRun, Pairs(entries') \subseteq Pairs(entries), NEW o, Fresh1(o),
         op' # "adding" \/ UNCHANGED <<op, cur>>
  PROVE  Fresh1(o)'
BY DEF SameRun, Fresh1, FreshCrc, Content

\* All outputs are fresh or to come.
LEMMA FreshKeeps ==
  ASSUME SameRun, FreshInv,
         \A o : Fresh1(o) => Fresh1(o)',
         \A i \in 1..Len(todo) : \A o :
            o = todo[i] => Fresh1(o)' \/ \E j \in 1..Len(todo') : todo'[j] = o,
         pc' = "added" /\ (op' = "adding" \/ status' = "ok") => Fresh1(Head(todo))'
  PROVE  FreshInv'
<1>1. outputs' = outputs
  BY DEF SameRun
<1>2. ASSUME NEW k \in 1..Len(outputs)
      PROVE  Fresh1(outputs[k])' \/ \E i \in 1..Len(todo') : todo'[i] = outputs[k]
  <2>1. PICK o : o = outputs[k]
    OBVIOUS
  <2>2. Fresh1(o)' => Fresh1(outputs[k])'
    <3>1. o = outputs'[k]
      BY <1>1, <2>1
    <3> QED BY <3>1 DEF Fresh1
  <2>3. CASE Fresh1(outputs[k])
    <3>1. Fresh1(o)
      BY <2>1, <2>3
    <3> QED BY <2>2, <3>1
  <2>4. ASSUME NEW i \in 1..Len(todo), todo[i] = outputs[k]
        PROVE  Fresh1(outputs[k])' \/ \E j \in 1..Len(todo') : todo'[j] = outputs[k]
    <3>1. o = todo[i]
      BY <2>1, <2>4
    <3>2. Fresh1(o)' \/ \E j \in 1..Len(todo') : todo'[j] = o
      BY <3>1
    <3> QED BY <2>1, <2>2, <3>2
  <2> QED BY <2>3, <2>4 DEF FreshInv
<1> QED BY <1>1, <1>2 DEF FreshInv

\* A step that neither adds nor ends an output.
LEMMA QuietKeeps ==
  ASSUME RunView, SameRun, Pairs(entries') = Pairs(entries), todo' = todo,
         op # "adding", op' # "adding", pc' # "added",
         pc' \in {"flushed", "close"} => todo = << >>
  PROVE  RunView'
<1>1. Coming = {} /\ Coming' = {} /\ Pending' = Pending
  BY DEF Coming, Pending
<1>2. AsAsked'
  <2>1. AsAsked
    BY DEF RunView
  <2>2. \A p \in Pairs(entries') : p \in Pairs(entries) \/ p[1] \in Wanted
    OBVIOUS
  <2>3. NamesOf(Pairs(entries')) \cup Coming' \cup Pending'
          = NamesOf(Pairs(entries)) \cup Coming \cup Pending
    BY <1>1
  <2> QED BY <2>1, <2>2, <2>3, AsAskedKeeps
<1>3. Arriving'
  BY DEF Arriving
<1>4. FreshInv'
  <2>1. \A o : Fresh1(o) => Fresh1(o)'
    BY FreshStays
  <2>2. \A i \in 1..Len(todo) : \A o :
            o = todo[i] => Fresh1(o)' \/ \E j \in 1..Len(todo') : todo'[j] = o
    OBVIOUS
  <2> QED BY <2>1, <2>2, FreshKeeps DEF RunView
<1> QED BY <1>2, <1>3, <1>4 DEF RunView

\* The output at hand needs no more.
LEMMA TakenKeeps ==
  ASSUME SourceInv, RunView, SameRun, Pairs(entries') = Pairs(entries), todo # << >>,
         todo' = Tail(todo), op = "ready", op' = "ready", pc' = "files",
         NEW o, o = Head(todo), Fresh1(o), o.kind # "excluded" => o.name \in NamesOf(Pairs(entries))
  PROVE  RunView'
<1>1. /\ Pending = Pending' \cup {x \in {o.name} : o.kind # "excluded"}
      /\ \A i \in 1..Len(todo) : todo[i] = o \/ \E j \in 1..Len(todo') : todo'[j] = todo[i]
  BY TailAsked
<1>2. Coming = {} /\ Coming' = {}
  BY DEF Coming
<1>3. AsAsked'
  <2>1. AsAsked
    BY DEF RunView
  <2>2. \A p \in Pairs(entries') : p \in Pairs(entries) \/ p[1] \in Wanted
    OBVIOUS
  <2>3. NamesOf(Pairs(entries')) \cup Coming' \cup Pending'
          = NamesOf(Pairs(entries)) \cup Coming \cup Pending
    BY <1>1, <1>2
  <2> QED BY <2>1, <2>2, <2>3, AsAskedKeeps
<1>4. Arriving'
  BY DEF Arriving
<1>5. FreshInv'
  <2>1. \A p : Fresh1(p) => Fresh1(p)'
    BY FreshStays
  <2>2. ASSUME NEW i \in 1..Len(todo), NEW p, p = todo[i]
        PROVE  Fresh1(p)' \/ \E j \in 1..Len(todo') : todo'[j] = p
    BY <1>1, <2>1, <2>2
  <2> QED BY <2>1, <2>2, FreshKeeps DEF RunView
<1> QED BY <1>3, <1>4, <1>5 DEF RunView

\* An addition begins, behind the removal of the entry that it replaces.
LEMMA AddedKeeps ==
  ASSUME SourceInv, AskedInv, RunView, SameRun, todo # << >>, todo' = todo,
         op = "ready", pc' = "added",
         NEW o, o = Head(todo), o.kind \notin {"excluded", "class"},
         NEW es, Pairs(es) \subseteq Pairs(entries), IsList(es),
         NamesOf(Pairs(entries)) \subseteq NamesOf(Pairs(es)) \cup {o.name},
         NEW when,
         AddBegin(es, o.name, Content(o.src), o.method, when) \/ AddRefused(es, o.name)
  PROVE  RunView'
<1>1. /\ entries' = es
      /\ \/ /\ op' = "adding" /\ Found(es, o.name) = {}
            /\ cur'.name = o.name /\ cur'.v = Content(o.src)
         \/ op' = "ready" /\ status' # "ok"
  BY DEF AddBegin, AddRefused
<1>2. o \in AllOutputs /\ o.name \in Wanted /\ o.name \in Pending
  BY HeadAsked
<1>3. Pending' = Pending /\ Wanted' = Wanted
  BY DEF Pending, SameRun, Wanted
<1>4. Coming = {} /\ (Coming' = {} \/ Coming' = {o.name})
  BY <1>1 DEF Coming
<1>5. NamesOf(Pairs(es)) \subseteq NamesOf(Pairs(entries))
  BY DEF NamesOf
<1>6. AsAsked'
  <2>1. AsAsked
    BY DEF RunView
  <2>2. \A p \in Pairs(entries') : p \in Pairs(entries) \/ p[1] \in Wanted
    BY <1>1
  <2>3. NamesOf(Pairs(es)) \cup Coming' \cup Pending'
          = NamesOf(Pairs(entries)) \cup Coming \cup Pending
    BY <1>2, <1>3, <1>4, <1>5
  <2>4. NamesOf(Pairs(entries')) \cup Coming' \cup Pending'
          = NamesOf(Pairs(entries)) \cup Coming \cup Pending
    BY <1>1, <2>3
  <2> QED BY <2>1, <2>2, <2>4, AsAskedKeeps
<1>7. Arriving'
  <2>1. op' = "adding" => cur'.name = o.name
    BY <1>1
  <2>2. Head(todo)' = o
    OBVIOUS
  <2>3. op' = "ready" => status' # "ok"
    BY <1>1
  <2> QED BY <1>2, <1>3, <2>1, <2>2, <2>3 DEF Arriving
<1>8. Content(o.src)' = Content(o.src)
  BY DEF SameRun, Content
<1>9. ASSUME NEW p, Fresh1(p) PROVE Fresh1(p)'
  <2>1. SUFFICES ASSUME p.kind = "source", OneSource(p)
                 PROVE  /\ \A x \in Pairs(es) : x[1] = p.name => FreshCrc(x[2], p.src)'
                        /\ op' = "adding" /\ cur'.name = p.name => cur'.v = Content(p.src)'
    BY <1>1 DEF Fresh1
  <2>2. \A x \in Pairs(es) : x[1] = p.name => FreshCrc(x[2], p.src)
    BY <1>9, <2>1 DEF Fresh1
  <2>3. \A x \in Pairs(es) : x[1] = p.name => FreshCrc(x[2], p.src)'
    BY <2>2 DEF FreshCrc, SameRun, Content
  <2>4. o.name = p.name => o.src = p.src
    BY <1>2, <2>1 DEF OneSource
  <2> QED BY <1>1, <1>8, <2>3, <2>4
<1>10. op' = "adding" => Fresh1(o)'
  <2>1. SUFFICES ASSUME op' = "adding"
                 PROVE  /\ \A x \in Pairs(es) : x[1] # o.name
                        /\ cur'.v = Content(o.src)'
    BY <1>1 DEF Fresh1
  <2>2. o.name \notin NamesOf(Pairs(es))
    BY <1>1, <2>1, FoundNames
  <2> QED BY <1>1, <1>8, <2>1, <2>2 DEF NamesOf
<1>11. FreshInv'
  <2>1. \A i \in 1..Len(todo) : \A p :
            p = todo[i] => Fresh1(p)' \/ \E j \in 1..Len(todo') : todo'[j] = p
    OBVIOUS
  <2>2. pc' = "added" /\ (op' = "adding" \/ status' = "ok") => Fresh1(Head(todo))'
    <3>1. op' = "adding" \/ status' = "ok" => op' = "adding"
      BY <1>1 DEF AddBegin, AddRefused
    <3>2. Head(todo)' = o
      OBVIOUS
    <3>3. Fresh1(o)' => Fresh1(Head(todo))'
      BY <3>2 DEF Fresh1
    <3> QED BY <1>10, <3>1, <3>3
  <2> QED BY <1>9, <2>1, <2>2, FreshKeeps DEF RunView
<1> QED BY <1>6, <1>7, <1>11 DEF RunView

\* The addition of a class begins, and nobody looks at how it ends.
LEMMA ClassKeeps ==
  ASSUME SourceInv, AskedInv, RunView, SameRun, todo # << >>, todo' = Tail(todo),
         op = "ready", op' = "adding", pc' = "files", entries' = entries,
         NEW o, o = Head(todo), o.kind = "class", cur'.name = o.name
  PROVE  RunView'
<1>1. /\ Pending = Pending' \cup {x \in {o.name} : o.kind # "excluded"}
      /\ \A i \in 1..Len(todo) : todo[i] = o \/ \E j \in 1..Len(todo') : todo'[j] = todo[i]
  BY TailAsked
<1>2. /\ o \in AllOutputs /\ o.name \in Wanted
      /\ \E k \in 1..Len(outputs) : o = outputs[k]
  BY HeadAsked
<1>3. Coming = {} /\ Coming' = {o.name} /\ Wanted' = Wanted
  BY DEF Coming, SameRun, Wanted
<1>4. AsAsked'
  <2>1. AsAsked
    BY DEF RunView
  <2>2. \A p \in Pairs(entries') : p \in Pairs(entries) \/ p[1] \in Wanted
    OBVIOUS
  <2>3. NamesOf(Pairs(entries')) \cup Coming' \cup Pending'
          = NamesOf(Pairs(entries)) \cup Coming \cup Pending
    BY <1>1, <1>3
  <2> QED BY <2>1, <2>2, <2>3, AsAskedKeeps
<1>5. ~Listens'
  <2>1. DOMAIN outputs = 1..Len(outputs) /\ outputs' = outputs
    BY DEF SourceInv, SameRun
  <2> QED BY <1>2, <2>1 DEF Listens, NoClasses
<1>6. Arriving'
  BY <1>2, <1>3, <1>5 DEF Arriving
<1>7. ASSUME NEW p, Fresh1(p) PROVE Fresh1(p)'
  <2>1. SUFFICES ASSUME p.kind = "source", OneSource(p)
                 PROVE  /\ \A x \in Pairs(entries) : x[1] = p.name => FreshCrc(x[2], p.src)'
                        /\ cur'.name # p.name
    BY DEF Fresh1
  <2>2. \A x \in Pairs(entries) : x[1] = p.name => FreshCrc(x[2], p.src)
    BY <1>7, <2>1 DEF Fresh1
  <2>3. \A x \in Pairs(entries) : x[1] = p.name => FreshCrc(x[2], p.src)'
    BY <2>2 DEF FreshCrc, SameRun, Content
  <2>4. o.name # p.name
    BY <1>2, <2>1 DEF OneSource
  <2> QED BY <2>3, <2>4
<1>8. FreshInv'
  <2>1. Fresh1(o)'
    BY DEF Fresh1
  <2>2. ASSUME NEW i \in 1..Len(todo), NEW p, p = todo[i]
        PROVE  Fresh1(p)' \/ \E j \in 1..Len(todo') : todo'[j] = p
    BY <1>1, <2>1, <2>2
  <2> QED BY <1>7, <2>2, FreshKeeps DEF RunView
<1> QED BY <1>4, <1>6, <1>8 DEF RunView

\* An addition ends.  Where it is not looked at, a failure is not trusted.
LEMMA EndKeeps ==
  ASSUME SourceInv, AskedInv, PcInv, RunView, SameRun, todo' = todo, pc' = pc, Packaging,
         pc = "added" => todo # << >>, IsList(entries), Trusted', AddDeflated \/ AddStored \/ AddGzip
  PROVE  RunView'
<1>1. /\ op = "adding" /\ op' = "ready"
      /\ \/ Pairs(entries') = Pairs(entries) \cup {<<cur.name, cur.v>>}
         \/ unreported'
         \/ Pairs(entries') = Pairs(entries) /\ faults' = faults + 1 /\ status' = "error"
  BY AddPairs
<1>2. pc \in {"files", "added"}
  BY <1>1 DEF PcInv, Packaging
<1>3. \/ Pairs(entries') = Pairs(entries) \cup {<<cur.name, cur.v>>}
      \/ Pairs(entries') = Pairs(entries) /\ status' = "error" /\ pc = "added"
  <2>1. SUFFICES ASSUME Pairs(entries') = Pairs(entries), faults' = faults + 1, status' = "error"
                 PROVE  pc = "added"
    BY <1>1 DEF Trusted
  <2>2. faults' # 0
    BY <2>1 DEF PcInv
  <2>3. Listens
    BY <2>2 DEF Trusted, SameRun, Listens, Packaging, NoClasses
  <2> QED BY <1>1, <1>2, <2>3 DEF RunView, Arriving
<1>4. Coming = {cur.name} /\ Coming' = {} /\ Pending' = Pending /\ Wanted' = Wanted
  BY <1>1 DEF Coming, Pending, SameRun, Wanted
<1>5. cur.name \in Wanted
  BY <1>1 DEF RunView, Arriving
<1>6. pc = "added" => cur.name = Head(todo).name /\ Head(todo).kind \notin {"excluded", "class"}
  BY <1>1 DEF RunView, Arriving
<1>7. pc = "added" => cur.name \in Pending
  BY <1>6, HeadAsked
<1>8. NamesOf(Pairs(entries) \cup {<<cur.name, cur.v>>}) = NamesOf(Pairs(entries)) \cup {cur.name}
  <2>1. PICK q : q = <<cur.name, cur.v>>
    OBVIOUS
  <2>3. q[1] = cur.name
    BY <2>1
  <2>2. \A P : NamesOf(P \cup {q}) = NamesOf(P) \cup {q[1]}
    BY DEF NamesOf
  <2> QED BY <2>1, <2>2, <2>3
<1>9. AsAsked'
  <2>1. AsAsked
    BY DEF RunView
  <2>2. \A p \in Pairs(entries') : p \in Pairs(entries) \/ p[1] \in Wanted
    BY <1>3, <1>5
  <2>3. NamesOf(Pairs(entries')) \cup Coming' \cup Pending'
          = NamesOf(Pairs(entries)) \cup Coming \cup Pending
    BY <1>3, <1>4, <1>7, <1>8
  <2> QED BY <2>1, <2>2, <2>3, AsAskedKeeps
<1>10. Arriving'
  <2>1. pc' = "added" /\ status' = "ok" => Head(todo)'.name \in NamesOf(Pairs(entries'))
    BY <1>3, <1>6, <1>8
  <2> QED BY <1>1, <1>2, <1>6, <2>1 DEF Arriving
<1>11. ASSUME NEW p, Fresh1(p) PROVE Fresh1(p)'
  <2>1. SUFFICES ASSUME p.kind = "source", OneSource(p), NEW x \in Pairs(entries'), x[1] = p.name
                 PROVE  FreshCrc(x[2], p.src)'
    BY <1>1 DEF Fresh1
  <2>2. FreshCrc(x[2], p.src)
    <3>1. CASE x \in Pairs(entries)
      BY <1>11, <2>1, <3>1 DEF Fresh1
    <3>2. CASE x = <<cur.name, cur.v>>
      <4>1. cur.v = Content(p.src)
        BY <1>1, <1>11, <2>1, <3>2 DEF Fresh1
      <4> QED BY <3>2, <4>1 DEF FreshCrc
    <3> QED BY <1>3, <3>1, <3>2
  <2> QED BY <2>2 DEF FreshCrc, SameRun, Content
<1>12. FreshInv'
  <2>1. \A i \in 1..Len(todo) : \A p :
            p = todo[i] => Fresh1(p)' \/ \E j \in 1..Len(todo') : todo'[j] = p
    OBVIOUS
  <2>2. pc = "added" => Fresh1(Head(todo))
    BY <1>1 DEF RunView, FreshInv
  <2>3. pc' = "added" => Fresh1(Head(todo))'
    <3>1. PICK h : h = Head(todo)
      OBVIOUS
    <3>2. h = Head(todo)'
      BY <3>1
    <3>3. pc = "added" => Fresh1(h)
      BY <2>2, <3>1
    <3>4. pc = "added" => Fresh1(h)'
      BY <1>11, <3>3
    <3>5. Fresh1(h)' => Fresh1(Head(todo))'
      BY <3>2 DEF Fresh1
    <3> QED BY <3>4, <3>5
  <2> QED BY <1>11, <2>1, <2>3, FreshKeeps DEF RunView
<1> QED BY <1>9, <1>10, <1>12 DEF RunView

\* An entry that is at least as new as its source has its content, or one of the second before.
LEMMA MarkedFresh ==
  ASSUME SourceInv, TimeInv, AskedInv, BoundsInv, Listed, InPlace, todo # << >>,
         NEW o, o = Head(todo), o.kind = "source", Found(entries, o.name) # {},
         NEW i, i = EntryByName(entries, o.name), src[o.src].mod <= entries[i].mod,
         op = "ready"
  PROVE  Fresh1(o)
<1>1. SUFFICES ASSUME OneSource(o), NEW p \in Pairs(entries), p[1] = o.name
               PROVE  FreshCrc(p[2], o.src)
  BY DEF Fresh1
<1>2. o \in AllOutputs /\ o.src \in Names
  BY HeadAsked DEF Output
<1>3. i \in Found(entries, o.name) /\ i \in 1..Len(entries)
  BY NamedEntry DEF Listed, EntryList
<1>4. PICK j \in Live(entries) : p = <<entries[j].name, entries[j].crc>>
  BY DEF Pairs
<1>5. p[2] = entries[i].crc /\ ~entries[i].deleted /\ entries[i].name = o.name
  <2>1. entries[i].name = o.name /\ ~entries[i].deleted
    BY <1>3 DEF Found
  <2>2. j \in 1..Len(entries) /\ ~entries[j].deleted /\ entries[j].name = o.name
    BY <1>1, <1>4 DEF Live
  <2>3. i = j
    BY <1>3, <2>1, <2>2 DEF Listed, NamedOnce
  <2> QED BY <1>4, <2>1, <2>3
<1>6. PICK c \in Contents : c = entries[i].crc
  <2>1. Whole(file, entries[i])
    BY <1>3, <1>5 DEF InPlace, Placed, Kept
  <2> QED BY <2>1 DEF Whole
<1>7. PICK mod : mod = entries[i].mod
  OBVIOUS
<1>8. <<o.name, c, mod>> \in Honests
  BY <1>3, <1>5, <1>6, <1>7 DEF BoundsInv, BoundsOf, ListOf, EntryOf
<1>9. mod \in Nat /\ Honest(o.name, c, mod)
  BY <1>8 DEF Honests, Triples
<1>10. mod <= madeAt[c] + 1
  BY <1>1, <1>2, <1>6, <1>9, ArchiveAssumption DEF Honest
<1>11. madeAt[c] \in Nat /\ src[o.src].mod \in Nat /\ src[o.src].mod <= mod
  BY <1>2, <1>7, SourceContent DEF TimeInv
<1>12. src[o.src].mod - madeAt[c] <= 1
  BY <1>9, <1>10, <1>11
<1> QED BY <1>5, <1>6, <1>12 DEF FreshCrc

-----------------------------------------------------------------------------
(* What is on disk.                                                        *)

\* The file ends with the directory of the entries es, from off on.
DirectoryLast(f, es, off) ==
  /\ \A i \in 1..Len(es) : ~es[i].deleted /\ f[off + i] = Cde(es[i])
  /\ Len(f) = off + Len(es) + 1 /\ f[Len(f)] = <<"eocd", Len(es), off>>

\* A file with the directory of some entries at its end reads as they say.
LEMMA ReadBack ==
  ASSUME NEW f, IsList(f), NEW es, IsList(es), NEW off \in Nat, DirectoryLast(f, es, off)
  PROVE  Reads(f, es)
<1> USE DEF DirectoryLast
<1>1. PICK m \in Nat : m = Len(es)
  BY DEF IsList
<1>2. Len(f) \in Nat \ {0}
  BY <1>1
<1>3. ReadEocd(f).num = m /\ ReadEocd(f).off = off
  BY <1>1, <1>2, EocdAtEnd
<1>4. PICK rs : rs = ReadCentralDir(f)
  OBVIOUS
<1>5. rs = [i \in 1..m |-> FromCde(f[off + i])]
  BY <1>3, <1>4 DEF ReadCentralDir
<1>6. IsList(rs) /\ Len(rs) = m
  BY <1>5, FunctionIsList
<1>7. ASSUME NEW i \in 1..m
      PROVE  rs[i].name = es[i].name /\ rs[i].crc = es[i].crc /\ ~rs[i].deleted
  <2>1. rs[i] = FromCde(Cde(es[i]))
    BY <1>1, <1>5
  <2> QED BY <2>1 DEF FromCde, Cde
<1> QED BY <1>1, <1>4, <1>6, <1>7 DEF Reads

\* A reader finds the names and the contents of the entries.
LEMMA ReadsPairs ==
  ASSUME NEW f, NEW es, Reads(f, es)
  PROVE  Pairs(ReadCentralDir(f)) = Pairs(es)
<1>1. PICK rs : rs = ReadCentralDir(f)
  OBVIOUS
<1>2. /\ Len(rs) = Len(es)
      /\ \A i \in 1..Len(es) :
           /\ ~es[i].deleted /\ ~rs[i].deleted
           /\ rs[i].name = es[i].name /\ rs[i].crc = es[i].crc
  BY <1>1 DEF Reads
<1>3. Live(rs) = 1..Len(es) /\ Live(es) = 1..Len(es)
  BY <1>2 DEF Live
<1>4. Pairs(rs) \subseteq Pairs(es)
  BY <1>2, <1>3, PairsWithin
<1>5. Pairs(es) \subseteq Pairs(rs)
  BY <1>2, <1>3, PairsWithin
<1> QED BY <1>1, <1>4, <1>5

\* What a sound archive reads as.
LEMMA SoundReads ==
  ASSUME NEW f, Sound(f)
  PROVE  /\ Readable(f) /\ Reads(f, ReadCentralDir(f))
         /\ \A i, j \in 1..Len(ReadCentralDir(f)) :
               ReadCentralDir(f)[i].name = ReadCentralDir(f)[j].name => i = j
<1>1. PICK rs : rs = ReadCentralDir(f)
  OBVIOUS
<1>2. PICK n \in Nat : n = ReadEocd(f).num
  BY SoundEntries
<1>3. rs = [i \in 1..n |-> FromCde(f[ReadEocd(f).off + i])]
  BY <1>1, <1>2 DEF ReadCentralDir
<1>4. IsList(rs) /\ Len(rs) = n /\ DOMAIN rs = 1..n
  BY <1>3, FunctionIsList
<1>5. \A i \in 1..n : ~rs[i].deleted
  BY <1>3 DEF FromCde
<1>6. Readable(f) /\ \A i, j \in DOMAIN rs : rs[i].name = rs[j].name => i = j
  BY <1>1 DEF Sound, AllWhole
<1> QED BY <1>1, <1>4, <1>5, <1>6 DEF Reads

\* A method that rewrites nothing, or something it will write again, leaves what is on disk.
LEMMA DiskKeeps ==
  ASSUME OnDisk, op = "ready", file' = file,
         ~needRewrite' => ~needRewrite /\ SameEntries(entries', entries)
  PROVE  OnDisk'
<1>1. SUFFICES ASSUME ~needRewrite' PROVE Reads(file, entries')
  BY DEF OnDisk
<1>2. Reads(file, entries) /\ SameEntries(entries', entries)
  BY <1>1 DEF OnDisk
<1> QED BY <1>2 DEF Reads, SameEntries

\* The end of a flush puts it there.
LEMMA EocdReads ==
  ASSUME Listed, InPlace, AllLive, DirectoryBehind, WriteEocd
  PROVE  unreported' \/ Reads(file', entries')
<1>1. SUFFICES ASSUME ~unreported' PROVE Reads(file', entries')
  OBVIOUS
<1>2. PICK m \in Nat : m = Len(entries)
  BY DEF Listed, EntryList, IsList
<1>3. PICK off \in Nat : off = eocd.off
  BY DEF InPlace, Placed
<1>4. PICK f : f = file'
  OBVIOUS
<1>5. /\ entries' = entries /\ IsList(f) /\ Len(f) = off + m + 1
      /\ f[Len(f)] = <<"eocd", m, off>> /\ \A i \in 1..off + m : f[i] = file[i]
  BY <1>1, <1>2, <1>3, <1>4, EocdLaid
<1>6. ASSUME NEW i \in 1..m PROVE ~entries[i].deleted /\ f[off + i] = Cde(entries[i])
  <2>1. off + i \in 1..off + m
    OBVIOUS
  <2> QED BY <1>2, <1>3, <1>5, <2>1 DEF AllLive, DirectoryBehind
<1>7. Reads(f, entries)
  <2>1. IsList(entries) /\ \A i \in 1..Len(entries) : ~entries[i].deleted /\ f[off + i] = Cde(entries[i])
    BY <1>2, <1>6 DEF Listed, EntryList
  <2>2. Len(f) = off + Len(entries) + 1 /\ f[Len(f)] = <<"eocd", Len(entries), off>>
    BY <1>2, <1>5
  <2>3. DirectoryLast(f, entries, off)
    BY <2>1, <2>2 DEF DirectoryLast
  <2> QED BY <1>3, <1>5, <2>1, <2>3, ReadBack
<1> QED BY <1>4, <1>5, <1>7

-----------------------------------------------------------------------------
(* The steps of a run.                                                     *)

\* What a command was asked, and what it found, is settled when it begins.
LEMMA BeginOnly ==
  ASSUME [Next]_vars
  PROVE  \/ UNCHANGED <<before, command, outputs>>
         \/ \E cmd, outs : Begin(cmd, outs)
<1> USE DEF Goes, Done
<1>1. ASSUME NEW s, NEW t, Edit(s, t) PROVE UNCHANGED <<before, command, outputs>>
  BY <1>1 DEF Edit
<1>2. CASE Kill
  BY <1>2 DEF Kill
<1>3. CASE ProcessFile
  BY <1>3, ProcessFileCases, AddOutputCases DEF FileFails
<1>4. CASE Added \/ ProcessClass \/ CruftAndFlush \/ Flushed
  BY <1>4, Zenon DEF Added, ProcessClass, CruftAndFlush, Flushed
<1>5. CASE AddSpec \/ SpecAdded \/ RemoveSpecs \/ RemoveFlush \/ SpecsDone
  BY <1>5, Zenon DEF AddSpec, SpecAdded, RemoveSpecs, RemoveFlush, SpecsDone
<1>6. CASE DestructorFlush \/ Bail \/ ZipSteps
  BY <1>6, Zenon DEF DestructorFlush, Bail, ZipSteps
<1>7. CASE UNCHANGED vars
  BY <1>7 DEF vars
<1> QED BY <1>1, <1>2, <1>3, <1>4, <1>5, <1>6, <1>7 DEF Next

\* What a command finds that works at all.
LEMMA BeginFinds ==
  ASSUME NEW cmd, NEW outs, Begin(cmd, outs), before'.opened, pc' # "idle"
  PROVE  \E f : /\ before'.sound = (f = NoFile \/ Sound(f))
                /\ before'.list = IF f = NoFile THEN << >> ELSE ReadCentralDir(f)
                /\ Open(f) /\ pc' = "files" /\ todo' = outs /\ outputs' = outs
<1>1. PICK f : f = IF cmd = "force" THEN NoFile ELSE file
  OBVIOUS
<1>2. PICK refused, opened :
        /\ before' = [list |-> IF opened /\ f # NoFile THEN ReadCentralDir(f) ELSE << >>,
                      sound |-> f = NoFile \/ Sound(f), opened |-> opened]
        /\ pc' = IF refused THEN "idle" ELSE IF opened THEN "files" ELSE "close"
        /\ ~refused => Open(f)
        /\ outputs' = outs /\ todo' = outs
  BY <1>1, Zenon DEF Begin
<1>3. before'.opened = opened /\ before'.sound = (f = NoFile \/ Sound(f))
  BY <1>2
<1>4. opened
  BY <1>3
<1>5. ~refused /\ pc' = "files"
  BY <1>2, <1>4
<1>6. before'.list = IF f = NoFile THEN << >> ELSE ReadCentralDir(f)
  BY <1>2, <1>4
<1> QED BY <1>2, <1>3, <1>5, <1>6

\* A run that starts from a sound archive has all of its outputs to come.
LEMMA BeginRuns ==
  ASSUME NEW cmd, NEW outs, Begin(cmd, outs), SourceInv', Sane'
  PROVE  RunView' /\ OnDisk'
<1>1. PICK f : /\ f = NoFile \/ Sound(f)
               /\ before'.list = IF f = NoFile THEN << >> ELSE ReadCentralDir(f)
               /\ Open(f) /\ pc' = "files" /\ todo' = outputs'
  <2>1. before'.sound /\ before'.opened /\ pc' # "idle"
    BY DEF Sane, Trusted
  <2> QED BY <2>1, BeginFinds
<1>2. PICK rs : rs = entries'
  OBVIOUS
<1>3. /\ before'.list = rs /\ op' = "ready" /\ IsList(rs) /\ \A i \in 1..Len(rs) : ~rs[i].deleted
      /\ ~needRewrite' => Reads(file', rs)
  <2>1. CASE f = NoFile
    <3>1. ~Readable(f)
      BY <2>1 DEF Readable
    <3>2. rs = << >> /\ needRewrite'
      BY <1>1, <1>2, <2>1, <3>1 DEF Open
    <3> QED BY <1>1, <2>1, <3>2, EmptyEntries DEF Open
  <2>2. CASE f # NoFile
    <3>1. Sound(f)
      BY <1>1, <2>2
    <3>2. Readable(f) /\ Reads(f, ReadCentralDir(f))
      BY <3>1, SoundReads
    <3>3. rs = ReadCentralDir(f) /\ file' = f /\ op' = "ready"
      BY <1>1, <1>2, <2>2, <3>2 DEF Open
    <3> QED BY <1>1, <2>2, <3>2, <3>3 DEF Reads
  <2> QED BY <2>1, <2>2
<1>4. DOMAIN rs = 1..Len(rs) /\ Live(rs) = 1..Len(rs)
  BY <1>3, ListDomain DEF Live
<1>5. NamesIn(rs) = NamesOf(Pairs(rs))
  <2>1. NamesIn(rs) = {rs[i].name : i \in 1..Len(rs)}
    BY <1>4 DEF NamesIn
  <2>2. Pairs(rs) = {<<rs[i].name, rs[i].crc>> : i \in 1..Len(rs)}
    BY <1>4 DEF Pairs
  <2>3. \A i \in 1..Len(rs) : <<rs[i].name, rs[i].crc>> \in Pairs(rs)
    BY <2>2
  <2>4. ASSUME NEW i \in 1..Len(rs) PROVE rs[i].name \in NamesOf(Pairs(rs))
    <3>1. PICK p : p = <<rs[i].name, rs[i].crc>>
      OBVIOUS
    <3>2. p \in Pairs(rs) /\ p[1] = rs[i].name
      BY <2>3, <3>1
    <3> QED BY <3>2 DEF NamesOf
  <2>5. ASSUME NEW n \in NamesOf(Pairs(rs)) PROVE n \in NamesIn(rs)
    BY <2>1, <2>2 DEF NamesOf
  <2> QED BY <2>1, <2>4, <2>5
<1>6. Pending' = Wanted' /\ Coming' = {}
  <2>1. DOMAIN outputs' = 1..Len(outputs')
    BY DEF SourceInv
  <2>2. Coming' = {}
    BY <1>3 DEF Coming
  <2> QED BY <1>1, <2>1, <2>2 DEF Pending, Wanted
<1>7. AsAsked'
  <2>1. \A p \in Pairs(rs) : \E j \in 1..Len(rs) : rs[j].name = p[1] /\ rs[j].crc = p[2]
    BY <1>4 DEF Pairs
  <2> QED BY <1>2, <1>3, <1>5, <1>6, <2>1 DEF AsAsked
<1>8. Arriving'
  BY <1>1, <1>3 DEF Arriving
<1>9. OnDisk'
  BY <1>2, <1>3 DEF OnDisk
<1>10. FreshInv'
  BY <1>1 DEF FreshInv
<1> QED BY <1>7, <1>8, <1>9, <1>10 DEF RunView

\* A sound archive names nothing twice.
LEMMA BeforeStep ==
  BeforeInv /\ [Next]_vars => BeforeInv'
<1> SUFFICES ASSUME BeforeInv, [Next]_vars PROVE BeforeInv'
  OBVIOUS
<1>1. CASE UNCHANGED <<before, command, outputs>>
  BY <1>1 DEF BeforeInv
<1>2. ASSUME NEW cmd, NEW outs, Begin(cmd, outs) PROVE BeforeInv'
  <2>1. PICK f, rs : /\ before'.sound = (f = NoFile \/ Sound(f)) /\ before'.list = rs
                     /\ rs = << >> \/ (f # NoFile /\ rs = ReadCentralDir(f))
    <3>1. PICK f, opened :
             before' = [list |-> IF opened /\ f # NoFile THEN ReadCentralDir(f) ELSE << >>,
                        sound |-> f = NoFile \/ Sound(f), opened |-> opened]
      BY <1>2, Zenon DEF Begin
    <3> QED BY <3>1
  <2>2. SUFFICES ASSUME before'.sound
                 PROVE  /\ IsList(rs) /\ \A i \in 1..Len(rs) : ~rs[i].deleted
                        /\ \A i, j \in 1..Len(rs) : rs[i].name = rs[j].name => i = j
    BY <2>1 DEF BeforeInv
  <2>3. CASE rs = << >>
    BY <2>3, EmptyEntries
  <2>4. CASE f # NoFile /\ rs = ReadCentralDir(f)
    <3>1. Sound(f)
      BY <2>1, <2>2, <2>4
    <3> QED BY <2>4, <3>1, SoundReads DEF Reads
  <2> QED BY <2>1, <2>3, <2>4
<1> QED BY <1>1, <1>2, BeginOnly

\* An addition that is begun or refused, with what is left after a removal.
LEMMA AddRuns ==
  ASSUME SourceInv, AskedInv, RunView, OnDisk, EntryList(entries), todo # << >>, op = "ready",
         NEW o, o = Head(todo), o.kind \notin {"excluded", "class"},
         NEW es, Pairs(es) \subseteq Pairs(entries), IsList(es),
         NamesOf(Pairs(entries)) \subseteq NamesOf(Pairs(es)) \cup {o.name},
         AddOutput(es, o)
  PROVE  RunView' /\ OnDisk'
<1>1. PICK when : /\ pc' = "added" /\ SameRun /\ todo' = todo
                  /\ \/ AddBegin(es, o.name, Content(o.src), o.method, when)
                     \/ AddRefused(es, o.name)
  BY AddOutputCases DEF Goes, SameRun
<1>2. RunView'
  BY <1>1, AddedKeeps
<1>3. OnDisk'
  <2>1. CASE AddBegin(es, o.name, Content(o.src), o.method, when)
    BY <2>1 DEF AddBegin, OnDisk
  <2>2. CASE AddRefused(es, o.name)
    <3>1. /\ entries' = es /\ file' = file
          /\ ~needRewrite' => ~needRewrite /\ es = entries
      BY <2>2 DEF AddRefused
    <3>2. SameEntries(entries, entries)
      BY DEF SameEntries
    <3> QED BY <3>1, <3>2, DiskKeeps
  <2> QED BY <1>1, <2>1, <2>2
<1> QED BY <1>2, <1>3

\* processFile.
LEMMA FileRuns ==
  ASSUME SourceInv, TimeInv, AskedInv, BoundsInv, Listed, InPlace, RunView, OnDisk,
         ProcessFile, Sane'
  PROVE  RunView' /\ OnDisk'
<1>1. PICK o, i :
        /\ o = Head(todo) /\ i = EntryByName(entries, o.name)
        /\ pc = "files" /\ op = "ready" /\ Packaging /\ todo # << >> /\ o.kind # "class"
        /\ \/ o.kind = "excluded" /\ Touch(entries) /\ Done("files")
           \/ FileFails
           \/ /\ o.kind = "source" /\ Found(entries, o.name) # {}
              /\ src[o.src].mod <= entries[i].mod
              /\ Touch(SetMarked(entries, i)) /\ Done("files")
           \/ /\ o.kind # "excluded" /\ Found(entries, o.name) # {}
              /\ AddOutput(SetDeleted(entries, i), o)
           \/ o.kind # "excluded" /\ AddOutput(entries, o)
  BY FileCases
<1>2. EntryList(entries) /\ IsList(entries)
  BY DEF Listed, EntryList
<1>3. ASSUME NEW es, Touch(es), Done("files"), SameEntries(es, entries), Fresh1(o),
             o.kind # "excluded" => o.name \in NamesOf(Pairs(entries))
      PROVE  RunView' /\ OnDisk'
  <2>1. /\ entries' = es /\ file' = file /\ needRewrite' = needRewrite /\ op' = "ready"
        /\ pc' = "files" /\ todo' = Tail(todo) /\ SameRun
    BY <1>1, <1>3 DEF Touch, Done, Goes, SameRun
  <2>2. Pairs(entries') = Pairs(entries)
    BY <1>3, <2>1, PairsSame
  <2>3. RunView'
    BY <1>1, <1>3, <2>1, <2>2, TakenKeeps
  <2>4. OnDisk'
    BY <1>1, <1>3, <2>1, DiskKeeps
  <2> QED BY <2>3, <2>4
<1>4. CASE o.kind = "excluded" /\ Touch(entries) /\ Done("files")
  <2>1. SameEntries(entries, entries) /\ Fresh1(o)
    BY <1>4 DEF SameEntries, Fresh1
  <2> QED BY <1>3, <1>4, <2>1
<1>5. CASE FileFails
  BY <1>5 DEF Sane, FileFails
<1>6. CASE /\ o.kind = "source" /\ Found(entries, o.name) # {}
           /\ src[o.src].mod <= entries[i].mod
           /\ Touch(SetMarked(entries, i)) /\ Done("files")
  <2>1. i \in 1..Len(entries)
    BY <1>1, <1>2, <1>6, NamedEntry
  <2>2. SameEntries(SetMarked(entries, i), entries)
    BY <1>2, <2>1, MarkedSame
  <2>3. Fresh1(o)
    BY <1>1, <1>6, MarkedFresh
  <2>4. o.name \in NamesOf(Pairs(entries))
    BY <1>2, <1>6, FoundNames
  <2> QED BY <1>3, <1>6, <2>2, <2>3, <2>4
<1>7. CASE /\ o.kind # "excluded" /\ Found(entries, o.name) # {}
           /\ AddOutput(SetDeleted(entries, i), o)
  <2>1. i \in 1..Len(entries) /\ entries[i].name = o.name
    BY <1>1, <1>2, <1>7, NamedEntry DEF Found
  <2>2. PICK es : es = SetDeleted(entries, i)
    OBVIOUS
  <2>3. /\ Pairs(es) \subseteq Pairs(entries)
        /\ NamesOf(Pairs(entries)) \subseteq NamesOf(Pairs(es)) \cup {o.name}
    BY <1>2, <2>1, <2>2, PairsDeleted
  <2>4. IsList(es)
    BY <1>2, <2>1, <2>2, DeletedThinned DEF Thinned, EntryList
  <2>5. AddOutput(es, o) /\ o.kind \notin {"excluded", "class"}
    BY <1>1, <1>7, <2>2
  <2> QED BY <1>1, <1>2, <2>3, <2>4, <2>5, AddRuns
<1>8. CASE o.kind # "excluded" /\ AddOutput(entries, o)
  <2>1. o.kind \notin {"excluded", "class"}
    BY <1>1, <1>8
  <2>2. /\ Pairs(entries) \subseteq Pairs(entries)
        /\ NamesOf(Pairs(entries)) \subseteq NamesOf(Pairs(entries)) \cup {o.name}
    OBVIOUS
  <2> QED BY <1>1, <1>2, <1>8, <2>1, <2>2, AddRuns
<1> QED BY <1>1, <1>4, <1>5, <1>6, <1>7, <1>8

\* What is behind zip->add there.
LEMMA AddedRuns ==
  ASSUME SourceInv, EntryList(entries), RunView, OnDisk, Added, Sane'
  PROVE  RunView' /\ OnDisk'
<1>1. PICK es : es = SetMarked(entries, Len(entries))
  OBVIOUS
<1>2. /\ pc = "added" /\ op = "ready" /\ status = "ok" /\ entries' = es /\ file' = file
      /\ needRewrite' = needRewrite /\ op' = "ready" /\ pc' = "files" /\ todo' = Tail(todo) /\ SameRun
  BY <1>1 DEF Added, Touch, Done, Goes, Sane, SameRun
<1>3. SameEntries(entries', entries)
  BY <1>1, <1>2, LastMarkedSame
<1>4. Pairs(entries') = Pairs(entries)
  BY <1>3, PairsSame
<1>5. PICK o : o = Head(todo)
  OBVIOUS
<1>6. Fresh1(o) /\ o.name \in NamesOf(Pairs(entries)) /\ todo # << >>
  BY <1>2, <1>5 DEF RunView, FreshInv, Arriving, SourceInv
<1>7. RunView'
  BY <1>2, <1>4, <1>5, <1>6, TakenKeeps
<1>8. OnDisk'
  BY <1>2, <1>3, DiskKeeps
<1> QED BY <1>7, <1>8

\* processJarFile.
LEMMA ClassRuns ==
  ASSUME SourceInv, AskedInv, EntryList(entries), RunView, OnDisk, ProcessClass, Sane'
  PROVE  RunView' /\ OnDisk'
<1>1. PICK o : o = Head(todo)
  OBVIOUS
<1>2. PICK when :
        /\ op = "ready" /\ todo # << >> /\ o.kind = "class" /\ todo' = Tail(todo) /\ pc' = "files"
        /\ SameRun
        /\ \/ AddBegin(entries, o.name, Content(o.src), o.method, when)
           \/ Found(entries, o.name) # {} /\ AddRefused(entries, o.name)
  BY <1>1 DEF ProcessClass, Done, Goes, Sane, SameRun
<1>3. CASE AddBegin(entries, o.name, Content(o.src), o.method, when)
  <2>1. op' = "adding" /\ entries' = entries /\ cur'.name = o.name
    BY <1>3 DEF AddBegin
  <2>2. RunView'
    BY <1>1, <1>2, <2>1, ClassKeeps
  <2> QED BY <2>1, <2>2 DEF OnDisk
<1>4. CASE Found(entries, o.name) # {} /\ AddRefused(entries, o.name)
  <2>1. op' = "ready" /\ entries' = entries /\ file' = file /\ (~needRewrite' => ~needRewrite)
    BY <1>2, <1>4 DEF AddRefused
  <2>2. o.name \in NamesOf(Pairs(entries))
    BY <1>4, FoundNames DEF EntryList
  <2>3. Fresh1(o) /\ SameEntries(entries, entries)
    BY <1>2 DEF Fresh1, SameEntries
  <2>4. RunView'
    BY <1>1, <1>2, <2>1, <2>2, <2>3, TakenKeeps
  <2>5. OnDisk'
    BY <1>2, <2>1, <2>3, DiskKeeps
  <2> QED BY <2>4, <2>5
<1> QED BY <1>2, <1>3, <1>4

\* The flush, and what is behind it.
LEMMA CloseRuns ==
  ASSUME RunView, OnDisk, CruftAndFlush \/ Flushed, Sane'
  PROVE  RunView' /\ OnDisk'
<1>1. SameEntries(entries, entries)
  BY DEF SameEntries
<1>2. CASE CruftAndFlush
  <2>1. /\ op = "ready" /\ todo = << >> /\ todo' = todo /\ pc' = "flushed" /\ SameRun
        /\ entries' = entries /\ file' = file /\ needRewrite' = needRewrite
        /\ op' \in {"ready", "crunch"}
    BY <1>2, Zenon DEF CruftAndFlush, FlushBegin, Goes, SameRun
  <2>2. RunView'
    BY <2>1, QuietKeeps
  <2>3. OnDisk'
    BY <1>1, <2>1, DiskKeeps
  <2> QED BY <2>2, <2>3
<1>3. CASE Flushed
  <2>1. /\ pc = "flushed" /\ op = "ready" /\ todo' = todo /\ pc' = "close" /\ SameRun
        /\ UNCHANGED zipVars
    BY <1>3 DEF Flushed, Goes, Sane, SameRun
  <2>2. todo = << >>
    BY <2>1 DEF RunView, Arriving
  <2>3. entries' = entries /\ file' = file /\ needRewrite' = needRewrite /\ op' = "ready"
    BY <2>1 DEF zipVars
  <2>4. RunView'
    BY <2>1, <2>2, <2>3, QuietKeeps
  <2>5. OnDisk'
    BY <1>1, <2>1, <2>3, DiskKeeps
  <2> QED BY <2>4, <2>5
<1> QED BY <1>2, <1>3

\* The steps of ZipFile.
LEMMA ZipRuns ==
  ASSUME SourceInv, PcInv, CurInv, AskedInv, BoundsInv, Listed, Layout, RunView, OnDisk, Packaging,
         ZipSteps, Trusted'
  PROVE  RunView' /\ OnDisk'
<1>1. SameRun /\ todo' = todo /\ pc' = pc /\ ZipStep /\ ~unreported'
  BY DEF ZipSteps, SameRun, Trusted
<1>2. EntryList(entries) /\ IsList(entries)
  BY DEF Listed, EntryList
<1>3. CASE AddDeflated \/ AddStored \/ AddGzip
  <2>1. op = "adding" /\ needRewrite' = needRewrite
    BY <1>2, <1>3, AddPairs
  <2>2. needRewrite'
    BY <2>1 DEF BoundsInv, BoundsOf
  <2>3. pc = "added" => todo # << >>
    BY DEF SourceInv
  <2>4. RunView'
    BY <1>1, <1>2, <1>3, <2>3, EndKeeps
  <2> QED BY <2>2, <2>4 DEF OnDisk
<1>4. CASE CrunchDeleted \/ CrunchMove \/ CrunchDone \/ WriteCentralDir \/ WriteEocd
  <2>1. /\ Pairs(entries') = Pairs(entries)
        /\ op \in {"crunch", "central", "end"} /\ op' \notin {"closed", "adding"}
    BY <1>2, <1>4, FlushPairs
  <2>2. pc \notin {"files", "added", "specAdded"} /\ needRewrite
    BY <2>1 DEF PcInv, BoundsInv, BoundsOf
  <2>3. pc' \in {"flushed", "close"} => todo = << >>
    BY <1>1 DEF RunView, Arriving
  <2>4. RunView'
    BY <1>1, <2>1, <2>2, <2>3, QuietKeeps
  <2>5. OnDisk'
    <3>1. CASE CrunchDeleted \/ CrunchMove \/ CrunchDone
      <4>1. needRewrite' = needRewrite
        BY <3>1, Zenon DEF CrunchDeleted, CrunchMove, CrunchDone
      <4> QED BY <2>2, <4>1 DEF OnDisk
    <3>2. CASE WriteCentralDir
      <4>1. op' = "end" \/ unreported' \/ needRewrite' = needRewrite
        BY <3>2, Zenon DEF WriteCentralDir, Unreported
      <4> QED BY <1>1, <2>2, <4>1 DEF OnDisk
    <3>3. CASE WriteEocd
      <4>1. op = "end"
        BY <3>3 DEF WriteEocd
      <4>2. InPlace /\ AllLive /\ DirectoryBehind
        BY <4>1 DEF Layout
      <4> QED BY <1>1, <3>3, <4>2, EocdReads DEF OnDisk
    <3> QED BY <1>4, <3>1, <3>2, <3>3
  <2> QED BY <2>4, <2>5
<1> QED BY <1>1, <1>3, <1>4 DEF ZipStep

\* Every step of a run keeps to what it was asked.
LEMMA RunStep ==
  WriterInv /\ ArchiveInv /\ RunInv /\ [Next]_vars => RunInv'
<1> SUFFICES ASSUME WriterInv, ArchiveInv, RunInv, [Next]_vars, Sane', Packaging'
             PROVE  RunView' /\ OnDisk'
  BY DEF RunInv, RunView
<1> USE DEF WriterInv, ArchiveInv
<1>a. ASSUME UNCHANGED <<before, command, outputs>>, pc # "idle", result = "ok",
             pc \in {"added", "flushed"} /\ op = "ready" => status = "ok"
      PROVE  Sane /\ Packaging /\ Layout /\ Listed /\ RunView /\ OnDisk /\ EntryList(entries)
  <2>1. Sane /\ Packaging
    BY <1>a, SaneBefore DEF Packaging
  <2>2. before.sound
    BY <2>1 DEF Sane, Trusted
  <2> QED BY <2>1, <2>2 DEF LayInv, UniqueInv, Listed, RunInv, RunView
<1>b. pc' # "idle" /\ result' = "ok" /\ Trusted'
  BY DEF Sane
<1>1. ASSUME NEW s \in Names, NEW t \in 1..MaxClock, Edit(s, t) PROVE RunView' /\ OnDisk'
  BY <1>1, <1>b DEF Edit
<1>2. ASSUME NEW cmd, NEW outs, Begin(cmd, outs) PROVE RunView' /\ OnDisk'
  <2>1. SourceInv'
    BY SourceStep
  <2> QED BY <1>2, <2>1, BeginRuns
<1>3. CASE Kill \/ Bail
  BY <1>3, <1>b DEF Kill, Bail, Goes
<1>4. CASE ProcessFile
  <2>1. /\ pc = "files" /\ op = "ready" /\ UNCHANGED <<before, command, outputs>>
    BY <1>4, ProcessFileCases, AddOutputCases DEF FileFails, Goes, Done
  <2>2. Layout /\ Listed /\ RunView /\ OnDisk
    BY <1>a, <2>1 DEF PcInv
  <2>3. InPlace
    BY <2>1, <2>2 DEF Layout
  <2> QED BY <1>4, <2>2, <2>3, FileRuns
<1>5. CASE Added
  <2>1. /\ pc = "added" /\ op = "ready" /\ UNCHANGED <<before, command, outputs>>
        /\ status = "ok"
    BY <1>5, <1>b DEF Added, Goes, Done
  <2>2. EntryList(entries) /\ RunView /\ OnDisk
    BY <1>a, <2>1 DEF PcInv
  <2> QED BY <1>5, <2>2, AddedRuns
<1>6. CASE ProcessClass
  <2>1. /\ pc = "files" /\ op = "ready" /\ UNCHANGED <<before, command, outputs>>
    BY <1>6, Zenon DEF ProcessClass, Goes, Done
  <2>2. EntryList(entries) /\ RunView /\ OnDisk
    BY <1>a, <2>1 DEF PcInv
  <2> QED BY <1>6, <2>2, ClassRuns
<1>7. CASE CruftAndFlush \/ Flushed
  <2>1. /\ pc \in {"files", "flushed"} /\ op = "ready" /\ UNCHANGED <<before, command, outputs>>
        /\ pc = "flushed" => status = "ok"
    BY <1>7, <1>b, Zenon DEF CruftAndFlush, Flushed, Goes
  <2>2. RunView /\ OnDisk
    BY <1>a, <2>1 DEF PcInv
  <2> QED BY <1>7, <2>2, CloseRuns
<1>8. CASE AddSpec \/ SpecAdded \/ RemoveSpecs \/ RemoveFlush \/ SpecsDone
  <2>1. command' = command /\ (command \in {"add", "remove"} \/ pc \in {"specAdded", "removed"})
    BY <1>8, Zenon DEF AddSpec, SpecAdded, RemoveSpecs, RemoveFlush, SpecsDone, Goes, Done
  <2>2. command \in {"add", "remove"}
    BY <2>1 DEF PcInv
  <2> QED BY <2>1, <2>2 DEF Packaging
<1>9. CASE DestructorFlush
  <2>1. /\ pc = "close" /\ UNCHANGED <<before, command, outputs, result>> /\ needRewrite
    BY <1>9 DEF DestructorFlush, FlushBegin, Goes
  <2>2. Packaging /\ result = "ok"
    BY <1>b, <2>1 DEF Packaging
  <2> QED BY <2>1, <2>2 DEF PcInv
<1>10. CASE ZipSteps
  <2>1. UNCHANGED <<before, command, outputs, result, pc>> /\ op # "closed" /\ op # "ready"
    BY <1>10, Zenon DEF ZipSteps, ZipStep, AddDeflated, AddStored, AddGzip, CrunchDeleted,
                        CrunchMove, CrunchDone, WriteCentralDir, WriteEocd
  <2>2. Packaging /\ Listed /\ Layout /\ RunView /\ OnDisk
    BY <1>a, <1>b, <2>1
  <2> QED BY <1>10, <1>b, <2>2, ZipRuns
<1>11. CASE UNCHANGED vars
  <2>1. Sane' = Sane /\ Packaging' = Packaging /\ RunView' = RunView /\ OnDisk' = OnDisk
    BY <1>11 DEF vars, zipVars, Sane, Trusted, Listens, NoClasses, Packaging, RunView, AsAsked, Arriving,
                 FreshInv, Fresh1, FreshCrc, Content, Wanted, Pending, Coming, OnDisk
  <2> QED BY <2>1 DEF RunInv, RunView
<1> QED BY <1>1, <1>2, <1>3, <1>4, <1>5, <1>6, <1>7, <1>8, <1>9, <1>10, <1>11 DEF Next

\* The invariant of a run: what is there and what is to come are what was there and what is wanted,
\* a rewritten archive reads as its entries say, and what is packaged is fresh.
ContentsInv == WriterInv /\ ArchiveInv /\ RunInv /\ BeforeInv
THEOREM ContentsInvariance == Spec => []ContentsInv
<1>1. Init => RunInv /\ BeforeInv
  <2>1. Init => ~Sane
    BY DEF Init, Sane
  <2>2. Init => BeforeInv
    BY EmptyEntries DEF Init, BeforeInv
  <2> QED BY <2>1, <2>2 DEF RunInv
<1>2. WriterInv /\ ArchiveInv /\ RunInv /\ BeforeInv /\ [Next]_vars => RunInv' /\ BeforeInv'
  BY RunStep, BeforeStep
<1> QED BY <1>1, <1>2, WriterInvariance, ArchiveInvariance, PTL DEF Spec, ContentsInv

-----------------------------------------------------------------------------
(* What a run that reports success has written.                            *)

\* It is at its end, with nothing left to do, and the archive reads as its entries say.
Packaged ==
  /\ pc # "idle" /\ Reports' /\ Trusted' /\ Packaging
Ended(rs) ==
  /\ before.sound /\ RunView /\ todo = << >> /\ Coming = {} /\ Pending = {}
  /\ IsList(rs) /\ Pairs(rs) = Pairs(entries) /\ \A i \in 1..Len(rs) : ~rs[i].deleted

LEMMA EndOfRun ==
  ASSUME ContentsInv, [Next]_vars, Packaged
  PROVE  \E rs : rs = Written(file') /\ Ended(rs)
<1> USE DEF ContentsInv, WriterInv, ArchiveInv
<1>a. pc # "idle" /\ pc' = "idle" /\ result' = "ok" /\ before'.opened /\ Trusted' /\ Packaging
  BY DEF Packaged, Reports
<1>b. ASSUME UNCHANGED <<before, command, outputs>>, result = "ok",
             pc \in {"added", "flushed"} /\ op = "ready" => status = "ok"
      PROVE  before.sound /\ RunView /\ OnDisk
  <2>1. FaultStep
    BY FaultSteps
  <2>2. Sane
    BY <1>a, <1>b, <2>1, TrustedBefore DEF Sane
  <2> QED BY <1>a, <2>2 DEF RunInv, RunView, Sane, Trusted
<1>c. ASSUME op = "ready", before.sound, RunView, OnDisk, ~needRewrite, pc \in {"flushed", "close"},
             (file' = NoFile /\ entries = << >>) \/ file' = file
      PROVE  \E rs : rs = Written(file') /\ Ended(rs)
  <2>1. todo = << >>
    BY <1>c DEF RunView, Arriving
  <2>2. Coming = {} /\ Pending = {}
    BY <1>c, <2>1 DEF Coming, Pending
  <2>3. Reads(file, entries)
    BY <1>c DEF OnDisk
  <2>4. PICK rs : rs = Written(file')
    OBVIOUS
  <2>5. IsList(rs) /\ Pairs(rs) = Pairs(entries) /\ \A i \in 1..Len(rs) : ~rs[i].deleted
    <3>1. CASE file' = NoFile /\ entries = << >>
      <4>1. rs = << >>
        BY <2>4, <3>1 DEF Written
      <4>2. IsList(rs) /\ Len(rs) = 0 /\ rs = entries
        BY <3>1, <4>1, EmptyEntries
      <4> QED BY <4>2
    <3>2. CASE file' = file
      <4>1. FileOf(file, Honests)
        BY <1>c DEF BoundsInv, BoundsOf
      <4>2. file \in Seq(Seq(Field))
        BY <4>1, ListIsSeq DEF FileOf, CellOf
      <4>3. file # NoFile
        BY <4>2, ArchiveAssumption
      <4>4. rs = ReadCentralDir(file)
        BY <2>4, <3>2, <4>3 DEF Written
      <4>5. IsList(rs) /\ Len(rs) = Len(entries) /\ \A i \in 1..Len(entries) : ~rs[i].deleted
        BY <2>3, <4>4 DEF Reads
      <4> QED BY <2>3, <4>4, <4>5, ReadsPairs
    <3> QED BY <1>c, <3>1, <3>2
  <2> QED BY <1>c, <2>1, <2>2, <2>4, <2>5 DEF Ended
<1>1. ASSUME NEW s, NEW t, Edit(s, t) PROVE FALSE
  BY <1>1, <1>a DEF Edit
<1>2. ASSUME NEW cmd, NEW outs, Begin(cmd, outs) PROVE FALSE
  BY <1>2, <1>a DEF Begin
<1>3. CASE Kill
  BY <1>3, <1>a DEF Kill
<1>4. CASE Flushed
  <2>1. /\ pc = "flushed" /\ op = "ready" /\ UNCHANGED <<before, command, outputs>>
        /\ status = "ok" /\ file' = NoFile /\ entries = << >>
    BY <1>4, <1>a DEF Flushed, Goes
  <2>2. result = "ok" /\ ~needRewrite
    BY <2>1 DEF PcInv
  <2> QED BY <1>b, <1>c, <2>1, <2>2
<1>5. CASE Bail
  <2>1. /\ op = "ready" /\ pc \in {"close", "closing"} /\ (pc = "close" => ~needRewrite)
        /\ UNCHANGED <<result, before, command, outputs>>
        /\ file' = IF Packaging /\ result # "ok" THEN NoFile ELSE file
    BY <1>5 DEF Bail, Goes
  <2>2. result = "ok" /\ pc = "close" /\ file' = file
    BY <1>a, <2>1 DEF PcInv
  <2> QED BY <1>b, <1>c, <2>1, <2>2
<1>6. CASE UNCHANGED vars
  BY <1>6, <1>a DEF vars
<1>7. CASE ZipSteps
  BY <1>7, <1>a DEF ZipSteps
<1>8. CASE ProcessFile
  BY <1>8, <1>a, ProcessFileCases, AddOutputCases DEF FileFails, Goes, Done
<1>9. CASE Added \/ ProcessClass \/ CruftAndFlush \/ AddSpec \/ SpecAdded \/ RemoveSpecs
           \/ RemoveFlush \/ SpecsDone \/ DestructorFlush
  <2>1. pc' # "idle"
    BY <1>9, Zenon DEF Added, ProcessClass, CruftAndFlush, AddSpec, SpecAdded, RemoveSpecs,
                       RemoveFlush, SpecsDone, DestructorFlush, Goes, Done
  <2> QED BY <1>a, <2>1
<1> QED BY <1>1, <1>2, <1>3, <1>4, <1>5, <1>6, <1>7, <1>8, <1>9 DEF Next

\* What a reader finds under a name is what the entries have.
LEMMA EndedNames ==
  ASSUME NEW rs, Ended(rs)
  PROVE  /\ NamesIn(rs) = NamesOf(Pairs(entries))
         /\ \A n \in NamesIn(rs) : <<n, CrcIn(rs, n)>> \in Pairs(entries)
<1>1. IsList(rs) /\ DOMAIN rs = 1..Len(rs) /\ Live(rs) = 1..Len(rs)
  BY ListDomain DEF Ended, Live
<1>2. Pairs(rs) = Pairs(entries)
  BY DEF Ended
<1>3. ASSUME NEW n PROVE (n \in NamesIn(rs) <=> Found(rs, n) # {})
  BY <1>1 DEF NamesIn, Found, Live
<1>4. NamesIn(rs) = NamesOf(Pairs(rs))
  BY <1>1, <1>3, FoundNames
<1>5. ASSUME NEW n \in NamesIn(rs) PROVE <<n, CrcIn(rs, n)>> \in Pairs(rs)
  <2>1. PICK k : k = EntryByName(rs, n)
    OBVIOUS
  <2>2. k \in Found(rs, n) /\ k \in 1..Len(rs)
    BY <1>1, <1>3, <2>1, NamedEntry
  <2>3. rs[k].name = n /\ k \in Live(rs) /\ CrcIn(rs, n) = rs[k].crc
    BY <1>1, <2>1, <2>2 DEF Found, CrcIn
  <2> QED BY <2>3 DEF Pairs
<1> QED BY <1>2, <1>4, <1>5

\* A package run that reports success has written the outputs it was given, and nothing else but
\* entries that were there before, as they were (PackagesWhatWasAsked): whatever was overwritten,
\* removed, refused or crunched on the way.
THEOREM ContentsAsAsked == Spec => PackagesWhatWasAsked
<1>1. ASSUME ContentsInv, [Next]_vars, Packaged
      PROVE  /\ Wanted \subseteq NamesIn(Written(file'))
             /\ \A n \in NamesIn(Written(file')) \ Wanted :
                   /\ n \in NamesIn(before.list)
                   /\ CrcIn(Written(file'), n) = CrcIn(before.list, n)
  <2>1. PICK rs : rs = Written(file') /\ Ended(rs)
    BY <1>1, EndOfRun
  <2>2. NamesIn(rs) = NamesIn(before.list) \cup Wanted
    BY <2>1, EndedNames DEF Ended, RunView, AsAsked
  <2>3. ASSUME NEW n \in NamesIn(before.list) \ Wanted
        PROVE  CrcIn(rs, n) = CrcIn(before.list, n)
    <3>1. PICK p : p = <<n, CrcIn(rs, n)>>
      OBVIOUS
    <3>2. p \in Pairs(entries) /\ p[1] = n /\ p[2] = CrcIn(rs, n)
      BY <2>1, <2>2, <3>1, EndedNames
    <3>3. PICK j \in 1..Len(before.list) :
            before.list[j].name = n /\ before.list[j].crc = CrcIn(rs, n)
      BY <2>1, <3>2 DEF Ended, RunView, AsAsked
    <3>4. /\ IsList(before.list) /\ \A i \in 1..Len(before.list) : ~before.list[i].deleted
          /\ \A i, k \in 1..Len(before.list) : before.list[i].name = before.list[k].name => i = k
      BY <1>1, <2>1 DEF ContentsInv, BeforeInv, Ended
    <3>5. Found(before.list, n) # {}
      BY <3>3, <3>4, ListDomain DEF Found
    <3>6. PICK k : k = EntryByName(before.list, n)
      OBVIOUS
    <3>7. k \in 1..Len(before.list) /\ before.list[k].name = n
      BY <3>4, <3>5, <3>6, NamedEntry DEF Found
    <3>8. k = j
      BY <3>3, <3>4, <3>7
    <3> QED BY <3>3, <3>6, <3>8 DEF CrcIn
  <2> QED BY <2>1, <2>2, <2>3
<1>2. ContentsInv /\ [Next]_vars =>
        [ (pc # "idle" /\ Reports' /\ Trusted' /\ Packaging) =>
            /\ Wanted \subseteq NamesIn(Written(file'))
            /\ \A n \in NamesIn(Written(file')) \ Wanted :
                  /\ n \in NamesIn(before.list)
                  /\ CrcIn(Written(file'), n) = CrcIn(before.list, n) ]_vars
  BY <1>1 DEF Packaged
<1> QED BY <1>2, ContentsInvariance, PTL DEF Spec, PackagesWhatWasAsked

\* A source file is then in the archive as it is, or as it was in the second to which its time
\* stamp is rounded up (FreshUnlessRounded): an entry that is kept is at least as new.
THEOREM SourcesFresh == Spec => FreshUnlessRounded
<1>1. ASSUME ContentsInv, [Next]_vars, Packaged, NEW i \in DOMAIN outputs,
             outputs[i].kind = "source", OneSource(outputs[i])
      PROVE  LET s == outputs[i].src
                 c == CrcIn(Written(file'), outputs[i].name)
             IN  c = Content(s) \/ src[s].mod - madeAt[c] <= 1
  <2>1. PICK rs : rs = Written(file') /\ Ended(rs)
    BY <1>1, EndOfRun
  <2>2. DOMAIN outputs = 1..Len(outputs)
    BY <1>1 DEF ContentsInv, WriterInv, SourceInv
  <2>3. PICK o : o = outputs[i]
    OBVIOUS
  <2>4. Fresh1(o)
    BY <2>1, <2>2, <2>3 DEF Ended, RunView, FreshInv
  <2>5. o.name \in NamesIn(rs)
    <3>1. o.name \in Wanted
      BY <1>1, <2>3 DEF Wanted
    <3> QED BY <2>1, <3>1, EndedNames DEF Ended, RunView, AsAsked
  <2>6. PICK p : p = <<o.name, CrcIn(rs, o.name)>>
    OBVIOUS
  <2>7. p \in Pairs(entries) /\ p[1] = o.name /\ p[2] = CrcIn(rs, o.name)
    BY <2>1, <2>5, <2>6, EndedNames
  <2>8. FreshCrc(CrcIn(rs, o.name), o.src)
    BY <1>1, <2>3, <2>4, <2>7 DEF Fresh1
  <2> QED BY <2>1, <2>3, <2>8 DEF FreshCrc
<1>2. ContentsInv /\ [Next]_vars =>
        [ (pc # "idle" /\ Reports' /\ Trusted' /\ Packaging) =>
            \A i \in DOMAIN outputs :
              outputs[i].kind = "source" /\ OneSource(outputs[i]) =>
                LET s == outputs[i].src
                    c == CrcIn(Written(file'), outputs[i].name)
                IN  c = Content(s) \/ src[s].mod - madeAt[c] <= 1 ]_vars
  BY <1>1 DEF Packaged
<1> QED BY <1>2, ContentsInvariance, PTL DEF Spec, FreshUnlessRounded
=============================================================================
