------------------------------ MODULE ZipArchive ------------------------------
(***************************************************************************)
(* The archive of caapt: ZipFile.cpp and ZipEntry.cpp.  ZipFile edits an   *)
(* archive in place: a new entry overwrites the central directory, removed *)
(* entries are only marked, and flush shifts the entries down and writes a *)
(* new central directory.  The file is a sequence of cells: a local file   *)
(* header, a piece of data, a central directory entry (CDE) or the end of  *)
(* the central directory (EOCD).  Offsets count cells from zero.           *)
(***************************************************************************)
EXTENDS Integers, Sequences, SequencesExt

CONSTANTS
    Names,       \* names of entries
    Contents,    \* contents of source files
    RawLen,      \* content -> cells it takes when stored
    PackedLen,   \* content -> cells it takes when deflated
    NoFile,      \* there is no archive
    Garbage,     \* a checksum that was never computed
    Fresh,       \* the fields of a header before the data are known
    MaxFaults    \* bound on the I/O errors of a behaviour

\* What a cell is made of: its kind, a name, a method, a number, a checksum.
Field == {"lfh", "data", "cde", "eocd"} \cup {"stored", "deflated"} \cup STRING \cup Nat
            \cup Contents \cup {Garbage, Fresh}

ASSUME ArchiveAssumption ==
    /\ RawLen \in [Contents -> Nat] /\ PackedLen \in [Contents -> Nat]
    /\ NoFile \notin Seq(Seq(Field)) /\ Garbage \notin Contents
    /\ MaxFaults \in Nat

VARIABLES
    file,         \* the cells on disk, or NoFile
    entries,      \* mEntries
    eocd,         \* mEOCD: the number of entries and mCentralDirOffset
    needRewrite,  \* mNeedCDRewrite
    op,           \* the method of ZipFile under way
    cur,          \* the entry being added, or the crunch under way
    status,       \* what the last method returned
    faults,       \* I/O errors so far
    unreported    \* history: an I/O error that no method returned

zipVars == <<file, entries, eocd, needRewrite, op, cur, status, faults, unreported>>

None == [name |-> "none"]

\* What is written about an entry: setDataInfo fills the CDE, copyCDEtoLFH the local header.
Cde(e) == <<"cde", e.name, e.off, e.method, e.crc, e.len, e.mod>>
Lfh(e) == <<"lfh", e.name, e.method, e.crc, e.len>>
Blank(name) == <<"lfh", name, "stored", Fresh, 0>>
Pieces(v, method, n) == [i \in 1..n |-> <<"data", v, method, i>>]

FromCde(c) == [name |-> c[2], off |-> c[3], method |-> c[4], crc |-> c[5], len |-> c[6],
               mod |-> c[7], deleted |-> FALSE, marked |-> FALSE]

\* The file after cells are written at an offset of at most its length.
WriteAt(f, off, cells) ==
    SubSeq(f, 1, off) \o cells \o SubSeq(f, off + Len(cells) + 1, Len(f))

\* setModWhen: a DOS time stamp has even seconds, odd ones are rounded up.
DosTime(t) == t + (t % 2)

\* addCommon keeps the deflated form only when it saves about a tenth.
Enough(dst, src) == dst + dst \div 10 <= src

\* What readCentralDir and initFromCDE make of a file: an EOCD, as many CDEs as it says that
\* point at local headers, and an EOCD right behind them.  Headers that differ are a warning.
Eocds(f) == {i \in DOMAIN f : f[i][1] = "eocd"}
LastEocd(f) == f[CHOOSE i \in Eocds(f) : \A j \in Eocds(f) : j <= i]
InitFromCDE(f, i) ==
    /\ i \in DOMAIN f /\ f[i][1] = "cde"
    /\ f[i][3] + 1 \in DOMAIN f /\ f[f[i][3] + 1][1] = "lfh"
ReadEocd(f) == [num |-> LastEocd(f)[2], off |-> LastEocd(f)[3]]
ReadCentralDir(f) ==
    LET e == ReadEocd(f)
    IN  [i \in 1..e.num |-> FromCde(f[e.off + i])]
Readable(f) ==
    /\ f # NoFile /\ Eocds(f) # {}
    /\ LET e == ReadEocd(f)
       IN  /\ \A i \in 1..e.num : InitFromCDE(f, e.off + i)
           /\ e.off + e.num + 1 \in Eocds(f)

\* getEntryByName: the last entry of that name that is not pending deletion.
Found(es, name) == {i \in DOMAIN es : es[i].name = name /\ ~es[i].deleted}
EntryByName(es, name) == CHOOSE i \in Found(es, name) : \A j \in Found(es, name) : j <= i

ZipInit ==
    /\ file = NoFile
    /\ entries = << >> /\ eocd = [num |-> 0, off |-> 0] /\ needRewrite = FALSE
    /\ op = "closed" /\ cur = None /\ status = "ok"
    /\ faults = 0 /\ unreported = FALSE

IOError == faults < MaxFaults /\ faults' = faults + 1
NoIOError == UNCHANGED <<faults, unreported>>
Reported == IOError /\ UNCHANGED unreported
Unreported == IOError /\ unreported' = TRUE

(* open(kOpenReadWrite | kOpenCreate) *)
Open(f) ==
    /\ op = "closed"
    /\ entries' = IF Readable(f) THEN ReadCentralDir(f) ELSE << >>
    /\ eocd' = IF Readable(f) THEN ReadEocd(f) ELSE [num |-> 0, off |-> 0]
    /\ file' = IF f = NoFile THEN << >> ELSE f
    /\ needRewrite' = (f = NoFile)
    /\ status' = IF f = NoFile \/ Readable(f) THEN "ok" ELSE "error"
    /\ op' = "ready" /\ cur' = None /\ NoIOError

\* The destructor, behind its flush: fclose, discardEntries.
Close ==
    /\ entries' = << >> /\ eocd' = [num |-> 0, off |-> 0] /\ needRewrite' = FALSE
    /\ op' = "closed" /\ cur' = None /\ NoIOError

-----------------------------------------------------------------------------
(* addCommon *)

\* es: mEntries after what the caller removed just before.
\* addCommon asserts that they are as many as the EOCD counts; the process dies if not.
Counted(es) == Len(es) = eocd.num

\* The name is taken, or the source cannot be opened: the file is not touched.
AddRefused(es, name) ==
    /\ op = "ready" /\ Counted(es) /\ entries' = es
    /\ \/ Found(es, name) # {} /\ status' = "exists" /\ NoIOError
       \/ Found(es, name) = {} /\ status' = "error" /\ Reported
    /\ needRewrite' = (needRewrite \/ es # entries)
    /\ UNCHANGED <<file, eocd, op, cur>>

\* Mutant: nobody looks whether the name is taken.
AddBegin_NoCheck(es, name, v, method, when) ==
    /\ op = "ready" /\ Counted(es) /\ entries' = es
    /\ needRewrite' = TRUE /\ op' = "adding" /\ UNCHANGED <<eocd, status>>
    /\ file' = WriteAt(file, eocd.off, <<Blank(name)>>) /\ NoIOError
    /\ cur' = [name |-> name, v |-> v, method |-> method, when |-> when, head |-> 1]

\* The local header goes where the central directory is.  Nobody looks at what its write
\* returns: the data may start where the header should be.
AddBegin(es, name, v, method, when) ==
    /\ op = "ready" /\ Counted(es) /\ Found(es, name) = {} /\ entries' = es
    /\ needRewrite' = TRUE /\ op' = "adding" /\ UNCHANGED <<eocd, status>>
    /\ \E head \in {0, 1} :
          /\ cur' = [name |-> name, v |-> v, method |-> method, when |-> when, head |-> head]
          /\ \/ head = 1 /\ file' = WriteAt(file, eocd.off, <<Blank(name)>>) /\ NoIOError
             \/ head = 0 /\ file' = file /\ Unreported

DataAt == eocd.off + cur.head
Deflated(n) == WriteAt(file, DataAt, Pieces(cur.v, "deflated", n))
Stored(f, n) == WriteAt(f, DataAt, Pieces(cur.v, "stored", n))

NewEntry(n, method, crc) ==
    [name |-> cur.name, off |-> eocd.off, method |-> method, crc |-> crc, len |-> n,
     mod |-> DosTime(cur.when), deleted |-> FALSE, marked |-> FALSE]

\* Mutant: the entry is not counted.
AddEntry_NotCounted(n, method, crc) ==
    /\ entries' = Append(entries, NewEntry(n, method, crc))
    /\ eocd' = [eocd EXCEPT !.off = DataAt + n]
    /\ op' = "ready" /\ cur' = None /\ status' = "ok"

AddEntry(n, method, crc) ==
    /\ entries' = Append(entries, NewEntry(n, method, crc))
    /\ eocd' = [num |-> eocd.num + 1, off |-> DataAt + n]
    /\ op' = "ready" /\ cur' = None /\ status' = "ok"

\* The data are in, n cells of them: fill the entry, rewrite its header, append it.
AddEnd(f, n, method, crc) ==
    file' = WriteAt(f, eocd.off, <<Lfh(NewEntry(n, method, crc))>>) /\ AddEntry(n, method, crc)

\* Nobody looks at what the write of the header returns.
AddBlank(f, n, method) == file' = f /\ AddEntry(n, method, cur.v) /\ Unreported

\* The seek back to the header fails: the entry is counted, and not in the list.
AddLost(f, n) ==
    /\ file' = f /\ eocd' = [num |-> eocd.num + 1, off |-> DataAt + n]
    /\ status' = "error" /\ op' = "ready" /\ cur' = None
    /\ UNCHANGED entries /\ Reported

AddFails(f) ==
    /\ file' = f /\ status' = "error" /\ op' = "ready" /\ cur' = None
    /\ UNCHANGED <<entries, eocd>> /\ Reported

AddData(f, n, method) ==
    \/ AddEnd(f, n, method, cur.v) /\ NoIOError
    \/ AddBlank(f, n, method)
    \/ AddLost(f, n)

\* copyFpToFp or copyDataToFp, over whatever a deflate attempt left.
Store(f) ==
    \/ AddData(Stored(f, RawLen[cur.v]), RawLen[cur.v], "stored")
    \/ \E n \in 0..RawLen[cur.v] : AddFails(Stored(f, n))

\* compressFpToFp: with its data out, or with a read or write error that it does not return
\* and that leaves the checksum unset.
AddDeflated ==
    /\ op = "adding" /\ cur.method = "deflated" /\ UNCHANGED needRewrite
    /\ \/ LET n == PackedLen[cur.v]
          IN  IF Enough(n, RawLen[cur.v])
              THEN AddData(Deflated(n), n, "deflated")
              ELSE Store(Deflated(n))
       \/ \E n \in 0..PackedLen[cur.v] - 1, src \in 0..RawLen[cur.v] :
             /\ Enough(n, src)
             /\ AddEnd(Deflated(n), n, "deflated", Garbage) /\ Unreported

AddStored ==
    /\ op = "adding" /\ cur.method = "stored" /\ Store(file) /\ UNCHANGED needRewrite

\* addGzip: the data come deflated, with their checksum.
AddGzip ==
    /\ op = "adding" /\ cur.method = "gzip" /\ UNCHANGED needRewrite
    /\ LET n == PackedLen[cur.v]
       IN  \/ AddData(Deflated(n), n, "deflated")
           \/ \E k \in 0..n : AddFails(Deflated(k))

\* remove: the entry is only marked.
SetDeleted(es, i) == [es EXCEPT ![i].deleted = TRUE]

-----------------------------------------------------------------------------
(* flush *)

FlushBegin ==
    /\ op = "ready" /\ needRewrite
    /\ op' = "crunch" /\ cur' = [i |-> 1, adjust |-> 0, del |-> 0]
    /\ UNCHANGED <<file, entries, eocd, needRewrite, status>> /\ NoIOError

\* crunchArchive takes an entry at offset zero for a directory, which has no bytes.  The bytes
\* of another one end where the next one with an offset begins.
Span(i) ==
    LET later == {j \in i + 1..Len(entries) : entries[j].off # 0}
        next == IF later = {} THEN eocd.off
                ELSE entries[CHOOSE j \in later : \A k \in later : j <= k].off
    IN  IF entries[i].off = 0 THEN 0 ELSE next - entries[i].off

\* It asserts that an entry at another offset has room for its header; the process dies if not.
HasRoom(i) == entries[i].off # 0 => Span(i) >= 1

\* Mutant: a moved entry keeps its offset.
CrunchMove_OffsetKept ==
    /\ op = "crunch" /\ cur.i <= Len(entries) /\ HasRoom(cur.i) /\ ~entries[cur.i].deleted
    /\ LET e == entries[cur.i]
           n == IF cur.adjust > 0 THEN Span(cur.i) ELSE 0
       IN  file' = IF n = 0 THEN file
                   ELSE WriteAt(file, e.off - cur.adjust, SubSeq(file, e.off + 1, e.off + n))
    /\ cur' = [cur EXCEPT !.i = @ + 1]
    /\ UNCHANGED <<entries, eocd, needRewrite, op, status>> /\ NoIOError

CrunchDeleted ==
    /\ op = "crunch" /\ cur.i <= Len(entries) /\ HasRoom(cur.i) /\ entries[cur.i].deleted
    /\ cur' = [cur EXCEPT !.adjust = @ + Span(cur.i), !.del = @ + 1]
    /\ entries' = RemoveAt(entries, cur.i)
    /\ UNCHANGED <<file, eocd, needRewrite, op, status>> /\ NoIOError

CrunchMove ==
    /\ op = "crunch" /\ cur.i <= Len(entries) /\ HasRoom(cur.i) /\ ~entries[cur.i].deleted
    /\ LET e == entries[cur.i]
           n == IF cur.adjust > 0 THEN Span(cur.i) ELSE 0
           Moved(k) == WriteAt(file, e.off - cur.adjust, SubSeq(file, e.off + 1, e.off + k))
       IN  \/ /\ file' = IF n = 0 THEN file ELSE Moved(n)
              /\ entries' = IF n = 0 THEN entries
                            ELSE [entries EXCEPT ![cur.i].off = @ - cur.adjust]
              /\ cur' = [cur EXCEPT !.i = @ + 1]
              /\ UNCHANGED <<op, status>> /\ NoIOError
           \/ /\ n > 0 /\ \E k \in 0..n - 1 : file' = Moved(k)
              /\ op' = "ready" /\ status' = "error" /\ cur' = None
              /\ UNCHANGED entries /\ Reported
    /\ UNCHANGED <<eocd, needRewrite>>

\* It asserts that what it counted is there: not so after a crunch that failed half way.
CrunchDone ==
    /\ op = "crunch" /\ cur.i > Len(entries) /\ eocd.num - cur.del = Len(entries)
    /\ eocd' = [num |-> eocd.num - cur.del, off |-> eocd.off - cur.adjust]
    /\ op' = "central" /\ cur' = None
    /\ UNCHANGED <<file, entries, needRewrite, status>> /\ NoIOError

\* The seek to the central directory may fail.  Nobody looks at what the CDEs' write returns.
WriteCentralDir ==
    /\ op = "central"
    /\ LET cdes == [i \in DOMAIN entries |-> Cde(entries[i])]
       IN  \/ /\ file' = WriteAt(file, eocd.off, cdes) /\ op' = "end"
              /\ UNCHANGED <<needRewrite, status>> /\ NoIOError
           \/ /\ \E k \in 0..Len(cdes) - 1 : file' = WriteAt(file, eocd.off, SubSeq(cdes, 1, k))
              /\ op' = "ready" /\ needRewrite' = FALSE /\ status' = "ok" /\ Unreported
           \/ /\ op' = "ready" /\ status' = "error" /\ Reported
              /\ UNCHANGED <<file, needRewrite>>
    /\ UNCHANGED <<entries, eocd, cur>>

\* The EOCD, and the truncation behind it.  What either returns is dropped; if an archive that
\* got shorter is not truncated its old EOCD stays behind, and that is the one a reader finds.
WriteEocd ==
    /\ op = "end"
    /\ LET at == eocd.off + Len(entries)
           f == WriteAt(file, at, <<(<<"eocd", eocd.num, eocd.off>>)>>)
       IN  \/ /\ file' = SubSeq(f, 1, at + 1) /\ NoIOError
           \/ /\ file' \in {f, SubSeq(file, 1, at)} /\ Unreported
    /\ op' = "ready" /\ needRewrite' = FALSE /\ status' = "ok"
    /\ UNCHANGED <<entries, eocd, cur>>

ZipStep ==
    \/ AddDeflated \/ AddStored \/ AddGzip
    \/ CrunchDeleted \/ CrunchMove \/ CrunchDone \/ WriteCentralDir \/ WriteEocd

\* The process dies: only the file is left.
ZipKilled == UNCHANGED <<file, status>> /\ Close

-----------------------------------------------------------------------------
\* What a reader gets out of a file: name and content of every entry whose header and data are
\* as its CDE says.
HeadersAgree(f, e) == f[e.off + 1] = Lfh(e)
Whole(f, e) ==
    /\ HeadersAgree(f, e)
    /\ \A i \in 1..e.len : f[e.off + 1 + i] = <<"data", e.crc, e.method, i>>
    /\ e.crc \in Contents
    /\ e.len = IF e.method = "stored" THEN RawLen[e.crc] ELSE PackedLen[e.crc]

\* What crunchArchive takes for granted when it shifts entries down: each ends before the next
\* ones begin, and before the central directory.
Border(es, end, i) == IF i = Len(es) + 1 THEN end ELSE es[i].off
InOrder(es, end) ==
    \A i \in DOMAIN es :
        /\ es[i].off \in Nat /\ es[i].len \in Nat
        /\ \A j \in i + 1..Len(es) + 1 : es[i].off + es[i].len < Border(es, end, j)

AllWhole(f) == Readable(f) /\ \A i \in DOMAIN ReadCentralDir(f) : Whole(f, ReadCentralDir(f)[i])
=============================================================================
