------------------------------- MODULE ApkWriter -------------------------------
(***************************************************************************)
(* The commands of caapt that write an archive, on top of ZipArchive:      *)
(* writeAPK of Package.cpp, and doAdd and doRemove of Command.cpp.  A      *)
(* process runs one command and can be killed anywhere; sources are edited *)
(* between processes, and the next one finds what the last one left.       *)
(***************************************************************************)
EXTENDS ZipArchive, FiniteSets

CONSTANTS
    OutputSets,  \* the output sets a build may produce, in the order of their paths
    JarLists,    \* the class files of the jars given with -j
    FileSpecs,   \* the arguments of add and remove
    MaxEdits,    \* bound on the edits of a source
    MaxClock,    \* bound on the clock, in seconds
    MaxRuns      \* bound on the processes

Output == [name : STRING, src : Names, kind : {"source", "data", "excluded", "class"},
           method : {"deflated", "stored", "gzip"}]

ASSUME WriterAssumption ==
    /\ MaxEdits \in Nat
    /\ \A s \in Names, v \in 0..MaxEdits : <<s, v>> \in Contents
    /\ OutputSets \cup JarLists \cup FileSpecs \subseteq Seq(Output)
    /\ \A q \in FileSpecs : \A i \in DOMAIN q : q[i].kind = "source"

VARIABLES
    src,      \* source -> the version it has and its modification time
    clock,
    runs,
    pc,       \* where the command is
    command,  \* "update", "force", "plain" of package, "add", "remove"
    outputs,  \* the output set, jar entries behind it
    todo,     \* what of it is still to be done
    result,   \* what the command returned last
    before,   \* history: the archive as the command found it, and whether it was sound
    madeAt    \* history: the time at which a content was written

vars == <<zipVars, src, clock, runs, pc, command, outputs, todo, result, before, madeAt>>

Sources == DOMAIN src
Content(s) == <<s, src[s].ver>>
Packaging == command \in {"update", "force", "plain"}
NoClasses == \A i \in DOMAIN outputs : outputs[i].kind # "class"

Init ==
    /\ ZipInit
    /\ src = [s \in Names |-> [ver |-> 0, mod |-> 1]] /\ clock = 1 /\ runs = 0
    /\ pc = "idle" /\ command = "plain" /\ outputs = << >> /\ todo = << >> /\ result = "ok"
    /\ before = [list |-> << >>, sound |-> TRUE, opened |-> FALSE]
    /\ madeAt = [c \in Contents |-> 1]

-----------------------------------------------------------------------------
(* The world around the process. *)

\* A source is written again, now or later.
Edit(s, t) ==
    /\ pc = "idle" /\ src[s].ver < MaxEdits /\ t >= clock
    /\ clock' = t /\ src' = [src EXCEPT ![s] = [ver |-> @.ver + 1, mod |-> t]]
    /\ madeAt' = [madeAt EXCEPT ![<<s, src[s].ver + 1>>] = t]
    /\ UNCHANGED <<zipVars, runs, pc, command, outputs, todo, result, before>>

Kill ==
    /\ pc # "idle" /\ pc' = "idle" /\ result' = "killed" /\ ZipKilled
    /\ UNCHANGED <<src, clock, runs, command, outputs, todo, before, madeAt>>

-----------------------------------------------------------------------------
(* writeAPK, doAdd and doRemove up to the open archive. *)

\* A sound archive: every entry whole, once, and in the order of the directory, with the EOCD
\* at the end of the file.
Sound(f) ==
    /\ AllWhole(f)
    /\ LET es == ReadCentralDir(f)
           e == ReadEocd(f)
       IN  /\ \A i, j \in DOMAIN es : es[i].name = es[j].name => i = j
           /\ e.num \in Nat /\ e.off \in Nat /\ InOrder(es, e.off)
           /\ f = [i \in 1..(e.off + e.num + 1) |-> f[i]]

\* A file that is there fails a plain package without a word to the caller: the result is
\* still NO_ERROR.  With -f it is removed first.  remove does not create an archive.
Begin(cmd, outs) ==
    /\ pc = "idle" /\ runs < MaxRuns /\ runs' = runs + 1
    /\ command' = cmd /\ outputs' = outs /\ todo' = outs
    /\ LET f == IF cmd = "force" THEN NoFile ELSE file
           refused == \/ cmd = "plain" /\ file # NoFile
                      \/ cmd = "remove" /\ file = NoFile
           opened == ~refused /\ (f = NoFile \/ Readable(f))
       IN  /\ before' = [list |-> IF opened /\ f # NoFile THEN ReadCentralDir(f) ELSE << >>,
                         sound |-> f = NoFile \/ Sound(f), opened |-> opened]
           /\ IF refused
              THEN /\ pc' = "idle" /\ UNCHANGED zipVars
                   /\ result' = IF cmd = "remove" THEN "error" ELSE "ok"
              ELSE /\ Open(f) /\ unreported' = unreported
                   /\ pc' = IF opened THEN "files" ELSE "close"
                   /\ result' = IF opened \/ cmd \in {"update", "force", "plain"}
                                THEN "ok" ELSE "error"
    /\ UNCHANGED <<src, clock, madeAt>>

Goes(next) ==
    /\ pc' = next
    /\ UNCHANGED <<src, clock, runs, command, outputs, before, madeAt>>
Done(next) == todo' = Tail(todo) /\ UNCHANGED result /\ Goes(next)
SetMarked(es, i) == [es EXCEPT ![i].marked = TRUE]
Touch(es) ==
    /\ entries' = es
    /\ UNCHANGED <<file, eocd, needRewrite, op, cur, status>> /\ NoIOError

\* Mutant: the entry is stamped with the time of the packaging.
AddOutput_Now(es, o) ==
    /\ \/ AddBegin(es, o.name, Content(o.src), o.method, clock)
       \/ AddRefused(es, o.name)
    /\ UNCHANGED <<todo, result>> /\ Goes("added")

\* addCommon stamps a source with its own time, and data in memory with that of the archive
\* file, which was last written at some time up to now.
Stamps(o) == IF o.kind = "source" THEN {src[o.src].mod} ELSE 1..clock

\* zip->add of an output, with the entries left after a removal.
AddOutput(es, o) ==
    /\ \/ \E when \in Stamps(o) : AddBegin(es, o.name, Content(o.src), o.method, when)
       \/ AddRefused(es, o.name)
    /\ UNCHANGED <<todo, result>> /\ Goes("added")

\* Mutant: a failed add is passed over.
Added_Ignored ==
    /\ pc = "added" /\ op = "ready" /\ Packaging
    /\ Touch(IF status = "ok" THEN SetMarked(entries, Len(entries)) ELSE entries) /\ Done("files")

(* processFile, one output of the set. *)
ProcessFile ==
    /\ pc = "files" /\ op = "ready" /\ Packaging /\ todo # << >> /\ Head(todo).kind # "class"
    /\ LET o == Head(todo)
           i == EntryByName(entries, o.name)
           there == command = "update" /\ Found(entries, o.name) # {}
           fails == /\ todo' = << >> /\ result' = "error" /\ Goes("close")
                    /\ UNCHANGED <<file, entries, eocd, needRewrite, op, cur, status>>
       IN  \/ CASE o.kind = "excluded" -> Touch(entries) /\ Done("files")
                [] o.kind # "excluded" /\ there /\ entries[i].marked -> fails /\ NoIOError
                [] o.kind = "source" /\ there /\ ~entries[i].marked
                                     /\ src[o.src].mod <= entries[i].mod ->
                     Touch(SetMarked(entries, i)) /\ Done("files")
                [] o.kind \in {"source", "data"} /\ there /\ ~entries[i].marked
                     /\ (o.kind = "data" \/ src[o.src].mod > entries[i].mod) ->
                     AddOutput(SetDeleted(entries, i), o)
                [] OTHER -> AddOutput(entries, o)
           \/ /\ o.kind = "source" /\ there /\ ~entries[i].marked  \* getFileModDate fails
              /\ fails /\ Reported

Added ==
    /\ pc = "added" /\ op = "ready" /\ Packaging
    /\ IF status = "ok"
       THEN Touch(SetMarked(entries, Len(entries))) /\ Done("files")
       ELSE /\ todo' = << >> /\ result' = "error" /\ Goes("close")
            /\ UNCHANGED zipVars

(* processJarFile, one class: what add returns is not looked at. *)
ProcessClass ==
    /\ pc = "files" /\ op = "ready" /\ Packaging /\ todo # << >> /\ Head(todo).kind = "class"
    /\ LET o == Head(todo)
       IN  \/ /\ \E when \in Stamps(o) :
                    AddBegin(entries, o.name, Content(o.src), o.method, when)
              /\ Done("files")
           \/ /\ Found(entries, o.name) # {} /\ AddRefused(entries, o.name)
              /\ Done("files")
           \/ /\ todo' = << >> /\ result' = "error" /\ Goes("close")  \* uncompress fails
              /\ Reported /\ UNCHANGED <<file, entries, eocd, needRewrite, op, cur, status>>

\* The search for cruft takes entries that are already deleted, so it removes nothing new.
CruftAndFlush ==
    /\ pc = "files" /\ op = "ready" /\ Packaging /\ todo = << >>
    /\ IF needRewrite THEN FlushBegin
       ELSE status' = "ok" /\ UNCHANGED <<file, entries, eocd, needRewrite, op, cur>> /\ NoIOError
    /\ UNCHANGED <<todo, result>> /\ Goes("flushed")

Flushed ==
    /\ pc = "flushed" /\ op = "ready"
    /\ result' = IF status = "ok" THEN "ok" ELSE "error"
    /\ IF status = "ok" /\ entries = << >>
       THEN file' = NoFile /\ Close /\ UNCHANGED status /\ Goes("idle")
       ELSE UNCHANGED zipVars /\ Goes("close")
    /\ UNCHANGED todo

-----------------------------------------------------------------------------
(* doAdd and doRemove. *)

AddSpec ==
    /\ pc = "files" /\ op = "ready" /\ command = "add" /\ todo # << >>
    /\ LET o == Head(todo)
       IN  \/ AddBegin(entries, o.name, Content(o.src), o.method, src[o.src].mod)
           \/ AddRefused(entries, o.name)
    /\ UNCHANGED <<todo, result>> /\ Goes("specAdded")

SpecAdded ==
    /\ pc = "specAdded" /\ op = "ready" /\ UNCHANGED zipVars
    /\ IF status = "ok" THEN Done("files")
       ELSE todo' = << >> /\ result' = "error" /\ Goes("close")

\* Starts from an error that only a removal clears.
RemoveSpecs ==
    /\ pc = "files" /\ op = "ready" /\ command = "remove"
    /\ LET gone == {todo[i].name : i \in DOMAIN todo}
           last == {i \in DOMAIN entries : /\ entries[i].name \in gone
                                           /\ i = EntryByName(entries, entries[i].name)}
       IN  /\ entries' = [i \in DOMAIN entries |->
                            IF i \in last THEN [entries[i] EXCEPT !.deleted = TRUE]
                            ELSE entries[i]]
           /\ needRewrite' = (needRewrite \/ last # {})
           /\ result' = IF last = {} THEN "error" ELSE "ok"
    /\ todo' = << >> /\ UNCHANGED <<file, eocd, op, cur, status>> /\ NoIOError
    /\ Goes("removed")

\* Nobody looks at what this flush returns.
RemoveFlush ==
    /\ pc = "removed" /\ op = "ready" /\ UNCHANGED <<todo, result>> /\ Goes("close")
    /\ IF needRewrite THEN FlushBegin ELSE UNCHANGED zipVars

SpecsDone ==
    /\ pc = "files" /\ op = "ready" /\ command = "add" /\ todo = << >>
    /\ UNCHANGED <<zipVars, todo, result>> /\ Goes("close")

-----------------------------------------------------------------------------
(* bail: delete zip, whose destructor flushes and drops the result. *)

DestructorFlush ==
    /\ pc = "close" /\ op = "ready" /\ FlushBegin
    /\ UNCHANGED <<todo, result>> /\ Goes("closing")

\* writeAPK removes the archive of a failed run, the updated one included.
Bail ==
    /\ \/ pc = "close" /\ ~needRewrite
       \/ pc = "closing"
    /\ op = "ready"
    /\ file' = IF Packaging /\ result # "ok" THEN NoFile ELSE file
    /\ Close /\ UNCHANGED <<status, todo, result>> /\ Goes("idle")

ZipSteps ==
    /\ ZipStep
    /\ UNCHANGED <<src, clock, runs, pc, command, outputs, todo, result, before, madeAt>>

Next ==
    \/ \E s \in Names, t \in 1..MaxClock : Edit(s, t)
    \/ Kill
    \/ \E cmd \in {"update", "force", "plain"}, outs \in OutputSets, jars \in JarLists :
          Begin(cmd, outs \o jars)
    \/ \E cmd \in {"add", "remove"}, outs \in FileSpecs : Begin(cmd, outs)
    \/ ProcessFile \/ Added \/ ProcessClass \/ CruftAndFlush \/ Flushed
    \/ AddSpec \/ SpecAdded \/ RemoveSpecs \/ RemoveFlush \/ SpecsDone
    \/ DestructorFlush \/ Bail \/ ZipSteps

Spec == Init /\ [][Next]_vars
-----------------------------------------------------------------------------
(* Properties. *)

\* Types, and the in-memory end of directory counts the list of entries where the next addCommon
\* asserts it (ZipFile.cpp:377).  Not so after an I/O error of an add that processJarFile passed
\* over: the next class reaches the assertion with a count that is off, and the process dies.
BeforeAdd == pc = "files" \/ (pc \in {"added", "specAdded"} /\ status = "ok")
TypeOK ==
    /\ file = NoFile \/ \A i \in DOMAIN file : file[i][1] \in {"lfh", "data", "cde", "eocd"}
    /\ \A i \in DOMAIN entries : entries[i].off \in Nat /\ entries[i].name \in STRING
    /\ status \in {"ok", "error", "exists"} /\ result \in {"ok", "error", "killed"}
    /\ op = "ready" /\ BeforeAdd /\ (faults = 0 \/ NoClasses) => Counted(entries)

\* There can be only one (Package.cpp, processFile): no two live entries of an open archive have
\* the same name, whatever was updated, added, removed or met twice.  (A process that dies in a
\* flush can leave an archive that names an entry twice.)
NamesUnique ==
    op = "ready" /\ before.sound =>
        \A i, j \in DOMAIN entries :
            i # j /\ entries[i].name = entries[j].name => entries[i].deleted \/ entries[j].deleted

\* A command that started from a sound archive, or none, and reports success leaves an archive
\* that reads back whole, or none: every header where the central directory says, every content
\* complete, whatever was overwritten, crunched or given up on the way.  Not so after an I/O error
\* that is dropped: by ZipFile (unreported), or by a command that does not look at what add and
\* flush return, as doRemove, doAdd's destructor and processJarFile do.
Reports == pc = "idle" /\ result = "ok" /\ before.opened
Listens == Packaging /\ NoClasses
Trusted == before.sound /\ ~unreported /\ (faults = 0 \/ Listens)
SuccessIsSound == Reports /\ Trusted => file = NoFile \/ Sound(file)

\* What a package run writes, seen from outside: when it reports success the archive has every
\* output of this run, and nothing else but, in an update, entries that were there before, with
\* the content they had.  (Which of those an update should have removed is the next property.)
NamesIn(es) == {es[i].name : i \in DOMAIN es}
CrcIn(es, name) == es[EntryByName(es, name)].crc
Wanted == {outputs[i].name : i \in {j \in DOMAIN outputs : outputs[j].kind # "excluded"}}
Written(f) == IF f = NoFile THEN << >> ELSE ReadCentralDir(f)
PackagesWhatWasAsked ==
    [][ (pc # "idle" /\ Reports' /\ Trusted' /\ Packaging) =>
          /\ Wanted \subseteq NamesIn(Written(file'))
          /\ \A n \in NamesIn(Written(file')) \ Wanted :
                /\ n \in NamesIn(before.list)
                /\ CrcIn(Written(file'), n) = CrcIn(before.list, n) ]_vars

\* "-u update existing packages (add new, replace older, remove deleted files)" (Main.cpp:116),
\* and "if the entry isn't already slated for deletion, remove it now" (Package.cpp:139): after
\* an update the archive has nothing that is no output of it.  The search for cruft takes only
\* entries that are slated for deletion, and the files that were deleted stay.
UpdateRemovesDeleted ==
    [][ (pc # "idle" /\ Reports' /\ Trusted' /\ command = "update") =>
          NamesIn(Written(file')) \subseteq Wanted ]_vars

\* A name that is always made of one source.  A build may give it another one (another asset
\* directory, a file that is compiled from then on).
AllOutputs == UNION {Range(q) : q \in OutputSets \cup JarLists \cup FileSpecs}
OneSource(o) ==
    \A p \in AllOutputs :
        p.name = o.name /\ p.kind # "excluded" => p.kind = o.kind /\ p.src = o.src

\* After a successful package run a source file is in the archive with its current content, or
\* was edited within the second to which the time stamp of the entry was rounded up.  Not so if
\* the name had another source before: an update compares time stamps and nothing else.
FreshUnlessRounded ==
    [][ (pc # "idle" /\ Reports' /\ Trusted' /\ Packaging) =>
          \A i \in DOMAIN outputs :
            outputs[i].kind = "source" /\ OneSource(outputs[i]) =>
              LET s == outputs[i].src
                  c == CrcIn(Written(file'), outputs[i].name)
              IN  c = Content(s) \/ src[s].mod - madeAt[c] <= 1 ]_vars
=============================================================================
