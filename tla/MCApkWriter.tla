---------------------------- MODULE MCApkWriter ----------------------------
(* Small instances of ApkWriter for TLC. *)
EXTENDS ApkWriter


Src(name) == [name |-> name, src |-> name, kind |-> "source", method |-> "deflated"]
Data(name) == [name |-> name, src |-> name, kind |-> "data", method |-> "stored"]
Gz(name) == [name |-> name, src |-> name, kind |-> "source", method |-> "gzip"]
Excluded(name) == [name |-> name, src |-> name, kind |-> "excluded", method |-> "stored"]
Class(name, s) == [name |-> name, src |-> s, kind |-> "class", method |-> "deflated"]

MCNames == {"a", "m"}
MCContents == MCNames \X (0..MaxEdits)
\* The first version of one source deflates well and its second one grows; the other shrinks.
MCRawLen == [c \in MCContents |-> CASE c = <<"a", 0>> -> 2 [] c = <<"m", 0>> -> 3 [] OTHER -> 1]
MCPackedLen == [c \in MCContents |-> IF c = <<"a", 1>> THEN 2 ELSE 1]
MCOutputSets == {<<Src("a"), Data("m")>>, <<Data("m")>>, <<Src("a"), Gz("a")>>,
                 <<Excluded("a")>>, <<Src("m")>>}
MCJarLists == {<< >>, <<Class("k", "a"), Class("k", "a")>>}
MCFileSpecs == {<<Src("a")>>, <<Gz("a")>>, <<Src("m"), Src("a")>>}
=============================================================================
