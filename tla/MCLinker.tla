------------------------------ MODULE MCLinker ------------------------------
(***************************************************************************)
(* Instances of Linker for TLC.  Three symbols and up to four candidates,  *)
(* the first of which is the compiled source file: it defines the entry    *)
(* function "main".                                                        *)
(***************************************************************************)
EXTENDS Linker

MCSymbols == {"main", "a", "b"}
MCEntry == {"main"}

Row(codes) == [MCSymbols -> codes]

SourceRows(codes) == {r \in Row(codes) : r["main"] = "T"}
LibraryRows(codes) == {r \in Row(codes) : r["main"] = "-"}

(* The source file first, then the libraries: the order the build uses.    *)
MCFiles == <<"src", "lib1", "lib2", "lib3">>

(* The first library has symbols of every type code; in the other two a    *)
(* symbol is absent, referred to or defined.                               *)
MCTables ==
    {t \in [Files -> SourceRows({"-", "U", "T"}) \cup LibraryRows(Codes)] :
        /\ t["src"] \in SourceRows({"-", "U", "T"})
        /\ t["lib1"] \in LibraryRows(Codes)
        /\ t["lib2"] \in LibraryRows({"-", "U", "T"})
        /\ t["lib3"] \in LibraryRows({"-", "U", "T"})}
=============================================================================
