--------------------------- MODULE MCPkgDownload ---------------------------
(***************************************************************************)
(* Every site configuration, with hash files that list the file, do not    *)
(* list it, or do not exist.                                               *)
(***************************************************************************)
EXTENDS PkgDownload, TLC

Line(t, h, f) == [t |-> t, h |-> h, f |-> f]

MCName == {"src.tar", "other.tar"}
MCContent == {"good", "bad", "mirror"}
Listed == HashFileOf(<<Line("digest", "good", "src.tar")>>, TRUE)
Unlisting == HashFileOf(<<Line("digest", "good", "other.tar")>>, TRUE)
MCHashFiles == {NoOption, NoFile, Listed, Unlisting}
MCPkgHashes == {NoFile, Listed, Unlisting}
MCStaleBad == {"bad"}

\* The primary site is out of date and the backup has the right file.
MCServed == [primary |-> {"bad", "mirror"}, upstream |-> {"good", "bad"},
             backup |-> {"good"}]
============================================================================
