---------------------------- MODULE MCDlWrapper ----------------------------
(***************************************************************************)
(* Two contents, of which the hash file accepts one; a file without hashes *)
(* and a hash file that does not list the download.                        *)
(***************************************************************************)
EXTENDS DlWrapper, TLC

Line(t, h, f) == [t |-> t, h |-> h, f |-> f]

MCName == {"src.tar", "other.tar"}
MCContent == {"good", "bad"}
Listed == HashFileOf(<<Line("none", "good", "other.tar"),
                       Line("digest", "good", "src.tar")>>, TRUE)
Unlisting == HashFileOf(<<Line("digest", "good", "other.tar")>>, TRUE)
MCHashFiles == {NoOption, Listed, Unlisting}
MCListedOnly == {NoOption, Listed}

Invocations == Permutations(Proc)
============================================================================
