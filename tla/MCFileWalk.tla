----------------------------- MODULE MCFileWalk -----------------------------
(***************************************************************************)
(* A small file system for FileWalk, written as path: entries.             *)
(*   /   : a, b, s (a socket)                                              *)
(*   a   : d, f (a regular file)                                           *)
(*   b   : long (path over PATH_MAX), edge (path of exactly PATH_MAX),     *)
(*         u (an entry whose type the file system does not report)         *)
(*   d   : g (a regular file)                                              *)
(***************************************************************************)
EXTENDS FileWalk

MCNode == {"/", "a", "b", "s", "d", "f", "g", "long", "edge", "u"}
MCParent == [n \in MCNode \ {"/"} |->
               CASE n \in {"a", "b", "s"}         -> "/"
                 [] n \in {"d", "f"}              -> "a"
                 [] n \in {"long", "edge", "u"}   -> "b"
                 [] n = "g"                       -> "d"]
MCDType == [n \in MCNode |->
              CASE n = "s"          -> "DT_OTHER"
                [] n \in {"f", "g"} -> "DT_REG"
                [] n = "u"          -> "DT_UNKNOWN"
                [] OTHER            -> "DT_DIR"]
MCPathMax == 3
MCPathLen == [n \in MCNode |->
                CASE n = "long" -> MCPathMax + 1
                  [] n = "edge" -> MCPathMax
                  [] OTHER      -> 1]

=============================================================================
