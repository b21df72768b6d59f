------------------------------ MODULE MCConfig ------------------------------
(***************************************************************************)
(* Contents that raise and lower the same items, give an item twice, give  *)
(* a 0 that the start refuses and the poll takes, words for numbers, and   *)
(* names of files that exist or not; and the empty file, as while it is    *)
(* written.                                                                *)
(***************************************************************************)
EXTENDS Config

CONSTANTS Word, NoFile

Line(k, v) == [key |-> k, value |-> v]

MCContents == {
    <<>>,
    <<Line("file_size", 2), Line("cmp_cnt", 1), Line("sock_file", Word)>>,
    <<Line("file_size", 1), Line("log_level", 1), Line("log_path", Word)>>,
    <<Line("cmp_cnt", 2), Line("file_size", 0), Line("log_level", 0), Line("sock_file", NoFile)>>,
    <<Line("log_level", 2), Line("log_level", Word), Line("file_size", 1), Line("file_size", 3), Line("port", 1)>>}

MCValue == 0 .. 3 \union {Word, NoFile}

MCDefault == [k \in Item |->
    CASE k = "file_size" -> 10 [] k = "cmp_cnt" -> 3 [] k = "log_level" -> 0 [] k = "port" -> 0
      [] OTHER -> None]
=============================================================================
