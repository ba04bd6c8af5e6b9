---------------------------- MODULE MCFileServer ----------------------------
(***************************************************************************)
(* Instances of FileServer for TLC: what is served and what clients send.  *)
(***************************************************************************)
EXTENDS FileServer

CONSTANTS small, other, large   \* two small files and a large one

SmallLarge == {small, large}

\* One request, and two in one segment: one for the large file and one for the
\* empty name.
SingleOrTwo == {<<small, NL>>, <<large, NL, NL>>}

TwoSmall == {small, other}

\* Requests for two files that compete for the cache, the second with one for the
\* empty name behind it, and a line that overflows the buffer.
RequestsOrOverlong == {<<small, NL>>, <<other, NL, NL>>, <<small, small, small, small>>}

\* Connections are interchangeable in safety properties.
Interchangeable == Permutations(Conns)
=============================================================================
