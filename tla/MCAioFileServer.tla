--------------------------- MODULE MCAioFileServer ---------------------------
(***************************************************************************)
(* Instances of AioFileServer for TLC: what clients may send.              *)
(***************************************************************************)
EXTENDS AioFileServer

CONSTANTS small, large   \* a small file and a large one

\* One small file.
OneFile == {small}
OneRequest == {<<small, NL>>}

\* One small and one large file.
SmallLarge == {small, large}
SmallLargeRequests == {<<small, NL>>, <<large, NL>>}

\* A request, the parts of another (a lone newline is an empty name), and a line
\* that overflows the buffer.
LinesAndParts == {<<small, NL>>, <<large>>, <<NL>>}
RequestOrOverlong == {<<small, NL>>, <<small, small, small, small>>}

\* Connections and buffers are interchangeable in safety properties.
Interchangeable == Permutations(Conns) \cup Permutations(BufIds)
==============================================================================
