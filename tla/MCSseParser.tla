---------------------------- MODULE MCSseParser ----------------------------
(* Answers made of a few lines, cut into chunks in every way.              *)
EXTENDS SseParser

CONSTANT MaxLines

\* Pieces that follow each other on a line or end one: events with usage, with
\* both line ends, blank lines, an unfinished line, other fields and data, a value that is
\* no object, an irregular line end and undecodable bytes.
Lines ==
    {<<"data:", u, LF>> : u \in Usages} \cup
    {<<"data:", "u1", CR, LF>>, <<LF>>, <<CR, LF>>, <<CR>>, <<"data:", "u2">>,
     <<"word", LF>>, <<"data:", "word", LF>>, <<"data:", "list", LF>>, <<"half">>}

SmallStreams == UNION {{FlattenSeq(lines) : lines \in [1 .. k -> Lines]} : k \in 1 .. MaxLines}
=============================================================================
