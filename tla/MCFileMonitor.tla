---------------------------- MODULE MCFileMonitor ----------------------------
(***************************************************************************)
(* FileMonitor for TLC: two documents of two chunks that make maps, and    *)
(* one that does not.  A mixture of the first two makes a map as well, as  *)
(* when only a value differs: a reading that overlaps a rewriting in place *)
(* can adopt it.                                                           *)
(***************************************************************************)
EXTENDS FileMonitor

CONSTANTS a1, a2, b1, b2

MCChunk == {a1, a2, b1, b2}
MCDocs == {<<a1, a2>>, <<b1, b2>>, <<b2>>}
MCParsable == {<<a1, a2>>, <<b1, b2>>, <<b1, a2>>}

=============================================================================
