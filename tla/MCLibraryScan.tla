--------------------------- MODULE MCLibraryScan ---------------------------
(* Small libraries for the scan pipeline. *)
EXTENDS LibraryScan, TLC

CONSTANTS f1, f2, p1, p2, p3, p4, c1, c2, c3, base1, base2, a1, a2

\* Two files of one folder and one or two places in another; the base name of p1 and
\* p3 is the same, and that of p2 and p4, so a file can move between folders keeping
\* its name.
MCFolderOf == [p \in Paths |-> IF p \in {p1, p2} THEN f1 ELSE f2]
MCBaseOf == [p \in Paths |-> IF p \in {p2, p4} THEN base2 ELSE base1]

\* c1 and c2 are one song (same persistent id) tagged for two albums, c3 is
\* another song of the first album.
MCPidOf == [c \in Contents |-> IF c = c3 THEN c3 ELSE c1]
MCAlbumOf == [c \in Contents |-> IF c = c2 THEN a2 ELSE a1]

\* One song, as in an album directory with its only track at p1.
MCOneFile == [p \in Paths |-> IF p = p1 THEN c1 ELSE NoFile]
\* Two files with one persistent id, and places to move to.
MCTwoFiles ==
    [p \in Paths |-> CASE p = p1 -> c1 [] p = p3 -> c2 [] OTHER -> NoFile]

Quick == <<FALSE, {}>>
Full == <<TRUE, {}>>
QuickOnly == {Quick}
QuickOrFull == {Quick, Full}
WithSelective == {Quick, Full} \cup {<<FALSE, {f}>> : f \in Folders}
=============================================================================
