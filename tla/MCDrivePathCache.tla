------------------------- MODULE MCDrivePathCache -------------------------
(* Small instances of DrivePathCache: rootDir r, the directory /r/d in it. *)
EXTENDS DrivePathCache

Up(p)   == [op |-> "upload", path |-> p]
Down(p) == [op |-> "download", path |-> p]

TwoUploads == {Up(<<"r", "d", "a">>), Up(<<"r", "d", "b">>)}
Together   == {TwoUploads}

\* Two uploads that lack the folder /r, and a download of what one of them brings; and a
\* file called like rootDir, in the root: remote_path "/".
Deep     == {Up(<<"r", "d", "a">>), Up(<<"r", "a">>), Down(<<"r", "d", "a">>)}
Shallow  == {Up(<<"r", "d", "a">>), Up(<<"r">>), Down(<<"r">>)}
AllPaths == Deep \cup Shallow
Apart    == {Deep, Shallow}
=============================================================================
