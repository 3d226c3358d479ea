------------------------------- MODULE MCAuth -------------------------------
(***************************************************************************)
(* An instance of Auth for TLC: two names, files of up to three lines      *)
(* with one name twice, an anonymous entry with and without a hash.        *)
(***************************************************************************)
EXTENDS Auth

MCHash == [p \in {"pw1", "pw2"} |-> IF p = "pw1" THEN "h1" ELSE "h2"]

MCWords == {"", "bob", "anonymous", "h1", "h2", "/", "/b", "/c", "/pub"}

Line(name, hash, home, perms) ==
    [username |-> name, password_hash |-> hash, home_dir |-> home, permissions |-> perms]

MCLines == {Line("bob", "h1", "/b", {"READ", "WRITE"}), Line("bob", "h2", "/c", {"READ"}),
            Line("anonymous", "h1", "/pub", {"READ"}), Line("anonymous", "", "/pub", {"READ"})}

MCFiles == UNION {[1 .. n -> MCLines] : n \in 0 .. 3}

MCDefaults == [home_dir |-> "/", permissions |-> {"READ"}]
=============================================================================
