-------------------------- MODULE MCSessionControl --------------------------
(***************************************************************************)
(* Instances of SessionControl for TLC.  The home of "lost" does not exist *)
(* as a directory, anonymous is as server_init sets it up.                 *)
(***************************************************************************)
EXTENDS SessionControl

MCUsers == {"anonymous", "ann", "bob", "lost", "admin"}

MCHomeOf ==
    [u \in MCUsers |->
        CASE u = "ann"  -> <<"a">>
          [] u = "bob"  -> <<"b">>
          [] u = "lost" -> <<"gone">>
          [] OTHER      -> Root]

MCPermsOf ==
    [u \in MCUsers |->
        CASE u = "admin"         -> Rights
          [] u = "anonymous"     -> {"READ"}
          [] u \in {"ann", "lost"} -> {"READ", "WRITE", "RENAME", "MKDIR"}
          [] u = "bob"           -> Rights \ {"ADMIN", "MKDIR"}]

MCDirs == {Root, <<"a">>, <<"a", "x">>, <<"b">>}

Absolute(names) == [absolute |-> TRUE, names |-> names]
Relative(names) == [absolute |-> FALSE, names |-> names]

MCArgs == {Absolute(<<"a", "x">>), Absolute(<<"b">>), Relative(<<"..">>),
           Relative(<<"x">>), Relative(<<"..", "b", ".", "y">>)}
=============================================================================
