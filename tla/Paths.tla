-------------------------------- MODULE Paths --------------------------------
(***************************************************************************)
(* How a path argument becomes the absolute path a session acts on:        *)
(* normalize_and_validate_path (session.c) over proto_normalize_path and   *)
(* proto_validate_path (protocol.c).  A path is the sequence of its        *)
(* characters; SessionControl and FileService take the result as a value.  *)
(***************************************************************************)
EXTENDS Loops, SequencesExt

CONSTANTS MaxPath,         \* SESSION_MAX_PATH
          MaxComponents,   \* the size of components[]
          Control          \* characters below 32 other than tab

ASSUME LettersAreNoControl == Control \cap {"/", "a", "b"} = {}

ASSUME SizesAreNat == MaxPath \in Nat \ {0, 1} /\ MaxComponents \in Nat \ {0}

Refused == <<"refused">>   \* the -1 of normalize_and_validate_path
Dots(n) == [i \in 1 .. n |-> "."]

-----------------------------------------------------------------------------
\* Backslashes become slashes, runs of slashes one, the last one goes.
Slashed(path) == [i \in DOMAIN path |-> IF path[i] = "\\" THEN "/" ELSE path[i]]

Single(path) ==
    Written([i \in DOMAIN path |->
        [put  |-> IF path[i] = "/" /\ i > 1 /\ path[i - 1] = "/" THEN <<>> ELSE <<path[i]>>,
         next |-> i + 1]])

proto_normalize_path(path) ==
    LET single == Single(Slashed(path))
    IN  IF Len(single) > 1 /\ Last(single) = "/" THEN Front(single) ELSE single

proto_validate_path(path) ==
    /\ \A i \in 1 .. Len(path) - 1 : SubSeq(path, i, i + 1) # Dots(2)
    /\ \A i \in DOMAIN path : path[i] \notin Control

\* strncpy or snprintf into temp: what does not fit is cut off.
Join(base, path) ==
    LET joined == IF path # <<>> /\ path[1] = "/" THEN path
                  ELSE IF base = <<"/">> THEN <<"/">> \o path
                  ELSE base \o <<"/">> \o path
    IN  SubSeq(joined, 1, Min({Len(joined), MaxPath - 1}))

\* The tokens strtok_r finds between slashes: each longest run without one.
RunEnd(path, i) == Min({j \in i .. Len(path) : j = Len(path) \/ path[j + 1] = "/"})

Tokens(path) ==
    Written([i \in DOMAIN path |->
        IF path[i] = "/" THEN [put |-> <<>>, next |-> i + 1]
        ELSE [put |-> <<SubSeq(path, i, RunEnd(path, i))>>, next |-> RunEnd(path, i) + 1]])

\* A faulty variant: ".." at the root is kept as a name.
ResolveKeepsDotDot(tokens) ==
    LET after[k \in 0 .. Len(tokens)] ==
            LET cs == after[k - 1]
            IN  IF k = 0 THEN <<>>
                ELSE IF Len(cs) = MaxComponents \/ tokens[k] = Dots(1) THEN cs
                ELSE IF tokens[k] = Dots(2) /\ cs # <<>> THEN Front(cs)
                ELSE Append(cs, tokens[k])
    IN  after[Len(tokens)]

\* The loop ends when components[] is full: the tokens that are left are lost.
Resolve(tokens) ==
    LET after[k \in 0 .. Len(tokens)] ==
            LET cs == after[k - 1]
            IN  IF k = 0 THEN <<>>
                ELSE IF Len(cs) = MaxComponents \/ tokens[k] = Dots(1) THEN cs
                ELSE IF tokens[k] = Dots(2) THEN IF cs = <<>> THEN cs ELSE Front(cs)
                ELSE Append(cs, tokens[k])
    IN  after[Len(tokens)]

Build(components) ==
    IF components = <<>> THEN <<"/">>
    ELSE Concat([k \in DOMAIN components |-> <<"/">> \o components[k]])

normalize_and_validate_path(base, path) ==
    LET result == Build(Resolve(Tokens(proto_normalize_path(Join(base, path)))))
    IN  IF proto_validate_path(Tail(result)) THEN result ELSE Refused

-----------------------------------------------------------------------------
\* base/path is short enough for temp, and for components[] at every point.
FitsIn(base, path) ==
    /\ Len(base) + 1 + Len(path) < MaxPath
    /\ Len(Tokens(base)) + Len(Tokens(proto_normalize_path(path))) <= MaxComponents

Parent(path) ==
    LET tokens == Tokens(path) IN IF tokens = <<>> THEN path ELSE Build(Front(tokens))

\* Whatever the argument, a path that is not refused is absolute, in the one
\* form that names it: resolving it again changes nothing, and it goes up
\* nowhere (session.c:1219-1267).
IsCanonical(base, path) ==
    LET result == normalize_and_validate_path(base, path)
    IN  result # Refused =>
            /\ result[1] = "/" /\ Len(result) < MaxPath
            /\ proto_normalize_path(result) = result
            /\ \A k \in DOMAIN Tokens(result) : Tokens(result)[k] \notin {Dots(1), Dots(2)}
            /\ normalize_and_validate_path(base, result) = result

\* CWD p and then q is as p/q: what a command acts on does not depend on how
\* the client got there, as long as the buffers suffice.
Composes(base, p, q) ==
    LET there == normalize_and_validate_path(base, p)
        whole == p \o <<"/">> \o q
    IN  (p # <<>> /\ q # <<>> /\ q[1] # "/" /\ FitsIn(base, whole) /\ there # Refused)
            => normalize_and_validate_path(there, q) = normalize_and_validate_path(base, whole)

\* ".." names the directory above, and at the root the root.
GoesUp(base, p) ==
    LET there == normalize_and_validate_path(base, p)
    IN  (p # <<>> /\ FitsIn(base, p \o <<"/", ".", ".">>) /\ there # Refused)
            => normalize_and_validate_path(base, p \o <<"/", ".", ".">>) = Parent(there)

\* A plain name is added to the directory.
GoesDown(base, name) ==
    (FitsIn(base, name) /\ name # <<>> /\ proto_validate_path(name) /\ name # Dots(1)
        /\ \A i \in DOMAIN name : name[i] \notin {"/", "\\"})
            => normalize_and_validate_path(base, name)
                   = (IF base = <<"/">> THEN base \o name ELSE base \o <<"/">> \o name)
=============================================================================
