--------------------------- MODULE MCReaderSession ---------------------------
(* Small instances of ReaderSession. *)
EXTENDS ReaderSession, TLC

CONSTANTS u1, u2

\* Calibre-Web: a session cookie that names u1, beside a remember_token
\* of u2 that nobody can read.  Kavita: the bearer token of u1.
MCCredentials ==
    LET session == [name |-> "session", user |-> u1, shown |-> TRUE]
        remember == [name |-> "remember_token", user |-> u2, shown |-> FALSE]
        bearer == [name |-> "Authorization", user |-> u1, shown |-> FALSE]
    IN [cwa |-> {<<session, remember>>}, kavita |-> {<<bearer>>}]

MCUsers == {u1, u2}

TableSymmetry == Permutations(Tokens) \cup Permutations(Threads)
                 \cup Permutations(Bindings)
=============================================================================
