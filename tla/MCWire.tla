------------------------------- MODULE MCWire --------------------------------
EXTENDS Wire

Short == UNION {[1..n -> Chars] : n \in 0..3}

Dir == <<"x">>
Wide == <<"w">>
Git == <<"x", "x">>

Machine(override, hostname, common, gitdir, toplevel, cwd) ==
    [override |-> override, hostname |-> hostname, common |-> common,
     gitdir |-> gitdir, toplevel |-> toplevel, cwd |-> cwd]

\* Any short host name, and every layout of repository and directory.
MCEnvironments ==
    {Machine(h, n, <<>>, <<>>, <<>>, <<>>) : h \in {<<>>, Wide}, n \in Short}
        \cup {Machine(h, Dir, <<>>, <<>>, <<>>, c) : h \in Short, c \in {<<>>, <<Wide>>}}
        \cup {Machine(<<>>, Dir, p \o <<Git>>, p \o <<Git>> \o w, t, t) :
                 p \in {<<>>, <<Dir>>, <<Dir, Wide>>}, w \in {<<>>, <<Dir>>, <<Wide>>},
                 t \in {<<>>, <<Dir>>, <<Wide>>}}
=============================================================================
