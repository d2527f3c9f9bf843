------------------------------ MODULE MCStartup ------------------------------
(* Command lines of flags and short awkward arguments; texts of two         *)
(* interfaces' and peers' worth of lines.                                   *)
EXTENDS Startup

Awkward == {"backslash", "quote", "space", "x"}
Short(n) == UNION {[1 .. m -> Awkward] : m \in 0 .. n}
Marked == UNION {[1 .. m -> {"apostrophe", "quote", "space", "x"}] : m \in 1 .. 3}

Proxy == <<"-", "p">>
Cli == <<"-", "c">>
HelpOption == <<"-", "h">>

MCLetter == {"x", "-", "p", "c", "h", "apostrophe"}
MCProxyFlag == {Proxy}
MCCliFlag == {Cli}
MCHelpFlag == {HelpOption}
MCArgList ==
    {<<>>, <<Proxy>>, <<HelpOption>>, <<<<"x", "space", "backslash">>, Cli>>}
        \cup {<<a>> : a \in Short(4) \cup Marked} \cup {<<a, b>> : a \in Short(2), b \in Short(2)}

MCLine ==
    {[key |-> "section", val |-> s] : s \in {"interface", "peer", "instance", "socks5"}}
        \cup {[key |-> "privatekey", val |-> "k1"]}
        \cup {[key |-> "address", val |-> [v4 |-> "a4", v6 |-> "none"]]}
        \cup {[key |-> "address", val |-> [v4 |-> "b4", v6 |-> "b6"]]}
        \cup {[key |-> "mtu", val |-> 1200]}
        \cup {[key |-> "publickey", val |-> k] : k \in {"k1", "bad"}}
        \cup {[key |-> "endpoint", val |-> "server"]}
        \cup {[key |-> "allowedips", val |-> {r}] : r \in {"0.0.0.0/0", "::/0"}}
        \cup {[key |-> "target", val |-> "t1"]}
        \cup {[key |-> "key", val |-> "secret"]}
=============================================================================
