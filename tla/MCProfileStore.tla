--------------------------- MODULE MCProfileStore ---------------------------
(* Two profiles that differ in case only and one that does not, a name that *)
(* has to be sanitised and a package under its download's name.             *)
EXTENDS ProfileStore

MCRaw == {"home", "Home", "~home", "phobos-home", "work"}
MCClean(raw) == IF raw = "~home" THEN "home" ELSE raw
MCBare(raw) == IF raw = "phobos-home" THEN "home" ELSE raw
MCFold(raw) ==
    CASE raw \in {"home", "Home"} -> 1 [] raw = "~home" -> 2
      [] raw = "phobos-home" -> 3 [] OTHER -> 4
MCContent ==
    [kind : {"archive"}, inner : {"home", "Home"}] \cup [kind : {"merged"}, inner : {"work"}]
MCBroken == [kind |-> "broken", inner |-> "work"]
=============================================================================
