------------------------------ MODULE Startup ------------------------------
(* main.rs main: from the user's command to the window, the command-line    *)
(* tunnel or the proxy, by way of the elevated copy that CommandLine gives  *)
(* its arguments and the configuration that ConfigFile reads.               *)
EXTENDS CommandLine, ConfigFile, FiniteSetsExt

CONSTANTS
    ArgList,    \* what the user may type or drop on the program
    Dash,       \* the character "-"
    Apostrophe, \* and "'"
    ProxyFlag, CliFlag, HelpFlag,   \* the spellings of the three flags
    MaxUnread   \* bound: how often is_admin fails in an elevated process

ASSUME StartupAssumption ==
    /\ ArgList \subseteq Seq(Argument)
    /\ Dash \in Letter /\ Apostrophe \in Letter
    /\ ProxyFlag \cup CliFlag \cup HelpFlag \subseteq Argument
    /\ MaxUnread \in Nat

VARIABLES
    phase,      \* where main of the current process is
    admin,      \* whether the current process is elevated
    file,       \* passed_file: empty, or the one path
    asked,      \* history: the user's arguments
    imports,    \* history: imports into the profile store, by any of the processes
    unread      \* history: how often is_admin failed

uvars == <<phase, admin, file, asked, imports, unread>>
vars == <<lvars, fvars, uvars>>

Phase == {"main", "relaunch", "choose", "load", "window", "tunnel", "proxy", "exited"}

Has(list, flags) == \E j \in 1 .. Len(list) : list[j] \in flags

IsPath(a) == a = <<>> \/ a[1] # Dash

\* trim, and trim_matches: whatever of these characters is at either end goes.
Trim(a, chars) ==
    LET kept == {j \in 1 .. Len(a) : a[j] \notin chars}
    IN IF kept = {} THEN <<>> ELSE SubSeq(a, Min(kept), Max(kept))

White == Blank \cup {"newline", "return"}

\* First white space, then quotation marks, then apostrophes.
CleanPath(a) == Trim(Trim(Trim(a, White), {"quote"}), {Apostrophe})

FirstPath(list) ==
    LET paths == {j \in 1 .. Len(list) : IsPath(list[j])}
    IN IF paths = {} THEN <<>> ELSE <<list[Min(paths)]>>

Passed(list) ==
    IF FirstPath(list) = <<>> THEN <<>> ELSE <<CleanPath(FirstPath(list)[1])>>

Init ==
    /\ asked \in ArgList /\ LineInit(asked)
    /\ FileInit
    /\ phase = "main" /\ file = <<>>
    /\ admin \in BOOLEAN
    /\ imports = 0 /\ unread = 0

GoOn(next) ==
    phase' = next /\ UNCHANGED <<lvars, fvars, admin, file, asked, imports, unread>>

Help ==
    /\ phase = "main" /\ Has(args, HelpFlag)
    /\ GoOn("exited")

(* The proxy needs no rights.  is_admin also says no when the token of an   *)
(* elevated process cannot be read.                                         *)
Elevate ==
    /\ phase = "main" /\ ~Has(args, HelpFlag) /\ ~Has(args, ProxyFlag)
    /\ admin => unread < MaxUnread
    /\ unread' = IF admin THEN unread + 1 ELSE unread
    /\ phase' = "relaunch"
    /\ UNCHANGED <<lvars, fvars, admin, file, asked, imports>>

Write ==
    /\ phase = "relaunch"
    /\ LineStep
    /\ UNCHANGED <<fvars, uvars>>

NextArguments(list) ==
    args' = list /\ written' = 0 /\ place' = 0 /\ style' = "none" /\ held' = 0
        /\ line' = NothingRead

\* Fault: the copy is started without parameters.
RelaunchFault ==
    /\ phase = "relaunch" /\ Complete
    /\ phase' = "main" /\ admin' = TRUE
    /\ NextArguments(<<>>)
    /\ UNCHANGED <<fvars, file, asked, imports, unread>>

\* ShellExecuteW: the copy starts with what it reads in the line, and this process exits.
Relaunch ==
    /\ phase = "relaunch" /\ Complete
    /\ phase' = "main" /\ admin' = TRUE
    /\ NextArguments(line.done)
    /\ UNCHANGED <<fvars, file, asked, imports, unread>>

\* The user declines, and the program exits, perhaps after a key.
Declined ==
    /\ phase = "relaunch" /\ Complete
    /\ GoOn("exited")

(* A passed file goes into the profile store if it is there, has a name of  *)
(* the right kind and import_profile accepts it; its answer is ignored.     *)
TakePassed ==
    /\ phase = "main" /\ ~Has(args, HelpFlag)
    /\ Has(args, ProxyFlag) \/ admin
    /\ file' = Passed(args)
    /\ imports' \in IF file' = <<>> THEN {imports} ELSE {imports, imports + 1}
    /\ phase' = "choose"
    /\ UNCHANGED <<lvars, fvars, admin, asked, unread>>

(* Without a passed file the other modes look for the only package in the   *)
(* directory or ask until they have one.                                    *)
Choose ==
    /\ phase = "choose"
    /\ GoOn(IF Has(args, ProxyFlag) \/ Has(args, CliFlag) THEN "load" ELSE "window")

\* combine_and_build, for the modes that go on with one profile.
Load ==
    /\ phase = "load"
    /\ FileStep
    /\ UNCHANGED <<lvars, uvars>>

\* The proxy exports what it has; only the tunnel parses the WireGuard part.
Enter ==
    /\ phase = "load" /\ ended /\ Loads
    /\ IF Has(args, ProxyFlag) THEN GoOn("proxy") ELSE WgValid(wg) /\ GoOn("tunnel")

\* The file cannot be read, or has no target, key or valid WireGuard part.
LoadFails ==
    /\ phase = "load"
    /\ \/ ~ended
       \/ ended /\ ~(Loads /\ (Has(args, ProxyFlag) \/ WgValid(wg)))
    /\ GoOn("exited")

Next ==
    Help \/ Elevate \/ Write \/ Relaunch \/ Declined \/ TakePassed \/ Choose \/ Load
        \/ Enter \/ LoadFails

Spec == Init /\ [][Next]_vars
-----------------------------------------------------------------------------
Bare(a) ==
    a = <<>> \/ {a[1], a[Len(a)]} \cap (White \cup {"quote", Apostrophe}) = {}

(* Whatever mode the program ends up in, through however many copies of     *)
(* itself, it is the one the user asked for, with the file the user passed, *)
(* taken into the store once at most, and nothing that makes an adapter     *)
(* runs without the rights to (main.rs 33-127).  The file is the argument   *)
(* with white space and marks taken off its ends, once, however many copies *)
(* saw it; an argument that has none there is the file as it stands         *)
(* (main.rs 83, 319-323).                                                   *)
StartsAsAsked ==
    phase \in {"window", "tunnel", "proxy"} =>
        /\ ~Has(asked, HelpFlag)
        /\ phase = "proxy" <=> Has(asked, ProxyFlag)
        /\ phase = "tunnel" <=> (Has(asked, CliFlag) /\ ~Has(asked, ProxyFlag))
        /\ phase # "proxy" => admin
        /\ file = Passed(asked)
        /\ FirstPath(asked) # <<>> /\ Bare(FirstPath(asked)[1]) => file = FirstPath(asked)
        /\ imports <= 1 /\ (file = <<>> => imports = 0)
=============================================================================
