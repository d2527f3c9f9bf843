---------------------------- MODULE ProfileStore ----------------------------
(* profile_store.rs, the names archive.rs gives profiles, and the list the  *)
(* window keeps of them: files of one directory, found again by the name    *)
(* inside an archive or else by the file's own name.  Windows ignores case  *)
(* in file names but keeps that of the first writer.                        *)
EXTENDS Integers, Sequences, SequencesExt

CONSTANTS
    Raw,        \* names of files and inside archives
    Clean(_),   \* sanitize_client_name
    Bare(_),    \* a file's stem without "phobos-" and ".tar"
    Fold(_),    \* the place of a name in the alphabet, ignoring case
    Content,    \* what a package says, archive or merged .conf
    Broken,     \* what no loader accepts
    MaxPlaced   \* bound: files put into the directory by other hands

\* The .enc of an import, another file load_all_profiles reads, any other.
Extension == {"enc", "conf", "other"}
Name == {Clean(raw) : raw \in Raw}

\* A name that differs from a clean one in case only has no character to clean.
ASSUME StoreAssumption ==
    /\ \A raw \in Raw : Clean(raw) \in Raw /\ Clean(Clean(raw)) = Clean(raw)
    /\ \A raw \in Raw, name \in Name : Fold(raw) = Fold(name) => Clean(raw) = raw
    /\ \A raw \in Raw : Bare(raw) \in Raw /\ Fold(raw) \in Nat
    /\ \A c \in Content : c.kind \in {"archive", "merged"} /\ c.inner \in Raw
    /\ Broken \notin Content
    /\ MaxPlaced \in Nat

File == [stem : Raw, ext : Extension, content : Content \cup {Broken}]
Nobody == [op |-> "none", name |-> "", content |-> Broken]

VARIABLES
    files,     \* the profile directory
    window,    \* "open" or "closed"
    list,      \* profiles: what the window shows
    selected,  \* selected_index, from 1, or 0
    last,      \* history: the latest import or deletion that succeeded, until
               \* something else happens to the list
    placed,    \* history: files of other hands
    unread     \* history: the directory has changed since the list was loaded

vars == <<files, window, list, selected, last, placed, unread>>

Init ==
    /\ files = {}
    /\ window = "closed" /\ list = <<>> /\ selected = 0
    /\ last = Nobody /\ placed = 0 /\ unread = FALSE
-----------------------------------------------------------------------------
\* load_from_file: an archive is called what its .conf is called.
Called(stem, content) == Clean(IF content.kind = "archive" THEN content.inner ELSE stem)
ProfileOf(f) == [name |-> Called(f.stem, f.content), content |-> f.content]

Readable(f) == f.content # Broken

\* load_all_profiles: sorted by name; files of one name come as the directory has them.
Listings(store) ==
    LET listed == {f \in store : f.ext # "other" /\ Readable(f)}
        orders == {o \in SetToSeqs(listed) : \A i, j \in 1 .. Len(o) :
                       i < j => Fold(ProfileOf(o[i]).name) <= Fold(ProfileOf(o[j]).name)}
    IN {[i \in 1 .. Len(o) |-> ProfileOf(o[i])] : o \in orders}

Kept(index, l) ==
    IF l = <<>> THEN 0 ELSE IF index = 0 THEN 1 ELSE IF index > Len(l) THEN Len(l) ELSE index

\* reload_profiles
Reload ==
    /\ list' \in Listings(files')
    /\ selected' = Kept(selected, list')
    /\ unread' = FALSE
-----------------------------------------------------------------------------
\* main.rs, or run_gui: the first profile is selected.
Open ==
    /\ window = "closed"
    /\ window' = "open"
    /\ list' \in Listings(files)
    /\ selected' = IF list' = <<>> THEN 0 ELSE 1
    /\ unread' = FALSE /\ last' = Nobody
    /\ UNCHANGED <<files, placed>>

Close ==
    /\ window = "open"
    /\ window' = "closed"
    /\ list' = <<>> /\ selected' = 0 /\ last' = Nobody
    /\ UNCHANGED <<files, placed, unread>>

Select(i) ==
    /\ window = "open"
    /\ selected' = i
    /\ last' = Nobody
    /\ UNCHANGED <<files, window, list, placed, unread>>

\* The user, or an older client, keeps a file in the directory.
Place(f) ==
    /\ placed < MaxPlaced
    /\ ~ \E g \in files : g.ext = f.ext /\ Fold(g.stem) = Fold(f.stem)
    /\ files' = files \cup {f}
    /\ placed' = placed + 1
    /\ unread' = TRUE /\ last' = Nobody
    /\ UNCHANGED <<window, list, selected>>

\* Fault: the stored file is called after the source, not after the profile.
TargetFault(source, name) == source

Target(source, name) == name

\* fs::write truncates the file of that name, whatever its case, and keeps its name.
Written(stem, content) ==
    LET old == {f \in files : f.ext = "enc" /\ Fold(f.stem) = Fold(stem)}
        kept == IF old = {} THEN stem ELSE (CHOOSE f \in old : TRUE).stem
    IN (files \ old) \cup {[stem |-> kept, ext |-> "enc", content |-> content]}

\* Fault: the position is looked up in the list of before.
SelectImportedFault(name) ==
    LET at == {i \in 1 .. Len(list) : list[i].name = name}
    IN /\ list' \in Listings(files') /\ unread' = FALSE
       /\ selected' = IF at = {} THEN Kept(selected, list')
                      ELSE CHOOSE i \in at : \A j \in at : i <= j

\* The first profile of that very name is selected, else nothing new.
SelectImported(name) ==
    LET at == {i \in 1 .. Len(list') : list'[i].name = name}
    IN /\ list' \in Listings(files') /\ unread' = FALSE
       /\ selected' = IF at = {} THEN Kept(selected, list')
                      ELSE CHOOSE i \in at : \A j \in at : i <= j

(* import_profile of a package that loads, from the button, a drop or the   *)
(* command line, where no window is open yet.  The window reloads its list  *)
(* only after success, but a write that failed half-way has already         *)
(* destroyed the file of that name.                                         *)
Import(source, content) ==
    LET name == Called(source, content)
        stem == Clean(Target(source, name))
    IN /\ \/ /\ files' = Written(stem, content)
             /\ last' = [op |-> "imported", name |-> name, content |-> content]
             /\ IF window = "open" THEN SelectImported(name)
                ELSE unread' = TRUE /\ UNCHANGED <<list, selected>>
          \/ /\ files' = Written(stem, Broken)
             /\ last' = Nobody
             /\ unread' = TRUE /\ UNCHANGED <<list, selected>>
       /\ UNCHANGED <<window, placed>>

Same(a, b) == Fold(a) = Fold(b)

\* Fault: a file belongs to the profile it is called after.
MatchesFault(f, name) == Same(Bare(f.stem), name) \/ Same(f.stem, name)

\* A file that does not load goes by its own name.
Matches(f, name) ==
    IF Readable(f) THEN Same(ProfileOf(f).name, name)
    ELSE Same(Bare(f.stem), name) \/ Same(f.stem, name)

\* Fault: the list is loaded again only when the deletion succeeded.
DeleteFault ==
    /\ window = "open" /\ selected # 0
    /\ LET name == list[selected].name
           doomed == {f \in files : Matches(f, name)}
       IN \E gone \in SUBSET doomed :
             /\ files' = files \ gone
             /\ last' = IF gone = doomed /\ doomed # {}
                        THEN [op |-> "deleted", name |-> name, content |-> Broken] ELSE Nobody
             /\ IF gone = doomed THEN Reload ELSE UNCHANGED <<list, selected, unread>>
    /\ UNCHANGED <<window, placed>>

(* delete_profile of the selected profile removes every file that matches   *)
(* and gives up at the first Windows refuses; the window ignores its answer *)
(* and loads the list again.                                                *)
Delete ==
    /\ window = "open" /\ selected # 0
    /\ LET name == list[selected].name
           doomed == {f \in files : Matches(f, name)}
       IN \E gone \in SUBSET doomed :
             /\ files' = files \ gone
             /\ last' = IF gone = doomed /\ doomed # {}
                        THEN [op |-> "deleted", name |-> name, content |-> Broken] ELSE Nobody
    /\ Reload
    /\ UNCHANGED <<window, placed>>

Next ==
    \/ Open \/ Close \/ Delete
    \/ \E i \in 1 .. Len(list) : Select(i)
    \/ \E f \in File : Place(f)
    \/ \E source \in Raw, content \in Content : Import(source, content)

Spec == Init /\ [][Next]_vars
-----------------------------------------------------------------------------
(* Imports alone never give two profiles one name, although the name is     *)
(* read back from a file that was itself called after it: the window and    *)
(* the service tell profiles apart by name only.                            *)
NamesDistinct ==
    placed = 0 => \A i, j \in 1 .. Len(list) :
                      i # j => ~Same(list[i].name, list[j].name)

(* After an import the list has what was imported, under the name it was    *)
(* imported by but for the case an earlier file of that name has left, and  *)
(* it is the one selected unless a file of other hands has its name.        *)
ImportedIsFound ==
    window = "open" /\ last.op = "imported" =>
        \E i \in 1 .. Len(list) :
            /\ list[i].content = last.content
            /\ Same(list[i].name, last.name)
            /\ placed = 0 /\ list[i].name = last.name => selected = i

(* When a deletion succeeds no profile of that name is left in the list,    *)
(* however many files it came from and whatever they are called.            *)
DeletedIsGone ==
    last.op = "deleted" => \A i \in 1 .. Len(list) : ~Same(list[i].name, last.name)

(* The list shows what the directory holds, also after a deletion that got  *)
(* half-way, unless other hands or a failed import changed it since, and    *)
(* the selection is always in the list, however short it has become.        *)
ListMatchesStore ==
    /\ window = "open" /\ ~unread => list \in Listings(files)
    /\ selected \in (IF list = <<>> THEN {0} ELSE 1 .. Len(list))
=============================================================================
