------------------------- MODULE ProfileStoreProofs -------------------------
(* The store and the window's list agree, for any names, any packages and   *)
(* any number of files of other hands.                                      *)
EXTENDS ProfileStore, FiniteSetTheorems, WellFoundedInduction, TLAPS

Profile == [name : Name, content : Content]
Listed(store) == {f \in store : f.ext # "other" /\ Readable(f)}

LEMMA CalledType ==
    ASSUME NEW f \in File, Readable(f)
    PROVE  ProfileOf(f) \in Profile /\ ProfileOf(f).content = f.content
  BY StoreAssumption DEF File, Readable, ProfileOf, Profile, Called, Name

LEMMA NamesAreClean ==
    ASSUME NEW name \in Name
    PROVE  name \in Raw /\ Clean(name) = name /\ Fold(name) \in Nat
  BY StoreAssumption DEF Name

LEMMA LeastOf ==
    ASSUME NEW T \in SUBSET Nat, T # {}
    PROVE  LET m == CHOOSE i \in T : \A j \in T : i <= j
           IN m \in T /\ \A j \in T : m <= j
  <1> DEFINE R == {ss \in Nat \X Nat : ss[1] < ss[2]}
  <1>1. OpToRel(<, Nat) = R
    BY Zenon DEF OpToRel
  <1>2. IsWellFoundedOn(R, Nat)
    BY <1>1, NatLessThanWellFounded, Zenon
  <1>3. PICK x \in T : \A y \in T : ~ (<<y, x>> \in R)
    <2> HIDE DEF R
    <2> QED
      BY <1>2, WFMin
  <1>4. ASSUME NEW y \in T PROVE x <= y
    <2>1. x \in Nat /\ y \in Nat
      OBVIOUS
    <2>2. ~ (<<y, x>> \in R)
      BY <1>3
    <2>3. ~ (y < x)
      BY <2>1, <2>2
    <2> QED
      BY <2>1, <2>3
  <1> QED
    BY <1>4

(* load_all_profiles shows every file it can read, once.                    *)
LEMMA ListingOf ==
    ASSUME NEW store \in SUBSET File, IsFiniteSet(store), NEW l \in Listings(store)
    PROVE  /\ l \in Seq(Profile)
           /\ \A i \in 1 .. Len(l) : \E f \in Listed(store) : l[i] = ProfileOf(f)
           /\ \A f \in Listed(store) : \E i \in 1 .. Len(l) : l[i] = ProfileOf(f)
           /\ \A i, j \in 1 .. Len(l) : i # j =>
                 \E f, g \in Listed(store) : f # g /\ l[i] = ProfileOf(f) /\ l[j] = ProfileOf(g)
  <1> DEFINE S == Listed(store)
             n == Cardinality(S)
  <1>1. S \in SUBSET store /\ IsFiniteSet(S) /\ n \in Nat
    BY FS_Subset, FS_CardinalityType DEF Listed
  <1>2. \A f \in S : f \in File /\ Readable(f)
    BY DEF Listed
  <1>3. PICK o \in SetToSeqs(S) : l = [i \in 1 .. Len(o) |-> ProfileOf(o[i])]
    BY DEF Listings, Listed
  <1> HIDE DEF S, n
  <1>4. /\ o \in [1 .. n -> S]
        /\ \A i, j \in 1 .. n : i # j => o[i] # o[j]
    BY <1>3 DEF SetToSeqs, n
  <1>5. o \in Injection(1 .. n, S)
    BY <1>4 DEF Injection, IsInjective
  <1>6. Cardinality(1 .. n) = n
    BY <1>1, FS_Interval
  <1>7. o \in Surjection(1 .. n, S)
    BY <1>1, <1>5, <1>6, FS_Injection DEF n
  <1>8. o \in Seq(S) /\ Len(o) = n
    BY <1>1, <1>4
  <1>9. /\ l \in [1 .. n -> Profile]
        /\ \A i \in 1 .. n : l[i] = ProfileOf(o[i])
    BY <1>2, <1>3, <1>4, <1>8, CalledType
  <1>10. l \in Seq(Profile) /\ Len(l) = n
    BY <1>1, <1>9
  <1>11. \A f \in S : \E i \in 1 .. n : o[i] = f
    BY <1>7 DEF Surjection
  <1> QED
    BY <1>4, <1>9, <1>10, <1>11 DEF S
-----------------------------------------------------------------------------
(* The invariant                                                            *)

\* Files that came by import alone: each is called after its profile, but for case.
Own(store) ==
    /\ \A f \in store :
          /\ f.ext = "enc" /\ f.stem \in Name
          /\ Readable(f) => Same(ProfileOf(f).name, f.stem)
    /\ \A f, g \in store : f # g => ~Same(f.stem, g.stem)

Selectable(l) == IF l = <<>> THEN {0} ELSE 1 .. Len(l)

StoreInv ==
    /\ files \in SUBSET File /\ IsFiniteSet(files)
    /\ placed \in Nat
    /\ placed = 0 => Own(files)
    /\ list \in Seq(Profile)
    /\ window = "closed" => list = <<>>
    /\ NamesDistinct /\ ListMatchesStore

LEMMA DistinctListing ==
    ASSUME NEW store \in SUBSET File, IsFiniteSet(store), Own(store),
           NEW l \in Listings(store)
    PROVE  \A i, j \in 1 .. Len(l) : i # j => ~Same(l[i].name, l[j].name)
  <1> SUFFICES ASSUME NEW i \in 1 .. Len(l), NEW j \in 1 .. Len(l), i # j
               PROVE  ~Same(l[i].name, l[j].name)
    OBVIOUS
  <1>1. PICK f \in Listed(store), g \in Listed(store) :
            f # g /\ l[i] = ProfileOf(f) /\ l[j] = ProfileOf(g)
    BY ListingOf
  <1>2. /\ Same(ProfileOf(f).name, f.stem) /\ Same(ProfileOf(g).name, g.stem)
        /\ ~Same(f.stem, g.stem)
    BY <1>1 DEF Listed, Own
  <1> QED
    BY <1>1, <1>2 DEF Same

LEMMA KeptSelectable ==
    ASSUME NEW l \in Seq(Profile), NEW index \in Nat
    PROVE  Kept(index, l) \in Selectable(l)
  BY DEF Kept, Selectable

LEMMA SelectableIsNat ==
    ASSUME NEW l \in Seq(Profile), NEW index \in Selectable(l)
    PROVE  index \in Nat
  BY DEF Selectable

(* What an import selects: an entry of the list, and the one of that very   *)
(* name if there is one only.                                               *)
LEMMA ImportedSelected ==
    ASSUME NEW name, SelectImported(name), list' \in Seq(Profile), selected \in Nat
    PROVE  /\ selected' \in Selectable(list')
           /\ \A i \in 1 .. Len(list') :
                 /\ list'[i].name = name
                 /\ \A j \in 1 .. Len(list') : list'[j].name = name => j = i
                 => selected' = i
  <1> DEFINE at == {i \in 1 .. Len(list') : list'[i].name = name}
             least == CHOOSE i \in at : \A j \in at : i <= j
  <1>1. at \in SUBSET Nat /\ at \in SUBSET (1 .. Len(list'))
    OBVIOUS
  <1>2. selected' = IF at = {} THEN Kept(selected, list') ELSE least
    BY DEF SelectImported
  <1>3. at # {} => least \in at
    <2> HIDE DEF at
    <2> QED
      BY <1>1, LeastOf
  <1>4. selected' \in Selectable(list')
    <2>1. CASE at = {}
      BY <1>2, <2>1, KeptSelectable
    <2>2. CASE at # {}
      <3>1. selected' \in 1 .. Len(list')
        BY <1>1, <1>2, <1>3, <2>2
      <3>2. list' # <<>>
        BY <3>1
      <3> QED
        BY <3>1, <3>2 DEF Selectable
    <2> QED
      BY <2>1, <2>2
  <1>5. ASSUME NEW i \in 1 .. Len(list'), list'[i].name = name,
               \A j \in 1 .. Len(list') : list'[j].name = name => j = i
        PROVE  selected' = i
    <2>1. i \in at
      BY <1>5
    <2>2. least \in at
      BY <1>3, <2>1
    <2>3. least = i
      BY <1>5, <2>2
    <2> QED
      BY <1>2, <2>1, <2>3
  <1> QED
    BY <1>4, <1>5

(* fs::write leaves one file more, in place of any of that name.            *)
LEMMA WrittenFile ==
    ASSUME files \in SUBSET File, IsFiniteSet(files), NEW stem \in Name,
           NEW content \in Content \cup {Broken}
    PROVE  \E kept \in Raw :
              LET f == [stem |-> kept, ext |-> "enc", content |-> content]
              IN  /\ Fold(kept) = Fold(stem)
                  /\ kept = stem \/ \E g \in files : g.stem = kept
                  /\ Written(stem, content)
                     = {g \in files : ~(g.ext = "enc" /\ Fold(g.stem) = Fold(stem))} \cup {f}
  <1> DEFINE old == {f \in files : f.ext = "enc" /\ Fold(f.stem) = Fold(stem)}
             kept == IF old = {} THEN stem ELSE (CHOOSE f \in old : TRUE).stem
  <1>1. old # {} => (CHOOSE f \in old : TRUE) \in old
    OBVIOUS
  <1>2. /\ kept \in Raw /\ Fold(kept) = Fold(stem)
        /\ kept = stem \/ \E g \in files : g.stem = kept
    <2>1. CASE old = {}
      BY <2>1, NamesAreClean
    <2>2. CASE old # {}
      <3>1. PICK g \in old : kept = g.stem
        BY <1>1, <2>2
      <3> QED
        BY <3>1 DEF File
    <2> QED
      BY <2>1, <2>2
  <1>3. Written(stem, content)
        = (files \ old) \cup {[stem |-> kept, ext |-> "enc", content |-> content]}
    BY DEF Written
  <1>4. files \ old = {g \in files : ~(g.ext = "enc" /\ Fold(g.stem) = Fold(stem))}
    OBVIOUS
  <1> HIDE DEF kept, old
  <1> QED
    BY <1>2, <1>3, <1>4

(* An import's file goes by its profile's name, also in the place of        *)
(* another; one that was cut short can no longer be read.                   *)
LEMMA ImportedFile ==
    ASSUME StoreInv, NEW source \in Raw, NEW content \in Content,
           NEW got \in {content, Broken}
    PROVE  LET name == Called(source, content)
               after == Written(Clean(Target(source, name)), got)
           IN  /\ name \in Name
               /\ after \in SUBSET File /\ IsFiniteSet(after)
               /\ placed = 0 => Own(after)
               /\ got = content =>
                     \E f \in Listed(after) :
                         f.content = content /\ Same(ProfileOf(f).name, name)
  <1> DEFINE name == Called(source, content)
             stem == Clean(Target(source, name))
             others == {g \in files : ~(g.ext = "enc" /\ Fold(g.stem) = Fold(stem))}
  <1>1. name \in Name /\ stem = name
    <2>1. name \in Name
      BY StoreAssumption DEF Called, Name
    <2>2. Clean(name) = name
      BY <2>1, NamesAreClean
    <2> QED
      BY <2>1, <2>2 DEF Target
  <1>2. content.kind \in {"archive", "merged"} /\ content # Broken
    BY StoreAssumption
  <1>3. \A raw : Called(raw, content) = IF content.kind = "archive" THEN name ELSE Clean(raw)
    BY <1>2 DEF Called
  <1> HIDE DEF name
  <1>4. stem \in Name /\ got \in Content \cup {Broken} /\ files \in SUBSET File /\ IsFiniteSet(files)
    BY <1>1 DEF StoreInv
  <1> HIDE DEF stem
  <1>5. PICK kept \in Raw :
            /\ Fold(kept) = Fold(stem)
            /\ kept = stem \/ \E g \in files : g.stem = kept
            /\ Written(stem, got)
               = others \cup {[stem |-> kept, ext |-> "enc", content |-> got]}
    BY <1>4, WrittenFile
  <1> DEFINE f == [stem |-> kept, ext |-> "enc", content |-> got]
  <1>6. f \in File /\ f.stem = kept /\ f.ext = "enc" /\ f.content = got
    BY <1>4 DEF File, Extension
  <1> HIDE DEF f
  <1>7. Written(stem, got) = others \cup {f} /\ others \in SUBSET files
    BY <1>5 DEF f
  <1> HIDE DEF others
  <1>8. Written(stem, got) \in SUBSET File /\ IsFiniteSet(Written(stem, got))
    BY <1>4, <1>6, <1>7, FS_Subset, FS_AddElement
  <1>9. kept = Clean(kept)
    BY <1>1, <1>5, StoreAssumption
  <1>10. got = content => Readable(f) /\ Same(ProfileOf(f).name, name)
    BY <1>1, <1>2, <1>3, <1>5, <1>6, <1>9 DEF Readable, ProfileOf, Same
  <1>11. ASSUME placed = 0 PROVE Own(Written(stem, got))
    <2>1. Own(files)
      BY <1>11 DEF StoreInv
    <2>2. kept \in Name
      BY <1>4, <1>5, <2>1 DEF Own
    <2>3. Readable(f) => Same(ProfileOf(f).name, f.stem)
      <3>1. Readable(f) => got = content
        BY <1>6 DEF Readable
      <3>2. Same(name, kept)
        BY <1>1, <1>5 DEF Same
      <3> QED
        BY <1>6, <1>10, <3>1, <3>2 DEF Same
    <2>4. \A g \in others : ~Same(g.stem, f.stem)
      BY <1>5, <1>6, <1>7, <2>1 DEF Own, Same, others
    <2>5. \A g \in others \cup {f} :
              /\ g.ext = "enc" /\ g.stem \in Name
              /\ Readable(g) => Same(ProfileOf(g).name, g.stem)
      BY <1>6, <1>7, <2>1, <2>2, <2>3 DEF Own
    <2>6. \A g, h \in others \cup {f} : g # h => ~Same(g.stem, h.stem)
      BY <1>7, <2>1, <2>4 DEF Own, Same
    <2> QED
      BY <1>7, <2>5, <2>6 DEF Own
  <1>12. got = content =>
             \E g \in Listed(Written(stem, got)) :
                 g.content = content /\ Same(ProfileOf(g).name, name)
    BY <1>6, <1>7, <1>10 DEF Listed
  <1> QED
    BY <1>1, <1>8, <1>11, <1>12 DEF name, stem

(* A list that has just been loaded is as the invariant wants it.           *)
LEMMA Reloaded ==
    ASSUME files' \in SUBSET File, IsFiniteSet(files'), placed' \in Nat,
           placed' = 0 => Own(files'), window' = "open",
           list' \in Listings(files'), selected' \in Selectable(list')
    PROVE  StoreInv'
  <1>1. list' \in Seq(Profile)
    BY ListingOf
  <1>2. NamesDistinct'
    BY DistinctListing DEF NamesDistinct
  <1> QED
    BY <1>1, <1>2 DEF StoreInv, ListMatchesStore, Selectable

(* A list that stays is as good as before, but may be behind the directory. *)
LEMMA NotReloaded ==
    ASSUME StoreInv, files' \in SUBSET File, IsFiniteSet(files'), placed' \in Nat,
           placed' = 0 => placed = 0 /\ Own(files'),
           UNCHANGED <<window, list>>, selected' \in Selectable(list),
           unread' \/ (unread' = unread /\ files' = files)
    PROVE  StoreInv'
  <1>1. NamesDistinct'
    BY DEF StoreInv, NamesDistinct
  <1>2. ListMatchesStore'
    BY DEF StoreInv, ListMatchesStore, Selectable
  <1> QED
    BY <1>1, <1>2 DEF StoreInv
-----------------------------------------------------------------------------
(* The steps                                                                *)

LEMMA NobodyDid == Nobody.op # "imported" /\ Nobody.op # "deleted"
  <1>1. Nobody.op = "none"
    BY DEF Nobody
  <1> QED
    BY <1>1

LEMMA StoreInit == Init => StoreInv
  <1> SUFFICES ASSUME Init PROVE StoreInv
    OBVIOUS
  <1>1. files = {} /\ list = <<>> /\ selected = 0 /\ window = "closed" /\ placed = 0
    BY DEF Init
  <1>2. NamesDistinct /\ ListMatchesStore
    BY <1>1 DEF NamesDistinct, ListMatchesStore
  <1> QED
    BY <1>1, <1>2, FS_EmptySet DEF StoreInv, Own

\* What an import does to the list once the file is written.
LEMMA ImportStep ==
    ASSUME StoreInv, NEW source \in Raw, NEW content \in Content, Import(source, content)
    PROVE  /\ StoreInv'
           /\ ImportedIsFound'
           /\ last'.op # "deleted"
  <1> DEFINE name == Called(source, content)
             stem == Clean(Target(source, name))
  <1>1. UNCHANGED <<window, placed>>
    BY DEF Import
  <1>2. selected \in Selectable(list) /\ selected \in Nat /\ placed \in Nat
    BY SelectableIsNat DEF StoreInv, ListMatchesStore, Selectable
  <1>3. CASE /\ files' = Written(stem, content)
             /\ last' = [op |-> "imported", name |-> name, content |-> content]
             /\ IF window = "open" THEN SelectImported(name)
                ELSE unread' = TRUE /\ UNCHANGED <<list, selected>>
    <2>1. /\ name \in Name
          /\ files' \in SUBSET File /\ IsFiniteSet(files')
          /\ placed' = 0 => placed = 0 /\ Own(files')
      BY <1>1, <1>3, ImportedFile
    <2>2. PICK f \in Listed(files') : f.content = content /\ Same(ProfileOf(f).name, name)
      BY <1>3, ImportedFile
    <2> HIDE DEF name, stem
    <2>3. CASE window = "open"
      <3>1. SelectImported(name) /\ list' \in Listings(files')
        BY <1>3, <2>3 DEF SelectImported
      <3>2. list' \in Seq(Profile)
        BY <2>1, <3>1, ListingOf
      <3>3. selected' \in Selectable(list')
        BY <1>2, <3>1, <3>2, ImportedSelected
      <3>4. StoreInv'
        BY <1>1, <1>2, <2>1, <2>3, <3>1, <3>3, Reloaded
      <3>5. PICK i \in 1 .. Len(list') : list'[i] = ProfileOf(f)
        BY <2>1, <2>2, <3>1, ListingOf
      <3>6. list'[i].content = content /\ Same(list'[i].name, name)
        BY <2>2, <3>5 DEF ProfileOf
      <3>7. ASSUME placed' = 0, list'[i].name = name PROVE selected' = i
        <4>1. \A j \in 1 .. Len(list') : list'[j].name = name => j = i
          BY <3>4, <3>7 DEF StoreInv, NamesDistinct, Same
        <4> QED
          BY <1>2, <3>1, <3>2, <3>7, <4>1, ImportedSelected
      <3>8. ImportedIsFound'
        BY <1>3, <3>6, <3>7 DEF ImportedIsFound
      <3> QED
        BY <1>3, <3>4, <3>8
    <2>4. CASE window # "open"
      <3>1. StoreInv'
        BY <1>1, <1>2, <1>3, <2>1, <2>4, NotReloaded
      <3> QED
        BY <1>1, <1>3, <2>4, <3>1 DEF ImportedIsFound
    <2> QED
      BY <2>3, <2>4
  <1>4. CASE /\ files' = Written(stem, Broken)
             /\ last' = Nobody
             /\ unread' = TRUE /\ UNCHANGED <<list, selected>>
    <2>1. /\ files' \in SUBSET File /\ IsFiniteSet(files')
          /\ placed' = 0 => placed = 0 /\ Own(files')
      BY <1>1, <1>4, ImportedFile
    <2>2. StoreInv'
      BY <1>1, <1>2, <1>4, <2>1, NotReloaded
    <2> QED
      BY <1>4, <2>2, NobodyDid DEF ImportedIsFound
  <1> QED
    BY <1>3, <1>4 DEF Import

(* A deletion leaves fewer files, none of them of that name if it succeeds, *)
(* and a list of what is left.                                              *)
LEMMA DeleteStep ==
    ASSUME StoreInv, Delete
    PROVE  /\ StoreInv'
           /\ last'.op # "imported"
           /\ DeletedIsGone'
  <1> DEFINE name == list[selected].name
             doomed == {f \in files : Matches(f, name)}
  <1>1. /\ window = "open" /\ UNCHANGED <<window, placed>>
        /\ list' \in Listings(files') /\ selected' = Kept(selected, list')
    BY DEF Delete, Reload
  <1>2. PICK gone \in SUBSET doomed :
            /\ files' = files \ gone
            /\ last' = IF gone = doomed /\ doomed # {}
                       THEN [op |-> "deleted", name |-> name, content |-> Broken] ELSE Nobody
    BY DEF Delete
  <1>3. selected \in Nat
    BY SelectableIsNat DEF StoreInv, ListMatchesStore, Selectable
  <1>4. /\ files' \in SUBSET File /\ IsFiniteSet(files')
        /\ placed' = 0 => Own(files')
    <2>1. files' \in SUBSET files
      BY <1>2
    <2> QED
      BY <1>1, <2>1, FS_Subset DEF StoreInv, Own
  <1>5. list' \in Seq(Profile)
    BY <1>1, <1>4, ListingOf
  <1>6. StoreInv'
    <2>1. selected' \in Selectable(list')
      BY <1>1, <1>3, <1>5, KeptSelectable
    <2> QED
      BY <1>1, <1>4, <2>1, Reloaded DEF StoreInv
  <1>7. ASSUME last'.op = "deleted", NEW i \in 1 .. Len(list')
        PROVE  ~Same(list'[i].name, last'.name)
    <2>1. gone = doomed /\ last'.name = name
      BY <1>2, <1>7 DEF Nobody
    <2>2. PICK f \in Listed(files') : list'[i] = ProfileOf(f)
      BY <1>1, <1>4, ListingOf
    <2> HIDE DEF name
    <2>3. ~Matches(f, name) /\ Readable(f)
      BY <1>2, <2>1, <2>2 DEF Listed
    <2> QED
      BY <2>1, <2>2, <2>3 DEF Matches
  <1> QED
    BY <1>2, <1>6, <1>7 DEF Nobody, DeletedIsGone

\* The steps that neither import nor delete.
LEMMA OtherStep ==
    ASSUME StoreInv, Open \/ Close \/ (\E i \in 1 .. Len(list) : Select(i))
                     \/ (\E f \in File : Place(f))
    PROVE  StoreInv' /\ last' = Nobody
  <1>1. selected \in Selectable(list)
    BY DEF StoreInv, ListMatchesStore, Selectable
  <1>2. CASE Open
    <2>1. /\ list' \in Listings(files') /\ UNCHANGED <<files, placed>> /\ window' = "open"
          /\ selected' = IF list' = <<>> THEN 0 ELSE 1
      BY <1>2 DEF Open
    <2>2. list' \in Seq(Profile)
      BY <2>1, ListingOf DEF StoreInv
    <2>3. selected' \in Selectable(list')
      BY <2>1, <2>2 DEF Selectable
    <2>4. StoreInv'
      BY <2>1, <2>3, Reloaded DEF StoreInv
    <2> QED
      BY <1>2, <2>4 DEF Open
  <1>3. CASE Close
    <2>1. NamesDistinct' /\ ListMatchesStore'
      BY <1>3 DEF Close, NamesDistinct, ListMatchesStore
    <2> QED
      BY <1>3, <2>1 DEF Close, StoreInv
  <1>4. ASSUME NEW i \in 1 .. Len(list), Select(i) PROVE StoreInv' /\ last' = Nobody
    <2>1. i \in Selectable(list)
      BY DEF Selectable, StoreInv
    <2>2. StoreInv'
      BY <1>4, <2>1, NotReloaded DEF Select, StoreInv
    <2> QED
      BY <1>4, <2>2 DEF Select
  <1>5. ASSUME NEW f \in File, Place(f) PROVE StoreInv' /\ last' = Nobody
    <2>1. /\ files' = files \cup {f} /\ placed' = placed + 1 /\ unread' = TRUE
          /\ UNCHANGED <<window, list, selected>>
      BY <1>5 DEF Place
    <2>2. files' \in SUBSET File /\ IsFiniteSet(files')
      BY <2>1, FS_AddElement DEF StoreInv
    <2>3. placed' \in Nat /\ placed' # 0
      BY <2>1 DEF StoreInv
    <2>4. StoreInv'
      BY <1>1, <2>1, <2>2, <2>3, NotReloaded
    <2> QED
      BY <1>5, <2>4 DEF Place
  <1> QED
    BY <1>2, <1>3, <1>4, <1>5

LEMMA StoreStep == StoreInv /\ [Next]_vars => StoreInv'
  <1> SUFFICES ASSUME StoreInv, [Next]_vars PROVE StoreInv'
    OBVIOUS
  <1>1. CASE UNCHANGED vars
    BY <1>1 DEF vars, StoreInv, NamesDistinct, ListMatchesStore
  <1> QED
    BY <1>1, ImportStep, DeleteStep, OtherStep DEF Next

(* Imports alone never give two profiles one name, however many.            *)
THEOREM ImportsKeepNamesDistinct == Spec => []NamesDistinct
  <1>1. StoreInv => NamesDistinct
    BY DEF StoreInv
  <1> QED
    BY <1>1, StoreInit, StoreStep, PTL DEF Spec

(* The list shows what the directory holds and the selection is in the list.*)
THEOREM ListShowsTheStore == Spec => []ListMatchesStore
  <1>1. StoreInv => ListMatchesStore
    BY DEF StoreInv
  <1> QED
    BY <1>1, StoreInit, StoreStep, PTL DEF Spec

(* Whatever is in the directory: an import that succeeds shows up in the    *)
(* list, and is selected unless a file of other hands has its name.         *)
THEOREM ImportsAreFound == Spec => []ImportedIsFound
  <1>1. Init => ImportedIsFound
    BY NobodyDid DEF Init, ImportedIsFound
  <1>2. StoreInv /\ ImportedIsFound /\ [Next]_vars => ImportedIsFound'
    <2> SUFFICES ASSUME StoreInv, ImportedIsFound, [Next]_vars PROVE ImportedIsFound'
      OBVIOUS
    <2>1. CASE UNCHANGED vars
      BY <2>1 DEF vars, ImportedIsFound
    <2>2. ASSUME last' = Nobody \/ last'.op # "imported" PROVE ImportedIsFound'
      BY <2>2, NobodyDid DEF ImportedIsFound
    <2> QED
      BY <2>1, <2>2, ImportStep, DeleteStep, OtherStep DEF Next
  <1> QED
    BY <1>1, <1>2, StoreInit, StoreStep, PTL DEF Spec

(* Whatever is in the directory: after a deletion that succeeds no profile  *)
(* of that name is in the list.                                             *)
THEOREM DeletionsAreComplete == Spec => []DeletedIsGone
  <1>1. Init => DeletedIsGone
    BY NobodyDid DEF Init, DeletedIsGone
  <1>2. StoreInv /\ DeletedIsGone /\ [Next]_vars => DeletedIsGone'
    <2> SUFFICES ASSUME StoreInv, DeletedIsGone, [Next]_vars PROVE DeletedIsGone'
      OBVIOUS
    <2>1. CASE UNCHANGED vars
      BY <2>1 DEF vars, DeletedIsGone
    <2>2. ASSUME last' = Nobody \/ last'.op # "deleted" PROVE DeletedIsGone'
      BY <2>2, NobodyDid DEF DeletedIsGone
    <2> QED
      BY <2>1, <2>2, ImportStep, DeleteStep, OtherStep DEF Next
  <1> QED
    BY <1>1, <1>2, StoreInit, StoreStep, PTL DEF Spec
=============================================================================
