----------------------------- MODULE ConfigFile -----------------------------
(* archive.rs and wg_config.rs: how a configuration is taken apart, read    *)
(* and rewritten for export.  Every one of these functions is a loop over   *)
(* lines that looks at one line and a few flags, so all of them are run     *)
(* here over the same text in step, one line at a time, and the text may    *)
(* have any length and any order of lines.                                  *)
EXTENDS Integers

CONSTANT Line       \* the lines a text may have: [key |-> ..., val |-> ...]

Section == {"interface", "peer", "instance", "socks5", "other"}
SettingKey == {"target", "key", "masking", "source-lport", "max-dummy", "obfuscate-bytes"}

\* An empty line or a comment.
Inert == [key |-> "inert", val |-> "none"]
NotANumber == -1
SafeMtu == 1280
MtuLine == [key |-> "mtu", val |-> SafeMtu]
LoopbackLine == [key |-> "endpoint", val |-> "loopback"]

ASSUME ConfigFileAssumption ==
    \A l \in Line :
        /\ l = [key |-> l.key, val |-> l.val]
        /\ l.key = "section" => l.val \in Section
        /\ l.key = "mtu" => l.val \in Int
        /\ l.key = "allowedips" => \A range \in l.val : range \in STRING

VARIABLES
    merged,     \* one text with all sections, or the files of an archive
    inInstance, \* in_instance of split_merged_conf
    wg,         \* WireGuardConfig::parse over raw_wg_conf
    obf,        \* parse_instance_section over the obfuscator's part
    rewrite,    \* rewrite_endpoint_to_loopback over raw_wg_conf
    ready,      \* parse over what that writes
    seen,       \* history: what a reader of the written text has seen of it
    whole,      \* history: parse and parse_instance_section over the text as it came
    ended       \* the text is read

fvars == <<merged, inInstance, wg, obf, rewrite, ready, seen, whole, ended>>
-----------------------------------------------------------------------------
WgStart ==
    [section |-> "none", failed |-> FALSE, privatekey |-> "none", v4 |-> "none", v6 |-> "none",
     dns |-> {}, mtu |-> SafeMtu, publickey |-> "none", presharedkey |-> "none",
     persistentkeepalive |-> 0, allowedips |-> {}]

\* A key that is not 32 bytes in base64 ends the reading.
WithKey(w, l) ==
    IF l.val = "bad" THEN [w EXCEPT !.failed = TRUE] ELSE [w EXCEPT ![l.key] = l.val]

FirstOf(old, new) == IF old = "none" THEN new ELSE old

\* WireGuardConfig::parse: the first address of a family counts, of other keys the last.
WgRead(w, l) ==
    IF w.failed THEN w
    ELSE CASE l.key = "section" -> [w EXCEPT !.section = l.val]
           [] w.section = "interface" /\ l.key = "privatekey" -> WithKey(w, l)
           [] w.section = "interface" /\ l.key = "address" ->
                [w EXCEPT !.v4 = FirstOf(@, l.val.v4), !.v6 = FirstOf(@, l.val.v6)]
           [] w.section = "interface" /\ l.key = "dns" -> [w EXCEPT !.dns = @ \cup l.val]
           [] w.section = "interface" /\ l.key = "mtu" /\ l.val # NotANumber ->
                [w EXCEPT !.mtu = IF l.val < SafeMtu THEN l.val ELSE SafeMtu]
           [] w.section = "peer" /\ l.key \in {"publickey", "presharedkey"} -> WithKey(w, l)
           [] w.section = "peer" /\ l.key = "allowedips" ->
                [w EXCEPT !.allowedips = @ \cup l.val]
           [] w.section = "peer" /\ l.key = "persistentkeepalive" /\ l.val > 0 ->
                [w EXCEPT !.persistentkeepalive = l.val]
           [] OTHER -> w

\* What parse then insists on.
WgValid(w) ==
    ~w.failed /\ w.privatekey # "none" /\ w.publickey # "none" /\ w.v4 # "none"
-----------------------------------------------------------------------------
NoSettings == [k \in SettingKey |-> "none"]
ObfStart == [within |-> FALSE, any |-> FALSE, named |-> NoSettings, loose |-> NoSettings]

With(settings, l) == [settings EXCEPT ![l.key] = l.val]

(* parse_instance_section: the keys under [instance], and beside them those *)
(* its second pass would find without a header.                             *)
ObfRead(o, l) ==
    IF l.key = "section" THEN [o EXCEPT !.within = (l.val = "instance")]
    ELSE IF l.key = "inert" THEN o
    ELSE [o EXCEPT
            !.any = @ \/ o.within,
            !.named = IF o.within /\ l.key \in SettingKey THEN With(@, l) ELSE @,
            !.loose = IF l.key \in SettingKey THEN With(@, l) ELSE @]

Settings(o) == IF o.any THEN o.named ELSE o.loose
-----------------------------------------------------------------------------
RewriteStart == [section |-> "none", endpointSeen |-> FALSE, mtuSeen |-> FALSE]

\* What is still missing when a section ends.
Missing(r) ==
    CASE r.section = "interface" /\ ~r.mtuSeen -> MtuLine
      [] r.section = "peer" /\ ~r.endpointSeen -> LoopbackLine
      [] OTHER -> Inert

\* Fault: the default route of the other family is forgotten.
HalvedFault(ranges) ==
    (ranges \ {"0.0.0.0/0", "::/0"})
        \cup (IF "0.0.0.0/0" \in ranges THEN {"0.0.0.0/1", "128.0.0.0/1"} ELSE {})

\* A default route is two halves, so that WireGuard does not block everything else.
Halved(ranges) ==
    (ranges \ {"0.0.0.0/0", "::/0"})
        \cup (IF "0.0.0.0/0" \in ranges THEN {"0.0.0.0/1", "128.0.0.0/1"} ELSE {})
        \cup (IF "::/0" \in ranges THEN {"::/1", "8000::/1"} ELSE {})

\* The line written for a line.
Rewritten(r, l) ==
    CASE r.section = "interface" /\ l.key = "mtu" -> MtuLine
      [] r.section = "peer" /\ l.key = "endpoint" -> LoopbackLine
      [] r.section = "peer" /\ l.key = "allowedips" -> [l EXCEPT !.val = Halved(@)]
      [] OTHER -> l

\* Fault: an endpoint seen once counts for later peers.
RewriteReadFault(r, l) ==
    IF l.key = "section" THEN [r EXCEPT !.section = l.val, !.mtuSeen = FALSE]
    ELSE [r EXCEPT !.mtuSeen = @ \/ (r.section = "interface" /\ l.key = "mtu"),
                   !.endpointSeen = @ \/ (r.section = "peer" /\ l.key = "endpoint")]

RewriteRead(r, l) ==
    IF l.key = "section" THEN [section |-> l.val, endpointSeen |-> FALSE, mtuSeen |-> FALSE]
    ELSE [r EXCEPT !.mtuSeen = @ \/ (r.section = "interface" /\ l.key = "mtu"),
                   !.endpointSeen = @ \/ (r.section = "peer" /\ l.key = "endpoint")]

\* Lines that go before l: only a header closes the section above it.
Before(r, l) == IF l.key = "section" THEN Missing(r) ELSE Inert
-----------------------------------------------------------------------------
(* What matters to WireGuard in the written text: in every section the line *)
(* it needs, and nowhere a line that leads elsewhere.                       *)
SeenStart == [section |-> "none", found |-> FALSE, wrong |-> FALSE]
Lacking(s) == s.section \in {"interface", "peer"} /\ ~s.found

See(s, l) ==
    CASE l.key = "section" ->
           [section |-> l.val, found |-> FALSE, wrong |-> s.wrong \/ Lacking(s)]
      [] s.section = "interface" /\ l.key = "mtu" ->
           [s EXCEPT !.found = TRUE, !.wrong = @ \/ l.val # SafeMtu]
      [] s.section = "peer" /\ l.key = "endpoint" ->
           [s EXCEPT !.found = TRUE, !.wrong = @ \/ l.val # "loopback"]
      [] s.section = "peer" /\ l.key = "allowedips" ->
           [s EXCEPT !.wrong = @ \/ l.val \cap {"0.0.0.0/0", "::/0"} # {}]
      [] OTHER -> s
-----------------------------------------------------------------------------
FileInit ==
    /\ merged \in BOOLEAN
    /\ inInstance = FALSE
    /\ wg = WgStart /\ ready = WgStart
    /\ obf = ObfStart
    /\ rewrite = RewriteStart
    /\ seen = SeenStart
    /\ whole = [wg |-> WgStart, obf |-> ObfStart]
    /\ ended = FALSE

\* Fault: a later section does not end the instance section.
SideFault(l) ==
    IF l.key = "section" THEN inInstance \/ l.val \in {"instance", "socks5"} ELSE inInstance

\* split_merged_conf: does the line go to the obfuscator's part?
Side(l) == IF l.key = "section" THEN l.val \in {"instance", "socks5"} ELSE inInstance

(* An archive has a file for each part, and load_from_tar_gz gives both as  *)
(* they are: the line may be one of either.                                 *)
ReadLine(l) ==
    /\ ~ended
    /\ inInstance' = Side(l)
    /\ IF merged /\ Side(l)
       THEN UNCHANGED <<wg, rewrite, ready, seen>>
       ELSE /\ wg' = WgRead(wg, l)
            /\ rewrite' = RewriteRead(rewrite, l)
            /\ ready' = WgRead(WgRead(ready, Before(rewrite, l)), Rewritten(rewrite, l))
            /\ seen' = See(See(seen, Before(rewrite, l)), Rewritten(rewrite, l))
    /\ obf' = IF merged /\ ~Side(l) THEN obf ELSE ObfRead(obf, l)
    /\ whole' = [wg |-> WgRead(whole.wg, l), obf |-> ObfRead(whole.obf, l)]
    /\ UNCHANGED <<merged, ended>>

\* After its loop rewrite_endpoint_to_loopback looks at the last section.
EndText ==
    /\ ~ended
    /\ ended' = TRUE
    /\ ready' = WgRead(ready, Missing(rewrite))
    /\ seen' = See(seen, Missing(rewrite))
    /\ UNCHANGED <<merged, inInstance, wg, obf, rewrite, whole>>

FileStep == EndText \/ \E l \in Line : ReadLine(l)

FileSpec == FileInit /\ [][FileStep]_fvars

\* combine_and_build: without these two there is no profile.
Loads == Settings(obf)["target"] # "none" /\ Settings(obf)["key"] # "none"
-----------------------------------------------------------------------------
(* split_merged_conf loses and adds nothing: the WireGuard part of a merged *)
(* text reads as the text itself does, and so do the keys under [instance]  *)
(* (archive.rs 308-328 against 265-305 and wg_config.rs 48-191).            *)
SplitReadsAlike ==
    /\ [wg EXCEPT !.section = "any"] = [whole.wg EXCEPT !.section = "any"]
    /\ obf.any = whole.obf.any /\ obf.named = whole.obf.named

(* In the exported text every peer has its endpoint on the loopback         *)
(* address, every interface an MTU of 1280, and no default route is left    *)
(* whole, however many sections there are (archive.rs 332-392).  A default  *)
(* route is one of the two spellings lines 374-376 replace.                 *)
ExportUsable == ended => ~seen.wrong /\ ~Lacking(seen)

Reached(range) ==
    CASE range = "0.0.0.0/0" -> {"0.0.0.0/1", "128.0.0.0/1"}
      [] range = "::/0" -> {"::/1", "8000::/1"}
      [] OTHER -> {range}

(* The exported text and the built-in client describe the same tunnel: the  *)
(* same keys, addresses and name servers, or the same refusal, and the same *)
(* traffic, only the MTU being 1280 even where a lower one was asked for    *)
(* (archive.rs 332-392 against wg_config.rs 48-191).                        *)
ExportReadsAlike ==
    /\ [ready EXCEPT !.mtu = SafeMtu, !.allowedips = {}]
          = [wg EXCEPT !.mtu = SafeMtu, !.allowedips = {}]
    /\ UNION {Reached(range) : range \in ready.allowedips}
          = UNION {Reached(range) : range \in wg.allowedips}
    /\ wg.mtu <= ready.mtu
=============================================================================
